---------------------------------- MODULE Gate ---------------------------------
(***************************************************************************)
(* The gate of one pull request, and what follows its verdict.  gate.rs    *)
(* reads the pull request with several calls to the forge, judges its      *)
(* conditions, applies the exceptions of leaves.rs, asks for a decision    *)
(* when it cannot tell, and appends the judgment to gate.jsonl.  The       *)
(* gatekeeper (prompts/merge.md) merges on a pass and delivers anything    *)
(* else once.  The sweep (sweep.rs) later compares the merges with the     *)
(* journal.  Commits may be pushed and the principal may grant and revoke  *)
(* exceptions, or merge by hand, at any time.                              *)
(***************************************************************************)
EXTENDS Integers, Sequences

CONSTANTS
    Judge,          \* runs of the gate by the gatekeeper
    Loose,          \* conditions that change without a commit: mergeable, checks
    Diff,           \* conditions on the diff: bounce selectors, reserved refs
    None,
    PushesMidRead,  \* whether a commit may be pushed between two reads
    WritesFail,     \* whether an append may fail, or tear the journal
    ByHand,         \* what is done by hand: merges, exceptions of conditions
    MaxHead,        \* bound: commits pushed
    MaxRuns         \* bound: runs of the gate

Condition == Loose \cup Diff
Excusable == Condition \cup {"merge_protocol"}
GateConstants ==
    /\ Loose \cap Diff = {} /\ {PushesMidRead, WritesFail} \subseteq BOOLEAN
    /\ MaxHead \in Nat \ {0} /\ MaxRuns \in Nat
NoHead == 0   \* the metadata named no head

VARIABLES
    head,        \* the commit the pull request is at
    truth,       \* whether the diff of each commit satisfies its conditions
    merge,       \* the merged commit, and on which verdict
    gatelog,     \* gate.jsonl
    torn,        \* whether gate.jsonl holds a line that is not a record
    exceptions,  \* the last record of exceptions.jsonl for a head and a condition
    requests,    \* judgments for which a decision is requested
    runs,        \* the gates begun
    judging,     \* what each run of the gate has read and judged
    delivered,   \* the judgments of gatelog that were delivered
    audit        \* what the last sweep found of the merge, and its floor
worldVars == <<head, truth, merge>>
gateVars == <<worldVars, gatelog, torn, exceptions, requests, runs, judging, delivered, audit>>

Idle == [step |-> "idle", head |-> NoHead, late |-> FALSE, already |-> "not-judged",
         results |-> [c \in Condition |-> "inconclusive"]]

Init ==
    /\ head = 1 /\ merge = None
    /\ truth \in [1 .. MaxHead -> {"pass", "fail"}]
    /\ gatelog = <<>> /\ torn = FALSE /\ exceptions = [e \in (1 .. MaxHead) \X Excusable |-> "none"] /\ requests = {} /\ runs = 0
    /\ judging = [j \in Judge |-> Idle]
    /\ delivered = {} /\ audit = [found |-> "none", floor |-> "none"]

Now(j) == judging[j].step
Goto(j, step) == judging' = [judging EXCEPT ![j].step = step]
--------------------------------------------------------------------------------
(* The world.                                                              *)
Push ==
    /\ merge = None /\ head < MaxHead
    /\ PushesMidRead \/ \A j \in Judge : Now(j) \notin {"checks", "diff"}
    /\ head' = head + 1
    /\ UNCHANGED <<truth, merge, gatelog, torn, exceptions, requests, runs, judging, delivered, audit>>

MergeByHand ==
    /\ "merge" \in ByHand /\ merge = None
    /\ merge' = [head |-> head, on |-> NoHead]
    /\ UNCHANGED <<head, truth, gatelog, torn, exceptions, requests, runs, judging, delivered, audit>>

(* append_excuse, for the head of the moment.                              *)
Except(c, h, record) == exceptions' = [exceptions EXCEPT ![<<h, c>>] = record]
ExcuseByHand ==
    /\ \E c \in ByHand \cap Excusable, record \in {"granted", "revoked"} : Except(c, head, record)
    /\ UNCHANGED <<worldVars, gatelog, torn, requests, runs, judging, delivered, audit>>
--------------------------------------------------------------------------------
(* The gate.  The metadata names a head, unless it cannot be read; the     *)
(* checks are those of that head, and are not read without one; the diff   *)
(* is asked for by number alone.  What was not read is inconclusive.       *)
Results(j, read) ==
    [c \in Condition |-> IF c \in DOMAIN read THEN read[c] ELSE judging[j].results[c]]

ReadMetadata(j) ==
    /\ Now(j) = "idle" /\ runs < MaxRuns /\ runs' = runs + 1
    /\ \E h \in {head, NoHead} :
          judging' = [judging EXCEPT ![j] =
              [Idle EXCEPT !.step = "checks", !.head = h, !.late = merge # None]]
    /\ UNCHANGED <<worldVars, gatelog, torn, exceptions, requests, delivered, audit>>

ReadChecks(j) ==
    /\ Now(j) = "checks"
    /\ \E read \in [Loose -> {"pass", "fail", "inconclusive"}] :
          /\ judging[j].head = NoHead => \A c \in Loose : read[c] = "inconclusive"
          /\ judging' = [judging EXCEPT ![j].step = "diff", ![j].results = Results(j, read)]
    /\ UNCHANGED <<worldVars, gatelog, torn, exceptions, requests, runs, delivered, audit>>

ReadDiff(j) ==
    /\ Now(j) = "diff"
    /\ \E result \in {truth[head], "inconclusive"} :
          judging' = [judging EXCEPT ![j].step = "conclude",
                          ![j].results = Results(j, [c \in Diff |-> result])]
    /\ UNCHANGED <<worldVars, gatelog, torn, exceptions, requests, runs, delivered, audit>>

(* apply_exceptions, by active_exception_reason: the last record counts.   *)
Excused(c, h) == h # NoHead /\ exceptions[<<h, c>>] = "granted"
Judged(j) ==
    [c \in Condition |->
        IF judging[j].results[c] \in {"fail", "inconclusive"} /\ Excused(c, judging[j].head)
        THEN "excused" ELSE judging[j].results[c]]

(* Mutant: what was not found to fail passes.                              *)
AggregateLenient(results) ==
    IF \E c \in Condition : results[c] = "fail" THEN "fail" ELSE "pass"

Aggregate(results) ==
    CASE \E c \in Condition : results[c] = "fail" -> "fail"
      [] \A c \in Condition : results[c] \in {"pass", "excused"} -> "pass"
      [] OTHER -> "inconclusive"
Verdict(j) == Aggregate(judging[j].results)

(* A judgment's identity: the head, and the digest of what was found.      *)
Identity(record) == [head |-> record.head, results |-> record.results]

(* apply_exceptions and emit_gate_decision, before anything is recorded.   *)
(* The gate fails when it cannot ask.                                      *)
Conclude(j) ==
    /\ Now(j) = "conclude"
    /\ LET concluded == [judging[j] EXCEPT !.step = "history", !.results = Judged(j)]
       IN  \/ /\ judging' = [judging EXCEPT ![j] = concluded]
              /\ requests' = IF Aggregate(Judged(j)) = "inconclusive"
                             THEN requests \cup {Identity(concluded)} ELSE requests
           \/ /\ WritesFail /\ Aggregate(Judged(j)) = "inconclusive"
              /\ judging' = [judging EXCEPT ![j] = Idle] /\ UNCHANGED requests
    /\ UNCHANGED <<worldVars, gatelog, torn, exceptions, runs, delivered, audit>>

(* already_judged: the last judgment of this head, or without one.         *)
LastJudged(h) ==
    {i \in DOMAIN gatelog : /\ gatelog[i].head = h
                            /\ \A k \in DOMAIN gatelog : gatelog[k].head = h => k <= i}
(* Mutant: the time of a judgment is part of what it found.                *)
AlreadyJudgedThen(j) ==
    IF torn THEN "cannot-tell"
    ELSE IF \E i \in LastJudged(judging[j].head) :
                /\ Identity(gatelog[i]) = Identity(judging[j])
                /\ gatelog[i].late = judging[j].late
         THEN "judged" ELSE "not-judged"

AlreadyJudged(j) ==
    IF torn THEN "cannot-tell"
    ELSE IF \E i \in LastJudged(judging[j].head) : Identity(gatelog[i]) = Identity(judging[j])
         THEN "judged" ELSE "not-judged"

ReadHistory(j) ==
    /\ Now(j) = "history"
    /\ judging' = [judging EXCEPT ![j].step = "append", ![j].already = AlreadyJudged(j)]
    /\ UNCHANGED <<worldVars, gatelog, torn, exceptions, requests, runs, delivered, audit>>

(* append_record.  When it fails the gate answers inconclusive.            *)
AppendRecord(j) ==
    /\ Now(j) = "append"
    /\ \/ /\ gatelog' = Append(gatelog, [head |-> judging[j].head, results |-> judging[j].results,
                                        late |-> judging[j].late, verdict |-> Verdict(j)])
          /\ Goto(j, "returned") /\ UNCHANGED torn
       \/ /\ WritesFail
          /\ torn' \in {torn, TRUE}
          /\ judging' = [judging EXCEPT ![j] = Idle]
          /\ UNCHANGED gatelog
    /\ UNCHANGED <<worldVars, exceptions, requests, runs, delivered, audit>>
--------------------------------------------------------------------------------
(* The gatekeeper: on a pass a comment and a merge of whatever the head is *)
(* by then, either of which may be refused; else a delivery, unless this   *)
(* judgment was recorded before.                                           *)
Return(j) == judging' = [judging EXCEPT ![j] = Idle]

Merge(j) ==
    /\ Now(j) = "returned" /\ Verdict(j) = "pass"
    /\ merge = None
    /\ merge' = [head |-> head, on |-> judging[j].head]
    /\ Return(j)
    /\ UNCHANGED <<head, truth, gatelog, torn, exceptions, requests, runs, delivered, audit>>

Deliver(j) ==
    /\ Now(j) = "returned" /\ Verdict(j) # "pass" /\ judging[j].already = "not-judged"
    /\ delivered' = delivered \cup {Len(gatelog)}
    /\ Return(j)
    /\ UNCHANGED <<worldVars, gatelog, torn, exceptions, requests, runs, audit>>

(* It suppresses what was recorded before; a write is refused or fails; or *)
(* the pass is stopped at any step.                                        *)
Leave(j) ==
    /\ Now(j) # "idle" /\ Return(j)
    /\ UNCHANGED <<worldVars, gatelog, torn, exceptions, requests, runs, delivered, audit>>

(* analyze_merge_gate: a merge is a fault unless a pass of the merged      *)
(* commit whose gate began before it is recorded, it is older than every   *)
(* judgment, or its protocol is excused.  A journal that cannot be read    *)
(* has no records, and leaves the floor where it was.                      *)
Evidence == IF torn THEN {} ELSE {i \in DOMAIN gatelog : gatelog[i].head # NoHead}
Floor ==
    IF torn THEN audit.floor
    ELSE IF Evidence = {} THEN "none"
    ELSE IF \A i \in Evidence : gatelog[i].late THEN "late" ELSE "early"
Unfounded == Floor = "late" \/ (Floor = "none" /\ ~torn)
(* Mutant: a pass of any commit is evidence.                               *)
TimelyPassAny == \E i \in Evidence : gatelog[i].verdict = "pass" /\ ~gatelog[i].late

TimelyPass ==
    \E i \in Evidence : /\ gatelog[i].head = merge.head
                       /\ gatelog[i].verdict = "pass" /\ ~gatelog[i].late
Audit ==
    /\ merge # None
    /\ audit' = [floor |-> Floor,
                 found |-> IF Unfounded THEN "skipped"
                           ELSE IF TimelyPass THEN "clean"
                           ELSE IF Excused("merge_protocol", merge.head) THEN "excused"
                           ELSE "fault"]
    /\ UNCHANGED <<worldVars, gatelog, torn, exceptions, requests, runs, judging, delivered>>
--------------------------------------------------------------------------------
GateStep(j) ==
    \/ ReadMetadata(j) \/ ReadChecks(j) \/ ReadDiff(j) \/ Conclude(j)
    \/ ReadHistory(j) \/ AppendRecord(j)
    \/ Merge(j) \/ Deliver(j) \/ Leave(j)
Next ==
    \/ Push \/ MergeByHand \/ ExcuseByHand \/ Audit
    \/ \E j \in Judge : GateStep(j)
Spec == Init /\ [][Next]_gateVars
--------------------------------------------------------------------------------
Found == [Condition -> {"pass", "fail", "inconclusive", "excused"}]
Judgment == [head : 0 .. MaxHead, results : Found]

TypeOK ==
    /\ head \in 1 .. MaxHead
    /\ truth \in [1 .. MaxHead -> {"pass", "fail"}]
    /\ merge = None \/ merge \in [head : 1 .. MaxHead, on : 0 .. MaxHead]
    /\ \A i \in DOMAIN gatelog :
          gatelog[i] \in [head : 0 .. MaxHead, results : Found, late : BOOLEAN,
                         verdict : {"pass", "fail", "inconclusive"}]
    /\ torn \in BOOLEAN
    /\ exceptions \in [(1 .. MaxHead) \X Excusable -> {"none", "granted", "revoked"}]
    /\ runs \in 0 .. MaxRuns
    /\ requests \subseteq Judgment
    /\ judging \in [Judge -> [step : {"idle", "checks", "diff", "conclude", "history", "append",
                                    "returned"},
                             head : 0 .. MaxHead, late : BOOLEAN, results : Found,
                             already : {"judged", "not-judged", "cannot-tell"}]]
    /\ delivered \subseteq DOMAIN gatelog
    /\ audit.found \in {"none", "skipped", "clean", "excused", "fault"}
    /\ audit.floor \in {"none", "early", "late"}

(* A pass names the artifact it judged (gate.rs:216-218): the commit of a  *)
(* passing record satisfies the conditions on its diff not excused for it. *)
PassStandsOnItsHead ==
    \A i \in DOMAIN gatelog : gatelog[i].verdict = "pass" =>
        /\ gatelog[i].head \in DOMAIN truth
        /\ \A c \in Diff :
              gatelog[i].results[c] = "excused" \/ truth[gatelog[i].head] = "pass"

(* A judgment that is not a pass is delivered again only after another     *)
(* judgment of the same head (prompts/gatekeep.md:198-212), however the    *)
(* gatekeeper was stopped and the journal torn in between.                 *)
DeliveredOnce ==
    \A m, n \in delivered : m < n /\ Identity(gatelog[m]) = Identity(gatelog[n]) =>
        \E k \in m .. n : gatelog[k].head = gatelog[n].head
                         /\ Identity(gatelog[k]) # Identity(gatelog[n])

(* The sweep tells what was merged: it is a fault when a commit was pushed *)
(* between the verdict and the merge, it is none when the judged commit    *)
(* was merged, and no merge is clean whose commit never passed.            *)
AuditTells ==
    /\ audit.found = "clean" =>
          \E i \in DOMAIN gatelog : gatelog[i].head = merge.head /\ gatelog[i].verdict = "pass"
    /\ merge # None /\ ~torn /\ audit.found # "none" =>
          /\ merge.on = merge.head => audit.found = "clean"
          /\ merge.on \notin {NoHead, merge.head} => audit.found \in {"fault", "excused"}
================================================================================
