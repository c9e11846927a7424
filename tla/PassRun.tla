-------------------------------- MODULE PassRun --------------------------------
(***************************************************************************)
(* The run of one harness under a pass: the loop of pass.rs that is the    *)
(* only writer of the run's events, the control descriptor it reads        *)
(* (pass_control.rs), the private channel its permission bridge shares     *)
(* with the calls of the permission tool (permission_bridge.rs), and       *)
(* umwelt's RunControl without steering.  A call waits in a process of     *)
(* its own, by its own clock; the loop judges the same deadline by its     *)
(* own.  Every file of the channel is created once, whole, by a rename     *)
(* that never replaces (publish).                                          *)
(***************************************************************************)
EXTENDS Integers, Sequences, FiniteSets

CONSTANTS
    Call,        \* the harness's calls of the permission tool
    Id,          \* their tool_use_ids
    None,
    Bridged,     \* whether the pass has a permission bridge
    Pauses,      \* whether time passes between a check and what rests on it
    WritesFail,  \* whether an append to the run's log may fail
    MaxInputs    \* bound: lines on the control descriptor

VARIABLES
    log,         \* the run's events
    late,        \* whether an append found the log finished
    pc,          \* where the pass loop is
    todo,        \* the decisions this poll has still to look at
    looking,     \* the one whose clock it is about to read
    pending,     \* PermissionBridge::pending, by id
    inputs,      \* lines the control reader has handed over
    control,     \* RunControl: "live", "stopped" or "terminal"
    guard,       \* RunEventGuard::finished
    harness,     \* the harness process: "running", "exited" or "stopped"
    status,      \* whether the loop has seen it exit
    channel,     \* the private directory: "none", "open", "lost", "closed"
    claims, requests, replies, receipts,   \* its members
    at,          \* where each call is
    id,          \* the tool_use_id it was made with
    age          \* of each claim: 0, or 1 past its wait, or 2 past expires_at
loopVars == <<pc, todo, looking, pending, inputs, control, guard, status>>
fileVars == <<channel, claims, requests, replies, receipts>>
callVars == <<at, id, age>>
runVars == <<log, late, loopVars, harness, fileVars, callVars>>

Options == {"allow", "deny"}
Ev(type, subject, what) == [type |-> type, subject |-> subject, what |-> what]
Finished == \E i \in DOMAIN log : log[i].type = "run.finished"
Open == channel = "open"

Init ==
    /\ log = <<Ev("run.started", None, None)>> /\ late = FALSE
    /\ pc = "poll" /\ todo = {} /\ looking = None /\ pending = [i \in Id |-> None]
    /\ inputs = 0
    /\ control = "live" /\ guard = FALSE /\ harness = "running" /\ status = FALSE
    /\ channel = (IF Bridged THEN "open" ELSE "none")
    /\ claims = {} /\ requests = {}
    /\ replies = [i \in Id |-> None] /\ receipts = [i \in Id |-> None]
    /\ at = [c \in Call |-> "idle"] /\ id = [c \in Call |-> None] /\ age = [i \in Id |-> 0]
--------------------------------------------------------------------------------
(* A call of the permission tool: handle_permission.                       *)
CallGoto(c, l) == at' = [at EXCEPT ![c] = l]

(* Mutant: the marker of a claim is looked for and not left.               *)
ClaimUnmarked(c, i) ==
    /\ Bridged /\ harness = "running" /\ at[c] = "idle"
    /\ id' = [id EXCEPT ![c] = i]
    /\ CallGoto(c, IF Open /\ i \notin claims THEN "request" ELSE "denied")
    /\ UNCHANGED <<log, late, loopVars, harness, channel, claims, requests, replies, receipts, age>>

(* It claims its id first, so that a repeated one never consumes an        *)
(* earlier allow.                                                          *)
Claim(c, i) ==
    /\ Bridged /\ harness = "running" /\ at[c] = "idle"
    /\ id' = [id EXCEPT ![c] = i]
    /\ IF Open /\ i \notin claims
       THEN claims' = claims \cup {i} /\ CallGoto(c, "request")
       ELSE CallGoto(c, "denied") /\ UNCHANGED claims
    /\ UNCHANGED <<log, late, loopVars, harness, channel, requests, replies, receipts, age>>

Publish(c) ==
    /\ at[c] = "request"
    /\ IF Open
       THEN requests' = requests \cup {id[c]} /\ CallGoto(c, "wait")
       ELSE CallGoto(c, "denied") /\ UNCHANGED requests
    /\ UNCHANGED <<log, late, loopVars, harness, channel, claims, replies, receipts, id, age>>

(* publish fails when the member exists or the directory has gone.         *)
Receipt(i, option, timeout) ==
    receipts' = IF Open /\ receipts[i] = None
                THEN [receipts EXCEPT ![i] = [option |-> option, timeout |-> timeout]]
                ELSE receipts

(* A reply found in time is acknowledged; out of time, or with the channel *)
(* gone, the call denies and says so where it still can.                   *)
ReadReply(c) ==
    /\ at[c] = "wait" /\ age[id[c]] = 0 /\ Open
    /\ replies[id[c]] # None
    /\ CallGoto(c, "acknowledge")
    /\ UNCHANGED <<log, late, loopVars, harness, fileVars, id, age>>

Acknowledge(c) ==
    /\ at[c] = "acknowledge"
    /\ Receipt(id[c], replies[id[c]], FALSE)
    /\ CallGoto(c, IF receipts' # receipts /\ replies[id[c]] = "allow" THEN "allowed" ELSE "denied")
    /\ UNCHANGED <<log, late, loopVars, harness, channel, claims, requests, replies, id, age>>

GiveUp(c) ==
    /\ at[c] = "wait" /\ (age[id[c]] > 0 \/ ~Open)
    /\ Receipt(id[c], "deny", TRUE)
    /\ CallGoto(c, "denied")
    /\ UNCHANGED <<log, late, loopVars, harness, channel, claims, requests, replies, id, age>>

(* Time passes; expires_at lies past the call's own wait.  Without pauses  *)
(* nothing that has just looked at the clock is overtaken by it.           *)
Tick(i) ==
    /\ i \in requests /\ age[i] < 2
    /\ Pauses \/ /\ pc # "expiry"
                 /\ \A c \in Call : id[c] = i =>
                       at[c] # "acknowledge" /\ ~(at[c] = "wait" /\ age[i] = 1)
    /\ age' = [age EXCEPT ![i] = @ + 1]
    /\ UNCHANGED <<log, late, loopVars, harness, fileVars, at, id>>
--------------------------------------------------------------------------------
(* The pass loop: wait_for_child.                                          *)
Goto(l) == pc' = l

(* The loop's appends, one event or two: one that fails ends the loop, and *)
(* what precedes it stays.  The sink refuses all of them once the run has  *)
(* finished.  The model's log keeps what the properties speak of.          *)
Kept(e) ==
    \/ e.type \in {"decision.requested", "decision.answered", "run.finished"}
    \/ e.type = "control.requested" /\ e.what \in Options
    \/ e.type = "control.applied" /\ e.what = "ok" /\ e.subject # None
Nth(n, es, k) == IF n \in 1 .. k /\ Kept(es[n]) THEN <<es[n]>> ELSE <<>>
Appends(es, l) ==
    IF Finished
    THEN late' = TRUE /\ Goto("broken") /\ UNCHANGED log
    ELSE /\ \E k \in 0 .. Len(es) :
               /\ k = Len(es) \/ WritesFail
               /\ log' = log \o Nth(1, es, k) \o Nth(2, es, k)
               /\ Goto(IF k = Len(es) THEN l ELSE "broken")
         /\ UNCHANGED late

(* PermissionBridge::poll: first the requests it has not seen.             *)
Unseen == {i \in requests : pending[i] = None}
Unanswered == {i \in Id : pending[i] # None /\ ~pending[i].answered}
Register(i) ==
    /\ pc = "poll" /\ Open /\ i \in Unseen
    /\ Appends(<<Ev("decision.requested", i, None)>>, "poll")
    /\ pending' = IF pc' = "poll"
                  THEN [pending EXCEPT ![i] = [control |-> None, answered |-> FALSE]] ELSE pending
    /\ UNCHANGED <<todo, looking, inputs, control, guard, harness, status, fileVars, callVars>>

Registered ==
    /\ pc = "poll" /\ (~Open \/ Unseen = {})
    /\ todo' = Unanswered
    /\ Goto("resolve")
    /\ UNCHANGED <<log, late, looking, pending, inputs, control, guard, harness, status, fileVars, callVars>>

(* complete: the decision's answer, then what became of its control.       *)
Complete(i, option, timeout, l) ==
    LET answer == pending[i].control
    IN  /\ Appends(<<Ev("decision.answered", i, option)>> \o
                   (IF answer # None
                    THEN <<Ev("control.applied", i, IF timeout THEN "not-live" ELSE "ok")>>
                    ELSE IF timeout THEN <<Ev("agent.warning", i, None)>> ELSE <<>>), l)
        /\ pending' = IF pc' = l THEN [pending EXCEPT ![i].answered = TRUE] ELSE pending

(* Mutant: the clock is read before the receipt.                           *)
BelievesInTime(i) ==
    /\ receipts[i] # None /\ Open /\ age[i] < 2
    /\ receipts[i].timeout \/ pending[i].control = receipts[i].option

Believes(i) ==
    /\ receipts[i] # None /\ Open
    /\ receipts[i].timeout \/ pending[i].control = receipts[i].option

(* Then of each open decision the receipt, and without one the clock.      *)
ReadReceipt(i) ==
    /\ pc = "resolve" /\ i \in todo
    /\ IF Believes(i)
       THEN /\ Complete(i, receipts[i].option, receipts[i].timeout, "resolve")
            /\ UNCHANGED looking
       ELSE /\ Goto("expiry") /\ looking' = i
            /\ UNCHANGED <<log, late, pending>>
    /\ todo' = todo \ {i}
    /\ UNCHANGED <<inputs, control, guard, harness, status, fileVars, callVars>>

(* Mutant: the loop leaves the deadline to the call.                       *)
CheckExpiryNot ==
    /\ pc = "expiry"
    /\ Goto("resolve") /\ looking' = None
    /\ UNCHANGED <<log, late, todo, pending, inputs, control, guard, harness, status, fileVars, callVars>>

CheckExpiry ==
    /\ pc = "expiry"
    /\ IF age[looking] = 2 \/ ~Open
       THEN Complete(looking, "deny", TRUE, "resolve")
       ELSE Goto("resolve") /\ UNCHANGED <<log, late, pending>>
    /\ looking' = None
    /\ UNCHANGED <<todo, inputs, control, guard, harness, status, fileVars, callVars>>

Resolved ==
    /\ pc = "resolve" /\ todo = {}
    /\ Goto("control")
    /\ UNCHANGED <<log, late, todo, looking, pending, inputs, control, guard, harness, status, fileVars, callVars>>
--------------------------------------------------------------------------------
(* The control reader hands over one line and waits until it is taken; the *)
(* descriptor's end is the last.                                           *)
Inputs ==
    {Ev("interrupt", None, None), Ev("steer", None, None),
     Ev("malformed", None, None), Ev("ended", None, None)}
    \cup {Ev("answer", i, o) : i \in Id \cup {None}, o \in Options \cup {"other"}}

Takes(line, types) ==
    /\ pc = "control" /\ inputs < MaxInputs
    /\ line.type \in types
    /\ inputs' = IF line.type = "ended" THEN MaxInputs ELSE inputs + 1
Asked(line) == Ev("control.requested", line.subject, line.what)
Replied(line, reason) == Ev("control.applied", line.subject, reason)

NoLine ==
    /\ pc = "control" /\ Goto("child")
    /\ UNCHANGED <<log, late, todo, looking, pending, inputs, control, guard, harness, status, fileVars, callVars>>

(* PermissionBridge::answer: refused with a reason, or published for the   *)
(* call to find; not applied before the call acknowledges it.              *)
Refusal(i, option) ==
    IF i = None \/ pending[i] = None THEN "no-such-decision"
    ELSE IF pending[i].answered \/ pending[i].control # None THEN "already-answered"
    ELSE IF option \notin Options THEN "option-not-offered"
    ELSE IF age[i] = 2 \/ ~Open \/ replies[i] # None THEN "not-live"
    ELSE None

Answer(line) ==
    /\ Bridged /\ Takes(line, {"answer"})
    /\ LET i == line.subject
           reason == Refusal(i, line.what)
       IN  IF reason # None
           THEN /\ Appends(<<Asked(line), Replied(line, reason)>>, "child")
                /\ UNCHANGED <<replies, pending>>
           ELSE /\ Appends(<<Asked(line)>>, "child")
                /\ IF pc' = "child"
                   THEN /\ replies' = [replies EXCEPT ![i] = line.what]
                        /\ pending' = [pending EXCEPT ![i].control = line.what]
                   ELSE UNCHANGED <<replies, pending>>
    /\ UNCHANGED <<todo, looking, control, guard, harness, status, channel, claims, requests, receipts, callVars>>

(* A steer, or an answer without a bridge, is unsupported; a line that     *)
(* cannot be read and the descriptor's end are only reported.              *)
Report(line) ==
    /\ \/ /\ Takes(line, IF Bridged THEN {"steer"} ELSE {"steer", "answer"})
          /\ Appends(<<Asked(line), Replied(line, "unsupported")>>, "child")
       \/ Takes(line, {"malformed"}) /\ Appends(<<Ev("capture.refused", None, None)>>, "child")
       \/ Takes(line, {"ended"}) /\ Appends(<<Ev("agent.warning", None, None)>>, "child")
    /\ UNCHANGED <<todo, looking, pending, control, guard, harness, status, fileVars, callVars>>

(* RunControl::interrupt_with, from the descriptor or for a signal: the    *)
(* request, the end of the harness's process group, its answer, the end.   *)
Interrupt(line) ==
    /\ \/ Takes(line, {"interrupt"})
       \/ pc = "signal" /\ line.type = "interrupt" /\ UNCHANGED inputs
    /\ control = "live"
    /\ Appends(<<Ev("control.requested", None, "interrupt")>>, "interrupting")
    /\ UNCHANGED <<todo, looking, pending, control, guard, harness, status, fileVars, callVars>>

KillGroup ==
    /\ harness' = IF harness = "running" THEN "stopped" ELSE harness
    /\ at' = [c \in Call |-> IF at[c] \in {"request", "wait", "acknowledge"} THEN "dead" ELSE at[c]]

Interrupted ==
    /\ pc = "interrupting"
    /\ KillGroup
    /\ Appends(<<Ev("control.applied", None, "ok"), Ev("run.finished", None, "interrupted")>>, "after")
    /\ guard' = (pc' = "after")
    /\ control' = IF pc' = "after" THEN "terminal" ELSE "stopped"
    /\ UNCHANGED <<todo, looking, pending, inputs, status, fileVars, id, age>>

(* A cap trip, from what the harness wrote or from the clock: CapTrip::    *)
(* terminate_and_report writes the end behind RunControl's back.           *)
CapTrip ==
    /\ pc \in {"control", "child"}
    /\ KillGroup
    /\ Appends(<<Ev("run.finished", None, "capped")>>, "after")
    /\ guard' = (pc' = "after")
    /\ UNCHANGED <<todo, looking, pending, inputs, control, status, fileVars, id, age>>

HarnessExits ==
    /\ harness = "running" /\ pc # "interrupting"
    /\ harness' = "exited"
    /\ UNCHANGED <<log, late, loopVars, fileVars, callVars>>

(* try_wait: what is left of its group is killed once it has exited.       *)
SeeExit ==
    /\ pc = "child" /\ harness = "exited" /\ ~status
    /\ status' = TRUE
    /\ at' = [c \in Call |-> IF at[c] \in {"request", "wait", "acknowledge"} THEN "dead" ELSE at[c]]
    /\ UNCHANGED <<log, late, pc, todo, looking, pending, inputs, control, guard, harness, fileVars, id, age>>

(* check_signal and the lease, while the harness has not been seen to      *)
(* exit; then around again, or out once its output has closed.             *)
CheckSignal ==
    /\ pc = "child" /\ ~status /\ harness = "running"
    /\ Goto("signal") \/ Goto("broken") \/ Goto("poll")
    /\ UNCHANGED <<log, late, todo, looking, pending, inputs, control, guard, harness, status, fileVars, callVars>>

Drain ==
    /\ pc = "child" /\ status /\ Goto("poll")
    /\ UNCHANGED <<log, late, todo, looking, pending, inputs, control, guard, harness, status, fileVars, callVars>>
Leave ==
    /\ pc = "child" /\ status /\ Goto("after")
    /\ UNCHANGED <<log, late, todo, looking, pending, inputs, control, guard, harness, status, fileVars, callVars>>
--------------------------------------------------------------------------------
(* After the loop: a harness that still runs is stopped first, the channel *)
(* removed, then the run is finished unless it already is.                 *)
StopHarness ==
    /\ pc = "broken"
    /\ IF harness = "running" THEN KillGroup ELSE UNCHANGED <<harness, at>>
    /\ Goto("after")
    /\ UNCHANGED <<log, late, todo, looking, pending, inputs, control, guard, status, fileVars, id, age>>

CloseChannel ==
    /\ pc = "after"
    /\ channel' = IF Open THEN "closed" ELSE channel
    /\ Goto("finish")
    /\ UNCHANGED <<log, late, todo, looking, pending, inputs, control, guard, harness, status,
                   claims, requests, replies, receipts, callVars>>

(* Mutant: the end is written whoever has written it.                      *)
FinishUnguarded ==
    /\ pc \in {"finish", "drop"} /\ Goto("done")
    /\ IF Finished THEN late' = TRUE /\ UNCHANGED log
       ELSE UNCHANGED late /\ log' = Append(log, Ev("run.finished", None, "ended"))
    /\ UNCHANGED <<todo, looking, pending, inputs, control, guard, harness, status, fileVars, callVars>>

(* RunEventGuard::process_exited, and once more as the guard is dropped.   *)
Finish ==
    /\ pc \in {"finish", "drop"}
    /\ IF guard
       THEN Goto("done") /\ UNCHANGED <<log, late, guard, control>>
       ELSE /\ \/ /\ Finished /\ late' = TRUE /\ UNCHANGED <<log, guard, control>>
                  /\ Goto(IF pc = "finish" THEN "drop" ELSE "done")
               \/ /\ ~Finished /\ log' = Append(log, Ev("run.finished", None, "ended"))
                  /\ guard' = TRUE /\ control' = "terminal" /\ Goto("done") /\ UNCHANGED late
               \/ /\ ~Finished /\ WritesFail /\ UNCHANGED <<log, late, guard, control>>
                  /\ Goto(IF pc = "finish" THEN "drop" ELSE "done")
    /\ UNCHANGED <<todo, looking, pending, inputs, harness, status, fileVars, callVars>>

(* The channel is replaced or taken away under the run.                    *)
LoseChannel ==
    /\ Open /\ channel' = "lost"
    /\ UNCHANGED <<log, late, loopVars, harness, claims, requests, replies, receipts, callVars>>

CallStep(c) == Publish(c) \/ ReadReply(c) \/ Acknowledge(c) \/ GiveUp(c)
Loop ==
    \/ \E i \in Id : Register(i) \/ ReadReceipt(i)
    \/ Registered \/ CheckExpiry \/ Resolved
    \/ NoLine \/ \E line \in Inputs : Answer(line) \/ Report(line) \/ Interrupt(line)
    \/ Interrupted
    \/ SeeExit \/ CheckSignal \/ Drain \/ Leave
    \/ StopHarness \/ CloseChannel \/ Finish
Next ==
    \/ \E c \in Call : CallStep(c) \/ \E i \in Id : Claim(c, i)
    \/ \E i \in Id : Tick(i)
    \/ Loop \/ CapTrip \/ HarnessExits \/ LoseChannel

Spec == Init /\ [][Next]_runVars
FairSpec ==
    /\ Spec
    /\ WF_runVars(Loop) /\ SF_runVars(Leave)
    /\ \A c \in Call : WF_runVars(CallStep(c))
    /\ \A i \in Id : SF_runVars(Tick(i))
--------------------------------------------------------------------------------
Reply == Options \cup {None}
Constants ==
    /\ None \notin Id \cup Options
    /\ None \notin {"no-such-decision", "already-answered", "option-not-offered", "not-live"}
    /\ None \notin [control : Reply, answered : BOOLEAN] \cup [option : Reply, timeout : BOOLEAN]
Labels == {"poll", "resolve", "expiry", "control", "child", "signal", "interrupting",
           "broken", "after", "finish", "drop", "done"}
TypeOK ==
    /\ pc \in Labels /\ todo \subseteq Id /\ looking \in Id \cup {None}
    /\ pc = "expiry" <=> looking # None
    /\ \A i \in Id : pending[i] = None \/
          pending[i] \in [control : Reply, answered : BOOLEAN]
    /\ control \in {"live", "stopped", "terminal"}
    /\ harness \in {"running", "exited", "stopped"}
    /\ channel \in {"none", "open", "lost", "closed"}
    /\ requests \subseteq claims /\ claims \subseteq Id
    /\ at \in [Call -> {"idle", "request", "wait", "acknowledge", "allowed", "denied", "dead"}]

(* "Nothing is emitted after run.finished" (docs/pass-control.md), and     *)
(* nothing tries: of the interrupt, the cap trip, the end of the pass and  *)
(* the drop of its guard, whichever comes first writes the only end, after *)
(* the harness has stopped.                                                *)
OneTerminalEvent ==
    /\ ~late
    /\ \A i \in DOMAIN log : log[i].type = "run.finished" => i = Len(log)
    /\ Finished => harness # "running"
    /\ pc = "done" /\ ~WritesFail => Finished

(* A tool call runs only on an answer of the supervisor's that the log has *)
(* as requested, and one answer allows one call: a repeated tool_use_id    *)
(* never reuses an earlier allow.                                          *)
AllowedByAnswer ==
    \A c \in Call : at[c] = "allowed" =>
        /\ \E k \in DOMAIN log : log[k] = Ev("control.requested", id[c], "allow")
        /\ \A d \in Call \ {c} : id[d] = id[c] => at[d] # "allowed"

(* What the log says was decided is what the call was told: never a deny   *)
(* in the record for a tool that ran, nor an allow for one that was        *)
(* refused.                                                                *)
RecordAgrees ==
    \A k \in DOMAIN log : log[k].type = "decision.answered" /\ channel # "lost" =>
        /\ log[k].what = "deny" => \A c \in Call : id[c] = log[k].subject => at[c] # "allowed"
        /\ log[k].what = "allow" => \E c \in Call : id[c] = log[k].subject /\ at[c] = "allowed"

(* Every decision is answered once at most, after it was requested; of the *)
(* answers forwarded for it one at most is applied, and only after the     *)
(* decision was answered with that option.                                 *)
Positions(e) == {k \in DOMAIN log : log[k] = e}
AnsweredOnce ==
    \A i \in Id :
        LET answers == {k \in DOMAIN log : log[k].type = "decision.answered" /\ log[k].subject = i}
            applied == Positions(Ev("control.applied", i, "ok"))
        IN  /\ Cardinality(answers) <= 1 /\ Cardinality(applied) <= 1
            /\ \A k \in answers : \E j \in Positions(Ev("decision.requested", i, None)) : j < k
            /\ \A k \in applied :
                  /\ k - 1 \in answers
                  /\ \E j \in 1 .. k - 2 : log[j] = Ev("control.requested", i, log[k - 1].what)

(* Nothing waits for ever: a call that was made returns or dies with its   *)
(* harness, answered or not.                                               *)
InCall(c) == at[c] \in {"request", "wait", "acknowledge"}
Returned(c) == at[c] \in {"allowed", "denied", "dead"}
CallReturns == \A c \in Call : InCall(c) ~> Returned(c)

(* Whatever a run opened is closed: a requested decision is answered, by   *)
(* its deadline if by nobody, while the harness runs; and a run whose      *)
(* harness has exited ends, whatever the control descriptor still brings.  *)
RunSettles ==
    \A i \in Id :
        i \in Unanswered \/ harness # "running"
        ~> pc = "done" \/ (i \notin Unanswered /\ harness = "running")
================================================================================
