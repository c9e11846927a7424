---------------------------- MODULE DecisionAnswers ----------------------------
(***************************************************************************)
(* `ostrom queue <verb> --decision --option` (decision_answers.rs): the    *)
(* answers to the decisions the gate asks for and to the tripwires of the  *)
(* queue.  An answer is accepted, delivered, recorded in the trace and     *)
(* told in an event, in that order, by a command that holds                *)
(* decision-answer.lock; a command that is killed leaves the lock behind.  *)
(* The gate and the exceptions it reads are Gate's.  Decisions about       *)
(* budgets and human checkboxes, which deliver nothing to Ostrom's state,  *)
(* go the way of a gate's wait and fail.                                   *)
(***************************************************************************)
EXTENDS Gate, SequencesExt

CONSTANTS
    Answerer,    \* commands
    Item,        \* items a tripwire asks about
    MaxAnswers   \* bound: answers delivered

AnswerConstants ==
    /\ GateConstants /\ MaxAnswers \in Nat
    /\ None \notin Answerer /\ Item \cap Judgment = {}

VARIABLES
    lock,        \* decision-answer.lock: who created it
    answering,   \* where each command is, with which answer
    queue,       \* queue.jsonl: the state of each item's row
    archive,     \* decision-queue/: the row an item had when first answered
    ledger,      \* decision-answered rows of the trace
    effects      \* the answers delivered, recorded or not
answerVars == <<lock, answering, queue, archive, ledger, effects>>
vars == <<gateVars, answerVars>>

NoAnswer == [step |-> "idle", decision |-> None, verb |-> None, about |-> None]
AnswerInit ==
    /\ Init
    /\ lock = None /\ answering = [a \in Answerer |-> NoAnswer]
    /\ queue = [i \in Item |-> "pending"] /\ archive = [i \in Item |-> "none"]
    /\ ledger = <<>> /\ effects = <<>>

At(a) == answering[a].step
Answer(a) == [decision |-> answering[a].decision, verb |-> answering[a].verb,
              about |-> answering[a].about]
Proceed(a, step) == answering' = [answering EXCEPT ![a].step = step]
On(answers, d) == {k \in DOMAIN answers : answers[k].decision = d}
LastAnswer(d) == {k \in On(ledger, d) : \A n \in On(ledger, d) : n <= k}

(* The command ends; AnswerLock is dropped with it.                        *)
End(a) == answering' = [answering EXCEPT ![a] = NoAnswer] /\ lock' = None
--------------------------------------------------------------------------------
(* AnswerLock::acquire: nobody else has created the file.                  *)
TakeLock(a) ==
    /\ At(a) = "idle" /\ lock = None /\ Len(effects) < MaxAnswers
    /\ lock' = a /\ Proceed(a, "look")
    /\ UNCHANGED <<gateVars, queue, archive, ledger, effects>>

(* find_request, answer_history and prepare_answer: an option the decision *)
(* offers or the revocation of an excuse recorded on it, unless it is the  *)
(* last answer recorded; recorded_gate_head: an exception is for the head  *)
(* of the judgment, which the journal must name.  It reads up to the first *)
(* record of that judgment, so that a torn line refuses what is recorded   *)
(* after it; the model, which does not say where a line is torn, accepts.  *)
Asked == requests \cup Item
Offered(d) ==
    IF d \in Item THEN {<<"approve", None>>, <<"reject", None>>, <<"defer", None>>}
    ELSE {<<"wait", None>>, <<"fail", None>>}
             \cup {<<"excuse", c>> : c \in {c \in Condition : d.results[c] = "inconclusive"}}
Revocable(d) ==
    {<<"revoke", answer.about>> : answer \in {answer \in ToSet(ledger) :
                                    answer.decision = d /\ answer.verb = "excuse"}}
Repeats(d, o) == \E k \in LastAnswer(d) : o = <<ledger[k].verb, ledger[k].about>>
HeadRecorded(d) ==
    d.head # NoHead /\ \E i \in DOMAIN gatelog : Identity(gatelog[i]) = d

Accept(a) ==
    /\ At(a) = "look"
    /\ \E d \in Asked : \E o \in Offered(d) \cup Revocable(d) :
          /\ ~Repeats(d, o)
          /\ o[1] \in {"excuse", "revoke"} => HeadRecorded(d)
          /\ answering' = [answering EXCEPT ![a] =
                [step |-> IF d \in Item THEN "archive" ELSE "deliver",
                 decision |-> d, verb |-> o[1], about |-> o[2]]]
    /\ UNCHANGED <<gateVars, lock, queue, archive, ledger, effects>>

(* deliver_queue: the row is kept aside the first time.                    *)
Archive(a) ==
    /\ At(a) = "archive"
    /\ LET i == answering[a].decision
       IN  archive' = IF archive[i] = "none" THEN [archive EXCEPT ![i] = queue[i]] ELSE archive
    /\ Proceed(a, "deliver")
    /\ UNCHANGED <<gateVars, lock, queue, ledger, effects>>

(* The delivery: decide_queue_item_with_prior on the row, restored if it   *)
(* was rejected; or an exception, granted or revoked; or nothing.          *)
Row(i) == IF queue[i] = "none" THEN archive[i] ELSE queue[i]
Decidable(i) ==
    Row(i) \in {"pending", "deferred"} \cup (IF archive[i] = "none" THEN {} ELSE {"approved"})
Effect(verb) ==
    CASE verb = "approve" -> "approved" [] verb = "defer" -> "deferred" [] verb = "reject" -> "none"

(* Mutant: an exception is for the head of the moment.                     *)
ApplyNow(a) ==
    LET d == answering[a].decision
        verb == answering[a].verb
    IN  \/ d \in Item /\ Decidable(d) /\ queue' = [queue EXCEPT ![d] = Effect(verb)] /\ UNCHANGED exceptions
        \/ /\ verb \in {"excuse", "revoke"}
           /\ Except(answering[a].about, head, IF verb = "excuse" THEN "granted" ELSE "revoked")
           /\ UNCHANGED queue
        \/ verb \in {"wait", "fail"} /\ UNCHANGED <<queue, exceptions>>

Apply(a) ==
    LET d == answering[a].decision
        verb == answering[a].verb
    IN  \/ /\ d \in Item /\ Decidable(d)
           /\ queue' = [queue EXCEPT ![d] = Effect(verb)] /\ UNCHANGED exceptions
        \/ /\ verb \in {"excuse", "revoke"}
           /\ Except(answering[a].about, d.head, IF verb = "excuse" THEN "granted" ELSE "revoked")
           /\ UNCHANGED queue
        \/ verb \in {"wait", "fail"} /\ UNCHANGED <<queue, exceptions>>

(* Mutant: an answer that was not delivered is recorded.                   *)
DeliverAnswerOrNot(a) ==
    /\ At(a) = "deliver"
    /\ \/ Apply(a) /\ effects' = Append(effects, Answer(a))
       \/ UNCHANGED <<queue, exceptions, effects>>
    /\ Proceed(a, "record")
    /\ UNCHANGED <<worldVars, gatelog, torn, requests, runs, judging, delivered, audit,
                   lock, archive, ledger>>

DeliverAnswer(a) ==
    /\ At(a) = "deliver"
    /\ Apply(a)
    /\ effects' = Append(effects, Answer(a))
    /\ Proceed(a, "record")
    /\ UNCHANGED <<worldVars, gatelog, torn, requests, runs, judging, delivered, audit,
                   lock, archive, ledger>>

Record(a) ==
    /\ At(a) = "record"
    /\ ledger' = Append(ledger, Answer(a))
    /\ Proceed(a, "emit")
    /\ UNCHANGED <<gateVars, lock, queue, archive, effects>>

(* The event and the end of the run; a refusal, or an error of any step.   *)
Stop(a) ==
    /\ At(a) = "emit" \/ At(a) = "look" \/ (WritesFail /\ At(a) \in {"archive", "deliver", "record"})
    /\ End(a)
    /\ UNCHANGED <<gateVars, queue, archive, ledger, effects>>

(* A command that is killed leaves its lock, which the operator removes    *)
(* once it no longer runs.                                                 *)
Kill(a) ==
    /\ WritesFail /\ At(a) \notin {"idle", "dead"}
    /\ Proceed(a, "dead")
    /\ UNCHANGED <<gateVars, lock, queue, archive, ledger, effects>>
RemoveLock ==
    /\ lock # None /\ At(lock) = "dead"
    /\ End(lock)
    /\ UNCHANGED <<gateVars, queue, archive, ledger, effects>>
--------------------------------------------------------------------------------
AnswerNext ==
    \/ Next /\ UNCHANGED answerVars
    \/ RemoveLock
    \/ \E a \in Answerer : TakeLock(a) \/ Accept(a) \/ Archive(a) \/ DeliverAnswer(a)
                           \/ Record(a) \/ Stop(a) \/ Kill(a)
AnswerSpec == AnswerInit /\ [][AnswerNext]_vars
--------------------------------------------------------------------------------
Verbs == {"approve", "reject", "defer", "excuse", "revoke", "wait", "fail"}

AnswerTypeOK ==
    /\ TypeOK
    /\ lock \in Answerer \cup {None}
    /\ \A a \in Answerer :
          /\ At(a) \in {"idle", "look", "archive", "deliver", "record", "emit", "dead"}
          /\ At(a) # "idle" => lock = a
          /\ At(a) \in {"archive", "deliver", "record", "emit"} => answering[a].verb \in Verbs
    /\ \A i \in Item : {queue[i], archive[i]} \subseteq {"none", "pending", "deferred", "approved"}
    /\ \A answer \in ToSet(ledger) \cup ToSet(effects) : answer.decision \in Asked /\ answer.verb \in Verbs

(* "Repeating the latest answer is refused without delivering it again"    *)
(* (README.md:434): two answers recorded one after the other on a decision *)
(* differ, whoever gave them.                                              *)
AnswersAlternate ==
    \A m, n \in DOMAIN ledger :
        /\ m < n /\ ledger[m].decision = ledger[n].decision
        /\ \A k \in m + 1 .. n - 1 : ledger[k].decision # ledger[n].decision
        => ledger[m] # ledger[n]

(* What is recorded was delivered, in the order it is recorded in; and the *)
(* queue shows the last answer recorded on an item, unless one delivered   *)
(* later on it took effect unrecorded.                                     *)
RecordedTookEffect ==
    \E delivery \in [DOMAIN ledger -> DOMAIN effects] :
        /\ \A m, n \in DOMAIN ledger : m < n => delivery[m] < delivery[n]
        /\ \A n \in DOMAIN ledger : effects[delivery[n]] = ledger[n]
        /\ \A i \in Item : \A n \in LastAnswer(i) :
              \/ queue[i] = Effect(ledger[n].verb)
              \/ \E k \in On(effects, i) : k > delivery[n]

(* A condition is excused only where a decision was asked about it: for    *)
(* the head whose judgment found it inconclusive, never for a later one.   *)
ExcusedWasAsked ==
    \A i \in DOMAIN gatelog : \A c \in Condition : gatelog[i].results[c] = "excused" =>
        \E d \in requests : d.head = gatelog[i].head /\ d.results[c] = "inconclusive"
================================================================================
