-------------------------------- MODULE Journal --------------------------------
(***************************************************************************)
(* The trace and the event journal (crates/ostrom-store/src/               *)
(* umwelt_edge.rs append_trace, event_store.rs, trace.rs).  Every append   *)
(* to sprint.jsonl first projects the record onto an event, which it       *)
(* appends to events.jsonl under the number that follows those it read     *)
(* there; neither file has a lock.  A record that names no run belongs to  *)
(* the pass that the trace says is under way.                              *)
(*                                                                         *)
(* Passes append here: a start, facts that name no run, and an end.  What  *)
(* a record says is a payload without its narration.                       *)
(***************************************************************************)
EXTENDS Naturals, Sequences, FiniteSets

CONSTANTS
    Pass,         \* the passes, by their owner names
    Command,      \* the processes that append for them
    Payload,      \* what a fact of a pass may say
    None,
    Apart,        \* an append ends before another begins
    OneAtATime,   \* a pass begins when none is under way
    WholeLines,   \* no write stops just before the end of its line
    MaxRecords,   \* bound on the appends
    MaxFaults     \* bound on failing writes and kills

VARIABLES
    journal,   \* the lines of events.jsonl
    trace,     \* the lines of sprint.jsonl
    cut,       \* the files whose last line has no end
    life,      \* how far each pass is
    by,        \* the pass that each command appends for
    pc,        \* where it is in append_trace
    record,    \* the record it appends
    event,     \* the event it is to append, after it read the journal
    appends, faults

vars == <<journal, trace, cut, life, by, pc, record, event, appends, faults>>
--------------------------------------------------------------------------------
Kind == {"pass-started", "fact", "pass-ended"}
Record == [kind : Kind, owner : Pass \cup {None}, payload : Payload \cup {None}]
Run == Pass \cup {"local"}
Event == [run : Run, of : Record, by : Pass, seq : Nat \ {0}]

(* What the constants are.                                                 *)
Constants == None \notin Pass /\ None \notin Record /\ None \notin Event /\ "local" \notin Pass

(* A line that is not a record, or not the whole of one.                   *)
Torn == [torn |-> TRUE]

Init ==
    /\ journal = <<>> /\ trace = <<>> /\ cut = {}
    /\ life = [p \in Pass |-> "new"]
    /\ by = [c \in Command |-> None] /\ pc = [c \in Command |-> "idle"]
    /\ record = [c \in Command |-> None] /\ event = [c \in Command |-> None]
    /\ appends = 0 /\ faults = 0

Appending(p) == \E c \in Command : by[c] = p
Ending(p) == \E c \in Command : by[c] = p /\ record[c].kind = "pass-ended"
UnderWay(p) == life[p] = "open" \/ Appending(p)
--------------------------------------------------------------------------------
(* A pass starts once, appends facts, itself or by its agent's commands,   *)
(* and ends once they are done.                                            *)
Says(c, kind, owner, x) ==
    record' = [record EXCEPT ![c] = [kind |-> kind, owner |-> owner, payload |-> x]]

Begin(p, c) ==
    /\ pc[c] = "idle" /\ appends < MaxRecords /\ appends' = appends + 1
    /\ Apart => \A d \in Command : pc[d] = "idle"
    /\ \/ /\ life[p] = "new" /\ ~Appending(p)
          /\ OneAtATime => \A q \in Pass \ {p} : ~UnderWay(q)
          /\ Says(c, "pass-started", p, None)
       \/ life[p] = "open" /\ ~Ending(p) /\ \E x \in Payload : Says(c, "fact", None, x)
       \/ life[p] = "open" /\ ~Appending(p) /\ Says(c, "pass-ended", p, None)
    /\ by' = [by EXCEPT ![c] = p] /\ pc' = [pc EXCEPT ![c] = "read"]
    /\ UNCHANGED <<journal, trace, cut, life, event, faults>>

(* active_trace_run: the last pass that began, unless one has ended since; *)
(* none in a trace with a torn line.                                       *)
ActiveRun ==
    LET marks == {i \in DOMAIN trace : trace[i] # Torn /\ trace[i].kind # "fact"}
        last == CHOOSE i \in marks : \A j \in marks : j <= i
    IN IF (\E i \in DOMAIN trace : trace[i] = Torn) \/ marks = {} \/ trace[last].kind = "pass-ended"
       THEN "local" ELSE trace[last].owner

(* trace_run_id                                                            *)
RunOf(r) == IF r.owner # None THEN r.owner ELSE ActiveRun

(* read_records fails on a line that does not parse.                       *)
Readable == \A i \in DOMAIN journal : journal[i] # Torn

(* The events of a run.                                                    *)
OfRun(run) == {i \in DOMAIN journal : journal[i] # Torn /\ journal[i].run = run}

(* Mutant: the numbers of all runs are one sequence.                       *)
NextSeqOverall(run) == Cardinality({i \in DOMAIN journal : journal[i] # Torn}) + 1

(* The number of its next: one more than the greatest it has.              *)
NextSeq(run) ==
    IF OfRun(run) = {} THEN 1
    ELSE 1 + journal[CHOOSE i \in OfRun(run) : \A j \in OfRun(run) : journal[j].seq <= journal[i].seq].seq

Finish(c) ==
    /\ by' = [by EXCEPT ![c] = None] /\ pc' = [pc EXCEPT ![c] = "idle"]
    /\ record' = [record EXCEPT ![c] = None]
    /\ event' = [event EXCEPT ![c] = None]

(* append_event_at reads the journal.  Unreadable, nothing is appended to  *)
(* either file; an event that is there already is not appended again.      *)
ReadJournal(c) ==
    /\ pc[c] = "read"
    /\ LET run == RunOf(record[c])
       IN IF ~Readable THEN Finish(c)
          ELSE IF \E i \in OfRun(run) : journal[i].of = record[c]
          THEN pc' = [pc EXCEPT ![c] = "row"] /\ UNCHANGED <<by, record, event>>
          ELSE /\ pc' = [pc EXCEPT ![c] = "event"] /\ UNCHANGED <<by, record>>
               /\ event' = [event EXCEPT ![c] =
                      [run |-> run, of |-> record[c], by |-> by[c], seq |-> NextSeq(run)]]
    /\ UNCHANGED <<journal, trace, cut, life, appends, faults>>

(* A line goes where the file ends, perhaps onto a line that was cut.      *)
After(file, name, line) ==
    IF name \in cut THEN [file EXCEPT ![Len(file)] = Torn] ELSE Append(file, line)

AppendEvent(c) ==
    /\ pc[c] = "event" /\ pc' = [pc EXCEPT ![c] = "row"]
    /\ journal' = After(journal, "events", event[c]) /\ cut' = cut \ {"events"}
    /\ UNCHANGED <<trace, life, by, record, event, appends, faults>>

Later(c) == CASE record[c].kind = "pass-started" -> "open"
              [] record[c].kind = "pass-ended" -> "closed"
              [] OTHER -> life[by[c]]

AppendRow(c) ==
    /\ pc[c] = "row" /\ Finish(c)
    /\ trace' = After(trace, "trace", record[c]) /\ cut' = cut \ {"trace"}
    /\ life' = [life EXCEPT ![by[c]] = Later(c)]
    /\ UNCHANGED <<journal, appends, faults>>

(* A write fails, or the process is killed in it: part of the line is      *)
(* there.  A pass whose start is not recorded does not go on; a command    *)
(* that could not record a fact, or a pass its end, may be repeated.       *)
Parts(line) == {Torn} \cup IF WholeLines THEN {} ELSE {line}

WriteStops(c) ==
    /\ faults < MaxFaults /\ faults' = faults + 1
    /\ \/ /\ pc[c] = "event" /\ UNCHANGED trace
          /\ \E part \in Parts(event[c]) :
                journal' = After(journal, "events", part) /\ cut' = cut \cup {"events"}
       \/ /\ pc[c] = "row" /\ UNCHANGED journal
          /\ \E part \in Parts(record[c]) :
                trace' = After(trace, "trace", part) /\ cut' = cut \cup {"trace"}
       \/ pc[c] # "idle" /\ UNCHANGED <<journal, trace, cut>>
    /\ Finish(c)
    /\ UNCHANGED <<life, appends>>

(* A pass dies.                                                            *)
Die(p) ==
    /\ life[p] = "open" /\ ~Appending(p) /\ faults < MaxFaults /\ faults' = faults + 1
    /\ life' = [life EXCEPT ![p] = "closed"]
    /\ UNCHANGED <<journal, trace, cut, by, pc, record, event, appends>>

Next ==
    \/ \E c \in Command :
          \/ ReadJournal(c) \/ AppendEvent(c) \/ AppendRow(c) \/ WriteStops(c)
          \/ \E p \in Pass : Begin(p, c)
    \/ \E p \in Pass : Die(p)

Spec == Init /\ [][Next]_vars
--------------------------------------------------------------------------------
(* Every variable has its type.                                            *)
TypeOK ==
    /\ journal \in Seq(Event \cup {Torn}) /\ trace \in Seq(Record \cup {Torn})
    /\ cut \subseteq {"events", "trace"}
    /\ life \in [Pass -> {"new", "open", "closed"}]
    /\ by \in [Command -> Pass \cup {None}]
    /\ pc \in [Command -> {"idle", "read", "event", "row"}]
    /\ record \in [Command -> Record \cup {None}] /\ event \in [Command -> Event \cup {None}]

(* The numbers of a run's events have no gap (docs/store-port.md:43-45),   *)
(* even of those that commands append at the same time.                    *)
NumbersGapless ==
    \A run \in Run :
        \A n \in {journal[i].seq : i \in OfRun(run)} :
            1 .. n \subseteq {journal[i].seq : i \in OfRun(run)}

(* A run has as many events as numbers, and no two alike                   *)
(* (docs/store-port.md:42-46); only the last line of the journal may be    *)
(* torn, after which no event is added.                                    *)
EventsNumbered ==
    /\ \A i \in DOMAIN journal : journal[i] = Torn => i = Len(journal)
    /\ \A run \in Run : \A i, j \in OfRun(run) :
          i # j => journal[i].of # journal[j].of /\ journal[i].seq # journal[j].seq

(* Every row of the trace has its event.                                   *)
RowHasEvent ==
    \A i \in DOMAIN trace : trace[i] # Torn =>
        \E j \in DOMAIN journal : journal[j] # Torn /\ journal[j].of = trace[i]

(* An event is its own pass's, or, once the trace has a torn line, no      *)
(* pass's (event_store.rs active_trace_run).                               *)
Attributed ==
    \A i \in DOMAIN journal :
        \/ journal[i] = Torn
        \/ journal[i].run = journal[i].by
        \/ journal[i].run = "local" /\ \E j \in DOMAIN trace : trace[j] = Torn

(* What readers of the journal are promised, by the second part of appends *)
(* that end before another begins.                                         *)
EventsKept == Attributed /\ NumbersGapless /\ (Apart = TRUE => EventsNumbered /\ RowHasEvent)
================================================================================
