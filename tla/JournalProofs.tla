----------------------------- MODULE JournalProofs ------------------------------
(* Theorems about the records of MCRecords: the journal and the trace      *)
(* (Journal), for any number of passes, commands, appends, failing writes  *)
(* and kills; the log of a run (EventLog); and the run of a harness with   *)
(* its permission bridge (PassRun).                                        *)
EXTENDS MCRecords, SequenceTheorems, FiniteSetTheorems, TLAPS

TornIn(file) == \E i \in DOMAIN file : file[i] = Torn

(* A command has a record of its pass, and an event of that record.        *)
Stage ==
    \A c \in Command :
        /\ pc[c] = "idle" <=> by[c] = None
        /\ pc[c] # "idle" =>
              /\ record[c] # None
              /\ record[c].owner = IF record[c].kind = "fact" THEN None ELSE by[c]
        /\ pc[c] = "event" => event[c] # None /\ event[c].of = record[c] /\ event[c].by = by[c]

(* A file whose last line is cut ends in a torn line.                      *)
Cuts ==
    /\ "events" \in cut => journal # <<>> /\ journal[Len(journal)] = Torn
    /\ "trace" \in cut => trace # <<>> /\ trace[Len(trace)] = Torn

(* A pass is new until its start is in the trace and open until its end    *)
(* is; while either is appended, no other command appends for the pass.    *)
Lives ==
    \A c \in Command : pc[c] # "idle" =>
        /\ life[by[c]] = IF record[c].kind = "pass-started" THEN "new" ELSE "open"
        /\ record[c].kind # "fact" => \A d \in Command : by[d] = by[c] => d = c

OnePass == \A p, q \in Pass : UnderWay(p) /\ UnderWay(q) => p = q

(* An open pass is the last that began in the trace.                       *)
Marks(p) ==
    \E m \in DOMAIN trace :
        /\ trace[m].kind = "pass-started" /\ trace[m].owner = p
        /\ \A j \in DOMAIN trace : j > m => trace[j].kind = "fact"

Marked == ~TornIn(trace) => \A p \in Pass : life[p] = "open" => Marks(p)

(* An event is its pass's.                                                 *)
Own(e) == e.run = e.by \/ (e.run = "local" /\ TornIn(trace))

Owned ==
    /\ \A i \in DOMAIN journal : journal[i] = Torn \/ Own(journal[i])
    /\ \A c \in Command : pc[c] = "event" => Own(event[c])

(* The numbers of a run, without a gap and with a greatest one.            *)
Seqs(run) == {journal[i].seq : i \in OfRun(run)}

Gapless ==
    \A run \in Run :
        /\ \A n \in Seqs(run) : 1 .. n \subseteq Seqs(run)
        /\ Seqs(run) # {} => \E n \in Seqs(run) : \A m \in Seqs(run) : m <= n

Next1 == \A c \in Command : pc[c] = "event" => 1 .. (event[c].seq - 1) \subseteq Seqs(event[c].run)

(* One command appends, and what it has read is still so.                  *)
Alone ==
    /\ \A c, d \in Command : pc[c] # "idle" /\ pc[d] # "idle" => c = d
    /\ \A c \in Command : pc[c] = "event" =>
          /\ Readable
          /\ \A i \in OfRun(event[c].run) :
                journal[i].seq < event[c].seq /\ journal[i].of # event[c].of
    /\ \A c \in Command : pc[c] = "row" =>
          \E j \in DOMAIN journal : journal[j] # Torn /\ journal[j].of = record[c]

(* A start and an end name their pass, and one of them is the last.        *)
Bounds == {i \in DOMAIN trace : trace[i] # Torn /\ trace[i].kind # "fact"}

Named ==
    /\ \A i \in Bounds : trace[i].owner \in Pass
    /\ Bounds # {} => \E m \in Bounds : \A j \in Bounds : j <= m

Lines == Event \cup {Torn}
Rows == Record \cup {Torn}

Base == TypeOK /\ Stage /\ Cuts /\ Named
--------------------------------------------------------------------------------
(* A torn line is neither a record nor an event.                           *)
LEMMA TornApart == Torn \notin Record /\ Torn \notin Event
<1>1. DOMAIN Torn = {"torn"} BY DEF Torn
<1>2. \A r \in Record : DOMAIN r = {"kind", "owner", "payload"} BY DEF Record
<1>3. \A e \in Event : DOMAIN e = {"run", "of", "by", "seq"} BY DEF Event
<1>4. "torn" \notin {"kind", "owner", "payload"} /\ "torn" \notin {"run", "of", "by", "seq"}
  OBVIOUS
<1>5. QED BY <1>1, <1>2, <1>3, <1>4

(* What a line does to a file: it is appended, unless it goes onto a torn  *)
(* line.                                                                   *)
LEMMA AfterLine ==
  ASSUME NEW S, NEW file \in Seq(S), NEW name, NEW line \in S,
         name \in cut => file # <<>> /\ file[Len(file)] = Torn
  PROVE  /\ After(file, name, line) \in Seq(S)
         /\ After(file, name, line) = IF name \in cut THEN file ELSE Append(file, line)
<1>1. CASE name \in cut
  <2>1. [file EXCEPT ![Len(file)] = Torn] = file BY <1>1
  <2>2. QED BY <1>1, <2>1 DEF After
<1>2. CASE name \notin cut
  BY <1>2 DEF After
<1>3. QED BY <1>1, <1>2

(* The files are sequences of lines, a cut one ends in a torn line, and    *)
(* what a command appends is a line.                                       *)
LEMMA Files ==
  ASSUME Base
  PROVE  /\ journal \in Seq(Lines) /\ trace \in Seq(Rows) /\ Torn \in Lines /\ Torn \in Rows
         /\ "events" \in cut => journal # <<>> /\ journal[Len(journal)] = Torn
         /\ "trace" \in cut => trace # <<>> /\ trace[Len(trace)] = Torn
         /\ \A c \in Command : /\ pc[c] # "idle" => record[c] \in Rows
                               /\ pc[c] = "event" => event[c] \in Lines
BY DEF Base, TypeOK, Stage, Cuts, Lines, Rows

(* What a line does to the journal, and to the trace.                      *)
LEMMA AfterBoth ==
  ASSUME Base
  PROVE  /\ \A line \in Lines : After(journal, "events", line) =
                IF "events" \in cut THEN journal ELSE Append(journal, line)
         /\ \A line \in Rows : After(trace, "trace", line) =
                IF "trace" \in cut THEN trace ELSE Append(trace, line)
<1>1. journal \in Seq(Lines) /\ ("events" \in cut => journal # <<>> /\ journal[Len(journal)] = Torn)
  BY Files
<1>2. trace \in Seq(Rows) /\ ("trace" \in cut => trace # <<>> /\ trace[Len(trace)] = Torn)
  BY Files
<1>3. ASSUME NEW line \in Lines
      PROVE  After(journal, "events", line) =
                IF "events" \in cut THEN journal ELSE Append(journal, line)
  BY <1>1, AfterLine
<1>4. ASSUME NEW line \in Rows
      PROVE  After(trace, "trace", line) = IF "trace" \in cut THEN trace ELSE Append(trace, line)
  BY <1>2, AfterLine
<1>5. QED BY <1>3, <1>4

(* The next number of a run (append_event_at) is above all it has, and all *)
(* numbers below it are there.                                             *)
LEMMA NextType ==
  ASSUME Constants, TypeOK, NEW run \in Run, Gapless
  PROVE  /\ NextSeq(run) \in Nat \ {0}
         /\ Seqs(run) # {} => \A m \in Seqs(run) : m < NextSeq(run)
         /\ 1 .. (NextSeq(run) - 1) \subseteq Seqs(run)
<1>1. \A i \in OfRun(run) : journal[i] \in Event
  BY DEF OfRun, TypeOK
<1>2. Seqs(run) \subseteq Nat \ {0} BY <1>1 DEF Seqs, Event
<1>3. CASE OfRun(run) = {}
  BY <1>3 DEF NextSeq, Seqs
<1>4. CASE OfRun(run) # {}
  <2>1. PICK n \in Seqs(run) : \A m \in Seqs(run) : m <= n
    BY <1>4 DEF Gapless, Seqs
  <2>2. PICK i \in OfRun(run) : journal[i].seq = n BY <2>1 DEF Seqs
  <2>3. \A j \in OfRun(run) : journal[j].seq <= journal[i].seq BY <2>1, <2>2 DEF Seqs
  <2> DEFINE k == CHOOSE x \in OfRun(run) : \A j \in OfRun(run) : journal[j].seq <= journal[x].seq
  <2>4. k \in OfRun(run) /\ \A j \in OfRun(run) : journal[j].seq <= journal[k].seq
    BY <2>2, <2>3
  <2>5. NextSeq(run) = 1 + journal[k].seq BY <1>4 DEF NextSeq
  <2> HIDE DEF k
  <2>6. journal[k].seq \in Seqs(run) /\ \A m \in Seqs(run) : m <= journal[k].seq
    BY <2>4 DEF Seqs
  <2>7. 1 .. journal[k].seq \subseteq Seqs(run) BY <2>6 DEF Gapless
  <2>8. QED BY <1>2, <2>5, <2>6, <2>7
<1>5. QED BY <1>3, <1>4

(* What a command appends goes to its pass, or to none.                    *)
LEMMA RunTyped ==
  ASSUME Constants, Base, NEW c \in Command, pc[c] = "read"
  PROVE  RunOf(record[c]) \in Run
<1>1. record[c] \in Record /\ by[c] \in Pass
      /\ (record[c].owner = IF record[c].kind = "fact" THEN None ELSE by[c])
  BY DEF Base, TypeOK, Stage
<1>2. ActiveRun \in Run
  <2> DEFINE last == CHOOSE i \in Bounds : \A j \in Bounds : j <= i
  <2>1. Bounds # {} => last \in Bounds BY DEF Base, Named
  <2>2. ActiveRun = IF TornIn(trace) \/ Bounds = {} \/ trace[last].kind = "pass-ended"
                    THEN "local" ELSE trace[last].owner
    BY DEF ActiveRun, TornIn, Bounds
  <2> HIDE DEF last
  <2>3. QED BY <2>1, <2>2 DEF Base, Named, Run
<1>3. QED BY <1>1, <1>2 DEF RunOf, Run, Constants

(* A command starts to append, whatever other commands are about and       *)
(* however many there were: the steps of either journal of MCRecords.      *)
Starts(p, c) ==
    /\ pc[c] = "idle"
    /\ \/ /\ life[p] = "new" /\ ~Appending(p)
          /\ OneAtATime => \A q \in Pass \ {p} : ~UnderWay(q)
          /\ Says(c, "pass-started", p, None)
       \/ life[p] = "open" /\ ~Ending(p) /\ \E x \in Payload : Says(c, "fact", None, x)
       \/ life[p] = "open" /\ ~Appending(p) /\ Says(c, "pass-ended", p, None)
    /\ by' = [by EXCEPT ![c] = p] /\ pc' = [pc EXCEPT ![c] = "read"]
    /\ UNCHANGED <<journal, trace, cut, life, event, faults>>

Proceeds ==
    \/ \E c \in Command :
          \/ ReadJournal(c) \/ AppendEvent(c) \/ AppendRow(c) \/ WriteStops(c)
          \/ \E p \in Pass : Starts(p, c)
    \/ \E p \in Pass : Die(p)

(* A command that starts to append finds the others idle.                  *)
Separate ==
    \A c \in Command :
        pc[c] = "idle" /\ pc'[c] # "idle" => \A d \in Command : pc[d] = "idle"

(* How a step changes the journal: not at all, or by an event, or by a     *)
(* torn line.                                                              *)
Adds(c, line) == pc[c] = "event" /\ "events" \notin cut /\ journal' = Append(journal, line)

(* A step that changes the journal is that of a command which appends its  *)
(* event, or a torn line, to a journal whose last line has its end.        *)
LEMMA JournalChange ==
  ASSUME Constants, WholeLines = TRUE, Base, [Proceeds]_vars
  PROVE  \/ UNCHANGED journal
         \/ \E c \in Command : Adds(c, event[c]) /\ AppendEvent(c)
         \/ \E c \in Command : Adds(c, Torn) /\ WriteStops(c)
<1>1. ASSUME NEW c \in Command, AppendEvent(c)
      PROVE  UNCHANGED journal \/ Adds(c, event[c])
  <2>1. pc[c] = "event" /\ event[c] \in Lines BY <1>1, Files DEF AppendEvent
  <2>2. journal' = IF "events" \in cut THEN journal ELSE Append(journal, event[c])
    BY <1>1, <2>1, Files, AfterBoth DEF AppendEvent
  <2>3. QED BY <1>1, <2>2 DEF AppendEvent, Adds
<1>2. ASSUME NEW c \in Command, WriteStops(c)
      PROVE  UNCHANGED journal \/ Adds(c, Torn)
  <2>1. CASE pc[c] = "event" /\ journal' = After(journal, "events", Torn)
    <3>1. journal' = IF "events" \in cut THEN journal ELSE Append(journal, Torn)
      BY <2>1, Files, AfterBoth
    <3>2. QED BY <2>1, <3>1 DEF Adds
  <2>2. QED BY <1>2, <2>1 DEF WriteStops, Parts
<1>3. QED BY <1>1, <1>2 DEF Proceeds, vars, ReadJournal, AppendRow, Starts, Die

(* How a step changes the trace.                                           *)
AddsRow(c, line) == pc[c] = "row" /\ "trace" \notin cut /\ trace' = Append(trace, line)

(* A step that changes the trace appends a record, or a torn line,         *)
(* likewise.                                                               *)
LEMMA TraceChange ==
  ASSUME Constants, WholeLines = TRUE, Base, [Proceeds]_vars
  PROVE  \/ UNCHANGED trace
         \/ \E c \in Command : AddsRow(c, record[c]) /\ AppendRow(c)
         \/ \E c \in Command : AddsRow(c, Torn) /\ WriteStops(c)
<1>1. ASSUME NEW c \in Command, AppendRow(c)
      PROVE  UNCHANGED trace \/ AddsRow(c, record[c])
  <2>1. pc[c] = "row" /\ record[c] \in Rows BY <1>1, Files DEF AppendRow
  <2>2. trace' = IF "trace" \in cut THEN trace ELSE Append(trace, record[c])
    BY <1>1, <2>1, Files, AfterBoth DEF AppendRow
  <2>3. QED BY <1>1, <2>2 DEF AppendRow, AddsRow
<1>2. ASSUME NEW c \in Command, WriteStops(c)
      PROVE  UNCHANGED trace \/ AddsRow(c, Torn)
  <2>1. CASE pc[c] = "row" /\ trace' = After(trace, "trace", Torn)
    <3>1. trace' = IF "trace" \in cut THEN trace ELSE Append(trace, Torn)
      BY <2>1, Files, AfterBoth
    <3>2. QED BY <2>1, <3>1 DEF AddsRow
  <2>2. QED BY <1>2, <2>1 DEF WriteStops, Parts
<1>3. QED BY <1>1, <1>2 DEF Proceeds, vars, ReadJournal, AppendEvent, Starts, Die

(* A line that is appended is the last, and the others stay.               *)
LEMMA Appended ==
  ASSUME NEW S, NEW file \in Seq(S), NEW line \in S, NEW longer, longer = Append(file, line)
  PROVE  /\ longer \in Seq(S) /\ Len(longer) = Len(file) + 1 /\ Len(file) \in Nat
         /\ longer # <<>> /\ longer[Len(longer)] = line
         /\ DOMAIN longer = DOMAIN file \cup {Len(longer)} /\ Len(longer) \notin DOMAIN file
         /\ DOMAIN file = 1 .. Len(file)
         /\ \A i \in DOMAIN file : longer[i] = file[i] /\ i < Len(longer)
OBVIOUS

(* Every step keeps the files sequences of lines, and torn where they are  *)
(* cut.                                                                    *)
LEMMA FilesStep ==
  ASSUME Constants, WholeLines = TRUE, Base, [Proceeds]_vars
  PROVE  journal' \in Seq(Lines) /\ trace' \in Seq(Rows) /\ Cuts'
<1>1. /\ journal' \in Seq(Lines)
      /\ "events" \in cut' => journal' # <<>> /\ journal'[Len(journal')] = Torn
  <2>1. CASE UNCHANGED journal
    <3>1. \/ cut' \subseteq cut \cup {"trace"}
          \/ journal' = After(journal, "events", Torn)
      BY DEF Proceeds, vars, AppendEvent, AppendRow, ReadJournal, WriteStops, Parts, Starts, Die
    <3>2. ASSUME journal' = After(journal, "events", Torn)
          PROVE  "events" \in cut
      <4>1. journal' = IF "events" \in cut THEN journal ELSE Append(journal, Torn)
        BY <3>2, Files, AfterBoth
      <4>2. Append(journal, Torn) # journal
        BY Files, Appended
      <4>3. QED BY <2>1, <4>1, <4>2
    <3>3. QED BY <2>1, <3>1, <3>2, Files
  <2>2. ASSUME NEW c \in Command, Adds(c, event[c]), AppendEvent(c) PROVE <1>1!1 /\ <1>1!2
    <3>1. event[c] \in Lines BY <2>2, Files DEF Adds
    <3>2. journal' \in Seq(Lines)
      BY <2>2, <3>1, Files, Appended DEF Adds
    <3>3. "events" \notin cut' BY <2>2 DEF AppendEvent
    <3>4. QED BY <3>2, <3>3
  <2>3. ASSUME NEW c \in Command, Adds(c, Torn) PROVE <1>1!1 /\ <1>1!2
    BY <2>3, Files, Appended DEF Adds
  <2>4. QED BY <2>1, <2>2, <2>3, JournalChange
<1>2. trace' \in Seq(Rows) /\ ("trace" \in cut' => trace' # <<>> /\ trace'[Len(trace')] = Torn)
  <2>1. CASE UNCHANGED trace
    <3>1. \/ cut' \subseteq cut \cup {"events"}
          \/ trace' = After(trace, "trace", Torn)
      BY DEF Proceeds, vars, AppendEvent, AppendRow, ReadJournal, WriteStops, Parts, Starts, Die
    <3>2. ASSUME trace' = After(trace, "trace", Torn)
          PROVE  "trace" \in cut
      <4>1. trace' = IF "trace" \in cut THEN trace ELSE Append(trace, Torn)
        BY <3>2, Files, AfterBoth
      <4>2. Append(trace, Torn) # trace
        BY Files, Appended
      <4>3. QED BY <2>1, <4>1, <4>2
    <3>3. QED BY <2>1, <3>1, <3>2, Files
  <2>2. ASSUME NEW c \in Command, AddsRow(c, record[c]), AppendRow(c) PROVE <1>2!1 /\ <1>2!2
    <3>1. record[c] \in Rows BY <2>2, Files DEF AddsRow
    <3>2. trace' \in Seq(Rows)
      BY <2>2, <3>1, Files, Appended DEF AddsRow
    <3>3. "trace" \notin cut' BY <2>2 DEF AppendRow
    <3>4. QED BY <3>2, <3>3
  <2>3. ASSUME NEW c \in Command, AddsRow(c, Torn) PROVE <1>2!1 /\ <1>2!2
    BY <2>3, Files, Appended DEF AddsRow
  <2>4. QED BY <2>1, <2>2, <2>3, TraceChange
<1>3. QED BY <1>1, <1>2 DEF Cuts

(* Every step keeps the types, and what commands are about.                *)
LEMMA BaseStep ==
  ASSUME Constants, WholeLines = TRUE, Base, Gapless, [Proceeds]_vars
  PROVE  TypeOK' /\ Stage'
<1>1. journal' \in Seq(Event \cup {Torn}) /\ trace' \in Seq(Record \cup {Torn})
  BY FilesStep DEF Lines, Rows
<1>2. ASSUME NEW c \in Command, NEW p \in Pass, Starts(p, c) PROVE TypeOK' /\ Stage'
  <2>1. PICK r \in Record :
          /\ record' = [record EXCEPT ![c] = r]
          /\ r.owner = IF r.kind = "fact" THEN None ELSE p
    <3> DEFINE said(kind, owner, x) == [kind |-> kind, owner |-> owner, payload |-> x]
    <3>1. /\ said("pass-started", p, None) \in Record /\ said("pass-ended", p, None) \in Record
          /\ \A x \in Payload : said("fact", None, x) \in Record
      BY DEF Record, Kind
    <3>2. \/ record' = [record EXCEPT ![c] = said("pass-started", p, None)]
          \/ record' = [record EXCEPT ![c] = said("pass-ended", p, None)]
          \/ \E x \in Payload : record' = [record EXCEPT ![c] = said("fact", None, x)]
      BY <1>2 DEF Starts, Says
    <3>3. QED BY <3>1, <3>2
  <2>2. QED BY <1>1, <1>2, <2>1 DEF Starts, Base, TypeOK, Stage, Constants
<1>3. ASSUME NEW c \in Command, ReadJournal(c) PROVE TypeOK' /\ Stage'
  <2>1. RunOf(record[c]) \in Run /\ record[c] \in Record /\ by[c] \in Pass
    BY <1>3, RunTyped DEF ReadJournal, Base, TypeOK, Stage
  <2>2. NextSeq(RunOf(record[c])) \in Nat \ {0} BY <2>1, NextType DEF Base
  <2>3. [run |-> RunOf(record[c]), of |-> record[c], by |-> by[c],
         seq |-> NextSeq(RunOf(record[c]))] \in Event
    BY <2>1, <2>2 DEF Event
  <2>4. QED BY SMTT(30), <1>1, <1>3, <2>1, <2>3
      DEF ReadJournal, Finish, Base, TypeOK, Stage, Constants
<1>4. ASSUME NEW c \in Command, AppendEvent(c) PROVE TypeOK' /\ Stage'
  BY <1>1, <1>4 DEF AppendEvent, Base, TypeOK, Stage
<1>5. ASSUME NEW c \in Command, AppendRow(c) PROVE TypeOK' /\ Stage'
  <2>1. Later(c) \in {"new", "open", "closed"} /\ by[c] \in Pass
    BY <1>5 DEF AppendRow, Later, Base, TypeOK, Stage
  <2>2. QED BY <1>1, <1>5, <2>1 DEF AppendRow, Finish, Base, TypeOK, Stage
<1>6. ASSUME NEW c \in Command, WriteStops(c) PROVE TypeOK' /\ Stage'
  BY <1>1, <1>6 DEF WriteStops, Finish, Base, TypeOK, Stage
<1>7. ASSUME NEW p \in Pass, Die(p) PROVE TypeOK' /\ Stage'
  BY <1>1, <1>7 DEF Die, Base, TypeOK, Stage
<1>8. CASE UNCHANGED vars
  BY <1>8 DEF vars, Base, TypeOK, Stage
<1>9. QED BY <1>2, <1>3, <1>4, <1>5, <1>6, <1>7, <1>8 DEF Proceeds

(* The steps of one command, in the places where it is.                    *)
LEMMA Where ==
  ASSUME Base, NEW c \in Command
  PROVE  /\ ReadJournal(c) \/ AppendEvent(c) \/ AppendRow(c) \/ WriteStops(c) => pc[c] # "idle"
         /\ pc[c] # "idle" => by[c] \in Pass /\ record[c] \in Record
         /\ pc[c] # "idle" /\ record[c].kind # "fact" => record[c].owner = by[c]
         /\ pc[c] # "idle" => life[by[c]] \in {"new", "open", "closed"}
BY DEF Base, TypeOK, Stage, ReadJournal, AppendEvent, AppendRow, WriteStops

(* The trace has one line more.                                            *)
Longer(line) ==
    /\ DOMAIN trace' = DOMAIN trace \cup {Len(trace')}
    /\ Len(trace') \notin DOMAIN trace /\ trace'[Len(trace')] = line
    /\ \A i \in DOMAIN trace : trace'[i] = trace[i] /\ i < Len(trace')

(* A step adds to the trace, if anything, one line, and keeps the others.  *)
LEMMA TraceGrows ==
  ASSUME Constants, WholeLines = TRUE, Base, [Proceeds]_vars
  PROVE  /\ TornIn(trace) => TornIn(trace')
         /\ Len(trace) \in Nat /\ DOMAIN trace = 1 .. Len(trace)
         /\ \/ UNCHANGED trace
            \/ \E c \in Command, line \in Rows :
                  /\ (line = record[c] /\ AppendRow(c)) \/ (line = Torn /\ WriteStops(c))
                  /\ Longer(line)
<1>1. trace \in Seq(Rows) BY Files
<1>2. ASSUME NEW c \in Command, AddsRow(c, record[c]), AppendRow(c)
      PROVE  \E line \in Rows : line = record[c] /\ Longer(line)
  <2>1. record[c] \in Rows BY <1>2, Files DEF AddsRow
  <2>2. QED BY <1>1, <1>2, <2>1, Appended DEF AddsRow, Longer
<1>3. ASSUME NEW c \in Command, AddsRow(c, Torn), WriteStops(c)
      PROVE  Longer(Torn)
  BY <1>1, <1>3, Files, Appended DEF AddsRow, Longer
<1>4. \/ UNCHANGED trace
      \/ \E c \in Command, line \in Rows :
            ((line = record[c] /\ AppendRow(c)) \/ (line = Torn /\ WriteStops(c))) /\ Longer(line)
  BY <1>1, <1>2, <1>3, Files, TraceChange
<1>5. TornIn(trace) => TornIn(trace')
  <2>1. CASE UNCHANGED trace BY <2>1 DEF TornIn
  <2>2. ASSUME NEW line, Longer(line) PROVE TornIn(trace) => TornIn(trace')
    BY <2>2 DEF TornIn, Longer
  <2>3. QED BY <1>4, <2>1, <2>2
<1>6. Len(trace) \in Nat /\ DOMAIN trace = 1 .. Len(trace) BY <1>1
<1>7. QED BY <1>4, <1>5, <1>6

(* Every step keeps the names of starts and ends, and a last of them.      *)
LEMMA NamedStep ==
  ASSUME Constants, WholeLines = TRUE, Base, [Proceeds]_vars
  PROVE  Named'
<1>1. CASE UNCHANGED trace
  BY <1>1 DEF Base, Named, Bounds
<1>2. ASSUME NEW c \in Command, NEW line \in Rows,
             line = Torn \/ (line = record[c] /\ AppendRow(c)),
             Longer(line)
      PROVE  Named'
  <2>1. CASE line = Torn \/ line.kind = "fact"
    <3>1. Bounds' = Bounds BY <1>2, <2>1 DEF Bounds, Longer
    <3>2. \A i \in Bounds : trace'[i] = trace[i] BY <1>2 DEF Bounds, Longer
    <3>3. QED BY <3>1, <3>2 DEF Base, Named
  <2>2. CASE line # Torn /\ line.kind # "fact"
    <3>1. Bounds' = Bounds \cup {Len(trace')} BY <1>2, <2>2 DEF Bounds, Longer
    <3>2. line.owner \in Pass BY <1>2, <2>2, Where
    <3>3. \A i \in Bounds : trace'[i] = trace[i] /\ i <= Len(trace')
      <4>1. Len(trace') \in Nat /\ \A i \in DOMAIN trace : i \in Nat
        BY TraceGrows, FilesStep
      <4>2. QED BY <1>2, <4>1 DEF Bounds, Longer
    <3>4. Len(trace') <= Len(trace') BY FilesStep
    <3>5. \A i \in Bounds' : trace'[i].owner \in Pass
      BY <1>2, <3>1, <3>2, <3>3 DEF Base, Named, Longer
    <3>6. Len(trace') \in Bounds' /\ \A j \in Bounds' : j <= Len(trace')
      BY <3>1, <3>3, <3>4
    <3>7. QED BY <3>5, <3>6 DEF Named
  <2>3. QED BY <2>1, <2>2
<1>3. QED BY <1>1, <1>2, TraceGrows
--------------------------------------------------------------------------------
(* While a start or an end of a pass is appended nothing else is for it,   *)
(* and its life changes with that line.                                    *)
LEMMA LivesStep ==
  ASSUME Constants, Base, Lives, [Proceeds]_vars
  PROVE  Lives'
<1>1. ASSUME NEW c \in Command, NEW p \in Pass, Starts(p, c) PROVE Lives'
  <2>1. by' = [by EXCEPT ![c] = p] /\ pc' = [pc EXCEPT ![c] = "read"] /\ UNCHANGED life
        /\ pc[c] = "idle"
    BY <1>1 DEF Starts
  <2>2. ASSUME NEW d \in Command, d # c, pc'[d] # "idle"
        PROVE  /\ pc[d] # "idle" /\ record'[d] = record[d] /\ by'[d] = by[d]
               /\ by[d] = p => record[d].kind = "fact"
    <3>1. pc[d] # "idle" /\ by'[d] = by[d] BY <2>1, <2>2 DEF Base, TypeOK
    <3>2. record'[d] = record[d] BY <1>1, <2>2 DEF Starts, Says, Base, TypeOK
    <3>3. by[d] = p => record[d].kind = "fact"
      BY <1>1, <3>1, Where DEF Starts, Lives, Appending, Ending, Record, Kind
    <3>4. QED BY <3>1, <3>2, <3>3
  <2>3. record'[c].kind # "fact" => \A d \in Command : by[d] # p
    BY <1>1 DEF Starts, Says, Appending, Base, TypeOK
  <2>4. life[p] = IF record'[c].kind = "pass-started" THEN "new" ELSE "open"
    BY <1>1 DEF Starts, Says, Base, TypeOK
  <2>5. by'[c] = p /\ pc'[c] = "read" BY <2>1 DEF Base, TypeOK
  <2>6. QED BY <2>1, <2>2, <2>3, <2>4, <2>5 DEF Lives, Base, TypeOK
<1>2. ASSUME NEW c \in Command, ReadJournal(c) \/ AppendEvent(c) \/ WriteStops(c) PROVE Lives'
  BY <1>2 DEF ReadJournal, AppendEvent, WriteStops, Finish, Lives, Base, TypeOK, Stage
<1>3. ASSUME NEW c \in Command, AppendRow(c) PROVE Lives'
  <2>1. pc[c] = "row" /\ by[c] \in Pass BY <1>3, Where DEF AppendRow
  <2>2. \A d \in Command : d # c /\ by[d] = by[c] => Later(c) = life[by[c]]
    BY <2>1, Where DEF Lives, Later, Record, Kind
  <2>3. \A d \in Command : pc'[d] # "idle" => d # c /\ pc[d] # "idle" /\ life'[by[d]] = life[by[d]]
    BY <1>3, <2>1, <2>2, Where DEF AppendRow, Finish, Base, TypeOK
  <2>4. \A d \in Command : d # c => by'[d] = by[d] /\ record'[d] = record[d]
    BY <1>3 DEF AppendRow, Finish, Base, TypeOK
  <2>5. by'[c] = None BY <1>3 DEF AppendRow, Finish, Base, TypeOK
  <2>6. QED BY <2>3, <2>4, <2>5, Where DEF Lives, Constants
<1>4. ASSUME NEW p \in Pass, Die(p) PROVE Lives'
  BY <1>4, Where DEF Die, Appending, Lives, Base, TypeOK
<1>5. CASE UNCHANGED vars
  BY <1>5 DEF vars, Lives
<1>6. QED BY <1>1, <1>2, <1>3, <1>4, <1>5 DEF Proceeds

(* One pass is under way, when a pass begins only then.                    *)
LEMMA OnePassStep ==
  ASSUME Constants, OneAtATime = TRUE, Base, OnePass, [Proceeds]_vars
  PROVE  OnePass'
<1>1. ASSUME NEW c \in Command, NEW p \in Pass, Starts(p, c) PROVE OnePass'
  <2>1. \A q \in Pass : UnderWay(q)' => q = p \/ UnderWay(q)
    BY <1>1 DEF Starts, UnderWay, Appending, Base, TypeOK
  <2>2. UnderWay(p) \/ \A q \in Pass \ {p} : ~UnderWay(q)
    BY <1>1 DEF Starts, UnderWay
  <2>3. QED BY <2>1, <2>2 DEF OnePass
<1>2. ASSUME \A q \in Pass : UnderWay(q)' => UnderWay(q) PROVE OnePass'
  BY <1>2 DEF OnePass
<1>3. ASSUME NEW c \in Command,
             ReadJournal(c) \/ AppendEvent(c) \/ AppendRow(c) \/ WriteStops(c)
      PROVE  \A q \in Pass : UnderWay(q)' => UnderWay(q)
  <2>1. \A q \in Pass : Appending(q)' => Appending(q)
    BY <1>3 DEF ReadJournal, AppendEvent, AppendRow, WriteStops, Finish, Appending, Base, TypeOK,
                Constants
  <2>2. \A q \in Pass : life'[q] = life[q] \/ Appending(q)
    BY <1>3, Where DEF ReadJournal, AppendEvent, AppendRow, WriteStops, Appending, Base, TypeOK
  <2>3. QED BY <2>1, <2>2 DEF UnderWay
<1>4. ASSUME NEW p \in Pass, Die(p) PROVE \A q \in Pass : UnderWay(q)' => UnderWay(q)
  BY <1>4 DEF Die, UnderWay, Appending, Base, TypeOK
<1>5. CASE UNCHANGED vars
  BY <1>5 DEF vars, OnePass, UnderWay, Appending
<1>6. QED BY <1>1, <1>2, <1>3, <1>4, <1>5 DEF Proceeds

(* The open pass began last, by the trace.                                 *)
LEMMA MarkedStep ==
  ASSUME Constants, WholeLines = TRUE, Base, Lives, OnePass, Marked, [Proceeds]_vars
  PROVE  Marked'
<1> SUFFICES ASSUME ~TornIn(trace'), NEW p \in Pass, life'[p] = "open" PROVE Marks(p)'
  BY DEF Marked
<1>1. ~TornIn(trace) BY TraceGrows
<1>2. "trace" \notin cut
  <2>1. "trace" \in cut => trace # <<>> /\ trace[Len(trace)] = Torn /\ trace \in Seq(Rows) BY Files
  <2>2. QED BY <1>1, <2>1 DEF TornIn
<1>3. ASSUME UNCHANGED trace, life[p] = "open" PROVE Marks(p)'
  BY <1>1, <1>3 DEF Marked, Marks
<1>4. ASSUME NEW c \in Command, AppendRow(c) PROVE Marks(p)'
  <2>1. pc[c] = "row" /\ by[c] \in Pass /\ record[c] \in Record /\ UnderWay(by[c])
    BY <1>4, Where DEF AppendRow, UnderWay, Appending
  <2>2. trace' = Append(trace, record[c])
    BY <1>2, <1>4, <2>1, AfterBoth, Files DEF AppendRow
  <2>3. Longer(record[c])
    BY <2>1, <2>2, Files, Appended DEF Longer
  <2>4. life' = [life EXCEPT ![by[c]] = Later(c)] BY <1>4 DEF AppendRow
  <2>5. CASE record[c].kind = "fact"
    <3>1. life[p] = "open" BY <2>1, <2>4, <2>5 DEF Later, Base, TypeOK
    <3>2. PICK m \in DOMAIN trace :
             /\ trace[m].kind = "pass-started" /\ trace[m].owner = p
             /\ \A j \in DOMAIN trace : j > m => trace[j].kind = "fact"
      BY <1>1, <3>1 DEF Marked, Marks
    <3>3. m \in DOMAIN trace' /\ trace'[m] = trace[m] BY <2>3 DEF Longer
    <3>4. \A j \in DOMAIN trace' : j > m => trace'[j].kind = "fact" BY <2>3, <2>5, <3>2 DEF Longer
    <3>5. QED BY <3>2, <3>3, <3>4 DEF Marks
  <2>6. CASE record[c].kind # "fact"
    <3>1. p = by[c]
      <4>1. p = by[c] \/ life[p] = "open" BY <2>1, <2>4 DEF Base, TypeOK
      <4>2. QED BY <2>1, <4>1 DEF OnePass, UnderWay
    <3>2. record[c].kind = "pass-started"
      BY <2>1, <2>4, <2>6, <3>1 DEF Later, Record, Kind, Base, TypeOK
    <3>3. record[c].owner = p BY <2>1, <2>6, <3>1, Where
    <3>4. Len(trace') \in DOMAIN trace' /\ trace'[Len(trace')] = record[c] BY <2>3 DEF Longer
    <3>5. \A j \in DOMAIN trace' : ~(j > Len(trace'))
      BY FilesStep
    <3>6. QED BY <3>2, <3>3, <3>4, <3>5 DEF Marks
  <2>7. QED BY <2>5, <2>6
<1>5. ASSUME ~\E c \in Command : AppendRow(c) PROVE life[p] = "open"
  BY <1>5 DEF Proceeds, vars, Starts, ReadJournal, AppendEvent, WriteStops, Die, Base, TypeOK
<1>6. ASSUME ~\E c \in Command : AppendRow(c) PROVE UNCHANGED trace
  <2>1. ASSUME NEW c \in Command, NEW line \in Rows, line = Torn, Longer(line) PROVE FALSE
    BY <2>1 DEF Longer, TornIn
  <2>2. QED BY <1>6, <2>1, TraceGrows
<1>7. QED BY <1>3, <1>4, <1>5, <1>6

(* A fact of a pass finds it in the trace, or a torn line.                 *)
LEMMA RunIs ==
  ASSUME Constants, Base, Lives, Marked, NEW c \in Command, pc[c] = "read"
  PROVE  RunOf(record[c]) = by[c] \/ (RunOf(record[c]) = "local" /\ TornIn(trace))
<1>1. record[c] \in Record /\ by[c] \in Pass
      /\ (record[c].owner = IF record[c].kind = "fact" THEN None ELSE by[c])
  BY DEF Base, TypeOK, Stage
<1>2. CASE record[c].kind # "fact"
  BY <1>1, <1>2 DEF RunOf, Constants
<1>3. CASE record[c].kind = "fact"
  <2> DEFINE last == CHOOSE i \in Bounds : \A j \in Bounds : j <= i
  <2>1. RunOf(record[c]) = ActiveRun BY <1>1, <1>3 DEF RunOf
  <2>2. ActiveRun = IF TornIn(trace) \/ Bounds = {} \/ trace[last].kind = "pass-ended"
                    THEN "local" ELSE trace[last].owner
    BY DEF ActiveRun, TornIn, Bounds
  <2>3. CASE TornIn(trace) BY <2>1, <2>2, <2>3
  <2>4. CASE ~TornIn(trace)
    <3>1. life[by[c]] = "open" BY <1>3 DEF Lives
    <3>2. PICK m \in DOMAIN trace :
             /\ trace[m].kind = "pass-started" /\ trace[m].owner = by[c]
             /\ \A j \in DOMAIN trace : j > m => trace[j].kind = "fact"
      BY <1>1, <2>4, <3>1 DEF Marked, Marks
    <3>3. m \in Bounds BY <2>4, <3>2 DEF Bounds, TornIn
    <3>4. last \in Bounds /\ \A j \in Bounds : j <= last
      <4>1. \E i \in Bounds : \A j \in Bounds : j <= i BY <3>3 DEF Base, Named
      <4>2. QED BY <4>1
    <3> HIDE DEF last
    <3>5. trace \in Seq(Rows) BY Files
    <3>6. last = m
      <4>1. last \in DOMAIN trace /\ trace[last].kind # "fact" BY <3>4 DEF Bounds
      <4>2. ~(last > m) BY <3>2, <4>1
      <4>3. m <= last BY <3>3, <3>4
      <4>4. QED BY <3>2, <3>5, <4>1, <4>2, <4>3
    <3>7. QED BY <2>1, <2>2, <2>4, <3>2, <3>3, <3>6
  <2>5. QED BY <2>3, <2>4
<1>4. QED BY <1>2, <1>3

(* What a journal's line more is.                                          *)
Further(line) ==
    /\ DOMAIN journal' = DOMAIN journal \cup {Len(journal')}
    /\ Len(journal') \notin DOMAIN journal /\ journal'[Len(journal')] = line
    /\ \A i \in DOMAIN journal : journal'[i] = journal[i] /\ i < Len(journal')

(* A step adds to the journal, if anything, one line, and keeps the others. *)
LEMMA JournalGrows ==
  ASSUME Constants, WholeLines = TRUE, Base, [Proceeds]_vars
  PROVE  \/ UNCHANGED journal
         \/ \E c \in Command, line \in Lines :
               /\ pc[c] = "event" /\ Further(line)
               /\ (line = event[c] /\ AppendEvent(c)) \/ (line = Torn /\ WriteStops(c))
<1>1. journal \in Seq(Lines) BY Files
<1>2. ASSUME NEW c \in Command, Adds(c, event[c]), AppendEvent(c)
      PROVE  event[c] \in Lines /\ pc[c] = "event" /\ Further(event[c])
  <2>1. event[c] \in Lines BY <1>2, Files DEF Adds
  <2>2. QED BY <1>1, <1>2, <2>1, Appended DEF Adds, Further
<1>3. ASSUME NEW c \in Command, Adds(c, Torn), WriteStops(c)
      PROVE  Torn \in Lines /\ pc[c] = "event" /\ Further(Torn)
  BY <1>1, <1>3, Files, Appended DEF Adds, Further
<1>4. QED BY <1>2, <1>3, JournalChange

(* An event that is there, or is to be, is its pass's.                     *)
LEMMA OwnedStep ==
  ASSUME Constants, WholeLines = TRUE, Base, Lives, Marked, Owned, [Proceeds]_vars
  PROVE  Owned'
<1>1. \A e : Own(e) => (e.run = e.by \/ (e.run = "local" /\ TornIn(trace')))
  BY TraceGrows DEF Own
<1>2. ASSUME NEW i \in DOMAIN journal', journal'[i] # Torn PROVE Own(journal[i])'
  <2>1. Own(journal'[i])
    BY <1>2, JournalGrows DEF Further, Owned
  <2>2. QED BY <1>1, <2>1 DEF Own
<1>3. ASSUME NEW c \in Command, pc'[c] = "event" PROVE Own(event[c])'
  <2>1. CASE ReadJournal(c)
    <3>1. pc[c] = "read" BY <2>1 DEF ReadJournal
    <3>2. event'[c].run = RunOf(record[c]) /\ event'[c].by = by[c]
      BY <1>3, <2>1 DEF ReadJournal, Finish, Base, TypeOK
    <3>3. TornIn(trace) => TornIn(trace') BY TraceGrows
    <3>4. QED BY <3>1, <3>2, <3>3, RunIs DEF Own
  <2>2. CASE ~ReadJournal(c)
    <3>1. pc[c] = "event" /\ event'[c] = event[c]
      BY <1>3, <2>2 DEF Proceeds, vars, ReadJournal, Starts, Finish, AppendEvent, AppendRow,
                        WriteStops, Die, Base, TypeOK
    <3>2. Own(event[c]) BY <3>1 DEF Owned
    <3>3. QED BY <1>1, <3>1, <3>2 DEF Own
  <2>3. QED BY <2>1, <2>2
<1>4. QED BY <1>2, <1>3 DEF Owned
--------------------------------------------------------------------------------
(* A line more adds its number, to its own run.                            *)
LEMMA SeqsAfter ==
  ASSUME Base, NEW line \in Lines, Further(line), NEW run
  PROVE  /\ OfRun(run)' = OfRun(run) \cup
                IF line # Torn /\ line.run = run THEN {Len(journal')} ELSE {}
         /\ Seqs(run)' = Seqs(run) \cup IF line # Torn /\ line.run = run THEN {line.seq} ELSE {}
<1>1. OfRun(run)' = OfRun(run) \cup IF line # Torn /\ line.run = run THEN {Len(journal')} ELSE {}
  BY DEF OfRun, Further
<1>2. \A i \in OfRun(run) : journal'[i] = journal[i] BY DEF OfRun, Further
<1>3. journal'[Len(journal')] = line BY DEF Further
<1>4. Seqs(run)' = Seqs(run) \cup IF line # Torn /\ line.run = run THEN {line.seq} ELSE {}
  BY <1>1, <1>2, <1>3 DEF Seqs
<1>5. QED BY <1>1, <1>4

(* The numbers of a run have no gap, nor has the next that a command has.  *)
LEMMA GaplessStep ==
  ASSUME Constants, WholeLines = TRUE, Base, Gapless, Next1, [Proceeds]_vars
  PROVE  Gapless'
<1>1. CASE UNCHANGED journal
  BY <1>1 DEF Gapless, Seqs, OfRun
<1>2. ASSUME NEW c \in Command, NEW line \in Lines, pc[c] = "event", Further(line),
             line = event[c] \/ line = Torn
      PROVE  Gapless'
  <2> SUFFICES ASSUME NEW run \in Run
               PROVE  /\ \A n \in Seqs(run)' : 1 .. n \subseteq Seqs(run)'
                      /\ Seqs(run)' # {} => \E n \in Seqs(run)' : \A m \in Seqs(run)' : m <= n
    BY DEF Gapless
  <2>1. CASE line = Torn \/ line.run # run
    <3>1. Seqs(run)' = Seqs(run) \cup IF line # Torn /\ line.run = run THEN {line.seq} ELSE {}
      BY <1>2, SeqsAfter
    <3>2. Seqs(run)' = Seqs(run) BY <2>1, <3>1
    <3>3. QED BY <3>2 DEF Gapless
  <2>2. CASE line # Torn /\ line.run = run
    <3>1. Seqs(run)' = Seqs(run) \cup {line.seq}
      <4>1. Seqs(run)' = Seqs(run) \cup IF line # Torn /\ line.run = run THEN {line.seq} ELSE {}
        BY <1>2, SeqsAfter
      <4>2. QED BY <2>2, <4>1
    <3>2. line.seq \in Nat \ {0} /\ 1 .. (line.seq - 1) \subseteq Seqs(run)
      BY <1>2, <2>2 DEF Next1, Lines, Event
    <3>3. \A n \in Seqs(run) : n \in Nat
      BY DEF Seqs, OfRun, Base, TypeOK, Event
    <3>4. 1 .. line.seq \subseteq Seqs(run) \cup {line.seq} BY <3>2
    <3>5. \A n \in Seqs(run)' : 1 .. n \subseteq Seqs(run)' BY <3>1, <3>4 DEF Gapless
    <3>6. \E n \in Seqs(run)' : \A m \in Seqs(run)' : m <= n
      <4>1. CASE Seqs(run) = {} BY <3>1, <3>2, <4>1
      <4>2. CASE Seqs(run) # {}
        <5>1. PICK n \in Seqs(run) : \A m \in Seqs(run) : m <= n BY <4>2 DEF Gapless
        <5>2. n <= line.seq \/ line.seq <= n BY <3>2, <3>3
        <5>3. CASE line.seq <= n BY <3>1, <5>1, <5>3
        <5>4. CASE n <= line.seq
          <6>1. \A m \in Seqs(run) : m <= line.seq BY <3>2, <3>3, <5>1, <5>4
          <6>2. QED BY <3>1, <3>2, <6>1
        <5>5. QED BY <5>2, <5>3, <5>4
      <4>3. QED BY <4>1, <4>2
    <3>7. QED BY <3>5, <3>6
  <2>3. QED BY <2>1, <2>2
<1>3. QED BY <1>1, <1>2, JournalGrows

(* What a command's event is after a step.                                 *)
LEMMA EventAfter ==
  ASSUME Constants, Base, [Proceeds]_vars, NEW c \in Command, pc'[c] = "event"
  PROVE  \/ pc[c] = "event" /\ event'[c] = event[c]
         \/ /\ ReadJournal(c) /\ Readable /\ RunOf(record[c]) \in Run
            /\ ~\E i \in OfRun(RunOf(record[c])) : journal[i].of = record[c]
            /\ event'[c].run = RunOf(record[c]) /\ event'[c].seq = NextSeq(RunOf(record[c]))
            /\ event'[c].of = record[c]
<1>1. CASE ReadJournal(c)
  <2>1. RunOf(record[c]) \in Run BY <1>1, RunTyped DEF ReadJournal
  <2>2. QED BY <1>1, <2>1 DEF ReadJournal, Finish, Base, TypeOK
<1>2. CASE ~ReadJournal(c)
  BY <1>2 DEF Proceeds, vars, ReadJournal, Starts, Finish, AppendEvent, AppendRow, WriteStops, Die,
              Base, TypeOK
<1>3. QED BY <1>1, <1>2

(* What a command numbers next stays at most one above a number there is.  *)
LEMMA Next1Step ==
  ASSUME Constants, WholeLines = TRUE, Base, Gapless, Next1, [Proceeds]_vars
  PROVE  Next1'
<1>1. \A run : Seqs(run) \subseteq Seqs(run)'
  <2>1. CASE UNCHANGED journal BY <2>1 DEF Seqs, OfRun
  <2>2. CASE \E line \in Lines : Further(line) BY <2>2, SeqsAfter
  <2>3. QED BY <2>1, <2>2, JournalGrows
<1>2. ASSUME NEW c \in Command, pc'[c] = "event"
      PROVE  1 .. (event'[c].seq - 1) \subseteq Seqs(event'[c].run)
  BY <1>2, EventAfter, NextType DEF Next1, Base
<1>3. ASSUME NEW c \in Command, pc'[c] = "event"
      PROVE  (1 .. (event[c].seq - 1) \subseteq Seqs(event[c].run))'
  <2>1. PICK run : run = event'[c].run OBVIOUS
  <2>2. Seqs(run) \subseteq Seqs(run)' BY <1>1
  <2>3. 1 .. (event'[c].seq - 1) \subseteq Seqs(run)' BY <1>2, <1>3, <2>1, <2>2
  <2>4. QED BY <2>1, <2>3 DEF Seqs, OfRun
<1>4. QED BY <1>3 DEF Next1
--------------------------------------------------------------------------------
(* When one command appends at a time, what it has read is still so when   *)
(* it appends, and only the last line of the journal is torn.              *)
LEMMA AloneStep ==
  ASSUME Constants, WholeLines = TRUE, Separate, Base, Gapless, Alone, [Proceeds]_vars
  PROVE  Alone'
<1>1. \A c, d \in Command : pc'[c] # "idle" /\ pc'[d] # "idle" => c = d
  <2>1. ASSUME NEW c \in Command, NEW p \in Pass, Starts(p, c)
        PROVE  \A d \in Command : pc'[d] # "idle" => d = c
    BY <2>1 DEF Separate, Starts, Base, TypeOK
  <2>2. CASE ~\E c \in Command, p \in Pass : Starts(p, c)
    <3>1. \A c \in Command : pc'[c] # "idle" => pc[c] # "idle"
      BY <2>2 DEF Proceeds, vars, ReadJournal, Finish, AppendEvent, AppendRow, WriteStops, Die,
                  Base, TypeOK
    <3>2. QED BY <3>1 DEF Alone
  <2>3. QED BY <2>1, <2>2
<1>2. ASSUME NEW c \in Command, pc'[c] = "event"
      PROVE  /\ Readable' /\ UNCHANGED journal
             /\ \A i \in OfRun(event'[c].run) :
                   journal[i].seq < event'[c].seq /\ journal[i].of # event'[c].of
  <2>1. UNCHANGED journal
    <3>1. ASSUME NEW d \in Command, pc[d] = "event", AppendEvent(d) \/ WriteStops(d) PROVE FALSE
      <4>1. d # c BY <1>2, <3>1 DEF AppendEvent, WriteStops, Finish, Base, TypeOK
      <4>2. pc'[c] = pc[c] BY <3>1, <4>1 DEF AppendEvent, WriteStops, Finish, Base, TypeOK
      <4>3. QED BY <1>2, <3>1, <4>1, <4>2 DEF Alone
    <3>2. QED BY <3>1, JournalGrows
  <2>2. CASE pc[c] = "event" /\ event'[c] = event[c]
    BY <2>1, <2>2 DEF Alone, Readable
  <2>3. CASE ReadJournal(c) /\ Readable /\ RunOf(record[c]) \in Run
            /\ (~\E i \in OfRun(RunOf(record[c])) : journal[i].of = record[c])
            /\ event'[c].run = RunOf(record[c]) /\ event'[c].seq = NextSeq(RunOf(record[c]))
            /\ event'[c].of = record[c]
    <3>1. \A m \in Seqs(RunOf(record[c])) : m < NextSeq(RunOf(record[c]))
      BY <2>3, NextType DEF Base
    <3>2. QED BY <2>1, <2>3, <3>1 DEF Seqs, Readable
  <2>4. QED BY <1>2, <2>2, <2>3, EventAfter
<1>3. ASSUME NEW c \in Command, pc'[c] = "event"
      PROVE  /\ Readable'
             /\ (\A i \in OfRun(event[c].run) :
                    journal[i].seq < event[c].seq /\ journal[i].of # event[c].of)'
  BY <1>2, <1>3 DEF OfRun
<1>4. ASSUME NEW c \in Command, pc'[c] = "row"
      PROVE  \E j \in DOMAIN journal' : journal'[j] # Torn /\ journal'[j].of = record'[c]
  <2>1. CASE pc[c] = "row"
    <3>1. record'[c] = record[c]
      BY <1>4, <2>1 DEF Proceeds, vars, ReadJournal, Starts, Says, Finish, AppendEvent, AppendRow,
                        WriteStops, Die, Base, TypeOK
    <3>2. PICK j \in DOMAIN journal : journal[j] # Torn /\ journal[j].of = record[c]
      BY <2>1 DEF Alone
    <3>3. j \in DOMAIN journal' /\ journal'[j] = journal[j] BY JournalGrows DEF Further
    <3>4. QED BY <3>1, <3>2, <3>3
  <2>2. CASE AppendEvent(c)
    <3>1. pc[c] = "event" /\ event[c] \in Event /\ event[c].of = record[c] /\ record'[c] = record[c]
      BY <2>2 DEF AppendEvent, Base, TypeOK, Stage
    <3>2. "events" \notin cut
      <4>1. Readable BY <3>1 DEF Alone
      <4>2. /\ journal \in Seq(Lines)
            /\ "events" \in cut => journal # <<>> /\ journal[Len(journal)] = Torn
        BY Files
      <4>3. QED BY <4>1, <4>2 DEF Readable
    <3>3. journal' = Append(journal, event[c])
      BY <2>2, <3>1, <3>2, AfterBoth DEF AppendEvent, Lines
    <3>4. Further(event[c]) BY <3>1, <3>3, Files, Appended DEF Further
    <3>5. QED BY <3>1, <3>4, TornApart DEF Further
  <2>3. CASE pc[c] # "row" /\ ~AppendEvent(c)
    <3>1. ReadJournal(c)
      BY <1>4, <2>3 DEF Proceeds, vars, ReadJournal, Starts, Finish, AppendEvent, AppendRow,
                        WriteStops, Die, Base, TypeOK
    <3>2. \E i \in OfRun(RunOf(record[c])) : journal[i].of = record[c]
      BY <1>4, <3>1 DEF ReadJournal, Finish, Base, TypeOK
    <3>3. UNCHANGED <<journal, record>>
      BY <1>4, <3>1 DEF ReadJournal, Finish, Base, TypeOK
    <3>4. QED BY <3>2, <3>3 DEF OfRun
  <2>4. QED BY <2>1, <2>2, <2>3
<1>5. QED BY <1>1, <1>3, <1>4 DEF Alone

(* An event that is appended alone has a new number and says what none of  *)
(* its run's said (append_event_at).                                       *)
LEMMA NumberedStep ==
  ASSUME Constants, WholeLines = TRUE, Base, Alone, EventsNumbered, [Proceeds]_vars
  PROVE  EventsNumbered'
<1>1. CASE UNCHANGED journal
  BY <1>1 DEF EventsNumbered, OfRun
<1>2. ASSUME NEW c \in Command, NEW line \in Lines, pc[c] = "event", Further(line),
             line = event[c] \/ line = Torn
      PROVE  EventsNumbered'
  <2>1. \A i \in DOMAIN journal : journal[i] # Torn BY <1>2 DEF Alone, Readable
  <2>2. \A i \in DOMAIN journal' : journal'[i] = Torn => i = Len(journal')
    BY <1>2, <2>1 DEF Further
  <2>3. ASSUME NEW run \in Run, NEW i \in OfRun(run)', NEW j \in OfRun(run)', i # j
        PROVE  journal'[i].of # journal'[j].of /\ journal'[i].seq # journal'[j].seq
    <3>1. CASE i \in OfRun(run) /\ j \in OfRun(run)
      <4>1. journal'[i] = journal[i] /\ journal'[j] = journal[j] BY <1>2, <3>1 DEF OfRun, Further
      <4>2. QED BY <2>3, <3>1, <4>1 DEF EventsNumbered
    <3>2. ASSUME NEW k \in OfRun(run), line # Torn, line.run = run
          PROVE  journal'[k].of # line.of /\ journal'[k].seq < line.seq
                 /\ journal'[k].seq \in Nat /\ line.seq \in Nat
      <4>1. journal'[k] = journal[k] BY <1>2, <3>2 DEF OfRun, Further
      <4>2. line = event[c] BY <1>2, <3>2
      <4>3. journal[k] \in Event /\ line \in Event
        BY <3>2 DEF OfRun, Base, TypeOK, Lines
      <4>4. QED BY <1>2, <3>2, <4>1, <4>2, <4>3 DEF Alone, Event
    <3>3. OfRun(run)' = OfRun(run) \cup
                IF line # Torn /\ line.run = run THEN {Len(journal')} ELSE {}
      BY <1>2, SeqsAfter
    <3>4. journal'[Len(journal')] = line BY <1>2 DEF Further
    <3>5. QED BY <2>3, <3>1, <3>2, <3>3, <3>4
  <2>4. QED BY <2>2, <2>3 DEF EventsNumbered
<1>3. QED BY <1>1, <1>2, JournalGrows

(* A row is appended after its event (append_trace).                       *)
LEMMA RowStep ==
  ASSUME Constants, WholeLines = TRUE, Base, Alone, RowHasEvent, [Proceeds]_vars
  PROVE  RowHasEvent'
<1>1. ASSUME NEW r, \E j \in DOMAIN journal : journal[j] # Torn /\ journal[j].of = r
      PROVE  \E j \in DOMAIN journal' : journal'[j] # Torn /\ journal'[j].of = r
  <2>1. PICK j \in DOMAIN journal : journal[j] # Torn /\ journal[j].of = r BY <1>1
  <2>2. j \in DOMAIN journal' /\ journal'[j] = journal[j] BY JournalGrows DEF Further
  <2>3. QED BY <2>1, <2>2
<1>2. ASSUME NEW i \in DOMAIN trace', trace'[i] # Torn
      PROVE  \E j \in DOMAIN journal : journal[j] # Torn /\ journal[j].of = trace'[i]
  <2>1. CASE i \in DOMAIN trace /\ trace'[i] = trace[i] BY <1>2, <2>1 DEF RowHasEvent
  <2>2. ASSUME NEW c \in Command, AppendRow(c), trace'[i] = record[c]
        PROVE  \E j \in DOMAIN journal : journal[j] # Torn /\ journal[j].of = record[c]
    BY <2>2 DEF AppendRow, Alone
  <2>3. QED BY <1>2, <2>1, <2>2, TraceGrows DEF Longer
<1>3. QED BY <1>1, <1>2 DEF RowHasEvent
--------------------------------------------------------------------------------
(* The inductive invariant: of appends that may overlap, and of appends    *)
(* that do not.                                                            *)
IInv == Base /\ Lives /\ OnePass /\ Marked /\ Owned /\ Gapless /\ Next1

AInv == Alone /\ EventsNumbered /\ RowHasEvent

(* Both invariants hold of empty files.                                    *)
LEMMA Initial ==
  ASSUME Constants
  PROVE  Init => IInv /\ AInv
<1> SUFFICES ASSUME Init PROVE IInv /\ AInv
  OBVIOUS
<1>1. journal = <<>> /\ trace = <<>> /\ DOMAIN journal = {} /\ DOMAIN trace = {}
  BY DEF Init
<1>2. <<>> \in Seq(Event \cup {Torn}) /\ <<>> \in Seq(Record \cup {Torn}) OBVIOUS
<1>3. TypeOK BY <1>1, <1>2 DEF Init, TypeOK
<1>4. Base BY <1>1, <1>3 DEF Init, Base, Stage, Cuts, Named, Bounds
<1>5. Lives /\ OnePass /\ Marked /\ Owned
  BY <1>1 DEF Init, Lives, OnePass, UnderWay, Appending, Marked, Owned, Constants
<1>6. Gapless /\ Next1 BY <1>1 DEF Init, Gapless, Next1, Seqs, OfRun
<1>7. AInv BY <1>1 DEF Init, AInv, Alone, EventsNumbered, RowHasEvent, OfRun
<1>8. QED BY <1>4, <1>5, <1>6, <1>7 DEF IInv

(* Every step keeps the first,                                             *)
LEMMA IInvStep ==
  ASSUME Constants, WholeLines = TRUE, OneAtATime = TRUE, IInv, [Proceeds]_vars
  PROVE  IInv'
<1> USE DEF IInv
<1>1. Base' BY BaseStep, FilesStep, NamedStep DEF Base
<1>2. QED BY <1>1, LivesStep, OnePassStep, MarkedStep, OwnedStep, GaplessStep, Next1Step

(* the second, when the others are idle.                                   *)
LEMMA AInvStep ==
  ASSUME Constants, WholeLines = TRUE, IInv, AInv, Separate, [Proceeds]_vars
  PROVE  AInv'
BY AloneStep, NumberedStep, RowStep DEF IInv, AInv

(* The steps of the journal are such steps.                                *)
LEMMA Proceeding ==
  /\ [Next]_vars => [Proceeds]_vars
  /\ Base /\ Apart = TRUE /\ [Next]_vars => Separate
<1>1. [Next]_vars => [Proceeds]_vars BY DEF Next, Proceeds, Begin, Starts
<1>2. ASSUME Base, Apart = TRUE, [Next]_vars PROVE Separate
  BY <1>2 DEF Next, vars, Begin, ReadJournal, AppendEvent, AppendRow, WriteStops, Die, Finish,
              Base, TypeOK, Separate
<1>3. QED BY <1>1, <1>2

(* What the two invariants promise.                                        *)
LEMMA JournalPromises ==
  /\ IInv => TypeOK /\ Attributed /\ NumbersGapless
  /\ IInv /\ AInv => EventsKept
BY DEF IInv, Base, Owned, Own, TornIn, Attributed, Gapless, Seqs, NumbersGapless, AInv, EventsKept

(* The typing holds, an event belongs to the pass whose command appended   *)
(* it and the numbers of a run have no gap, however appends overlap, when  *)
(* one pass is under way at a time and a write is cut inside its line.     *)
THEOREM Invariance ==
  ASSUME Constants, WholeLines = TRUE, OneAtATime = TRUE
  PROVE  Spec => []IInv
<1>1. Init => IInv BY Initial
<1>2. IInv /\ [Next]_vars => IInv' BY IInvStep, Proceeding
<1>3. QED BY <1>1, <1>2, PTL DEF Spec

(* Every variable has its type (umwelt_edge.rs append_trace,               *)
(* event_store.rs append_event_at).                                        *)
THEOREM Typing ==
  ASSUME Constants, WholeLines = TRUE, OneAtATime = TRUE
  PROVE  Spec => []TypeOK
BY Invariance, JournalPromises, PTL

(* Of appends that end before another begins, every event of a run has a   *)
(* number of its own and every row of the trace its event.                 *)
THEOREM Kept ==
  ASSUME Constants, WholeLines = TRUE, OneAtATime = TRUE
  PROVE  Spec => []EventsKept
<1>1. CASE Apart = TRUE
  <2>1. Init => AInv BY Initial
  <2>2. IInv /\ AInv /\ [Next]_vars => AInv'
    BY <1>1, AInvStep, Proceeding DEF IInv
  <2>3. QED BY <2>1, <2>2, JournalPromises, Invariance, PTL DEF Spec
<1>2. CASE Apart # TRUE
  <2>1. IInv => EventsKept BY <1>2, JournalPromises DEF EventsKept
  <2>2. QED BY <2>1, Invariance, PTL
<1>3. QED BY <1>1, <1>2
--------------------------------------------------------------------------------
(* The event log of a run (EventLog), for any number of sinks that write   *)
(* one after another, of followers, of events and of faults.               *)
Line == [seq : Nat, type : {"note", "finished", "garbage"}, by : Two \cup {NoState}]
Remembered == [last : Nat, ended : BOOLEAN, len : Nat]
Cutting == {"newline", "sync", "rollback"}

LogTypes ==
    /\ lines \in Seq(Line) /\ tail \in BOOLEAN /\ retracted \in BOOLEAN /\ acked \subseteq Line
    /\ sinkPc \in [Two -> {"idle", "event", "newline", "sync", "rollback"}]
    /\ draft \in [Two -> Line] /\ start \in [Two -> Nat]
    /\ cache \in [Two -> Remembered \cup {NoState}]
    /\ view \in [One -> Seq(Line)]
    /\ polled \in [One -> {"following", "reconnect", "terminal", "fault"}]

OneSink == \A s, r \in Two : sinkPc[s] # "idle" /\ sinkPc[r] # "idle" => s = r

EndedBy(n) == \E i \in 1 .. n : lines[i].type = "finished"

(* Where an append is, the file is as it left it; what it would cut away   *)
(* begins with its own line.                                               *)
Drafted(s) ==
    /\ sinkPc[s] \in {"event", "newline"} =>
          draft[s].seq = Len(lines) + 1 /\ ~EndedBy(Len(lines)) /\ ~cache[s].ended
    /\ sinkPc[s] = "event" => ~tail
    /\ sinkPc[s] = "newline" => tail /\ start[s] = 2 * Len(lines)
    /\ sinkPc[s] = "sync" =>
          /\ ~tail /\ Len(lines) > 0 /\ start[s] = 2 * Len(lines) - 2
          /\ draft[s] = lines[Len(lines)] /\ ~cache[s].ended
    /\ sinkPc[s] = "rollback" =>
          \/ start[s] = 2 * Len(lines)
          \/ Len(lines) > 0 /\ start[s] = 2 * Len(lines) - 2

(* The first n lines are there, and no append under way may cut them.      *)
Stays(n) ==
    /\ n \in 0 .. Len(lines)
    /\ \A s \in Two : sinkPc[s] \in Cutting => 2 * n <= start[s]

(* What a sink remembers is of lines that stay.                            *)
CacheTrue(s) ==
    cache[s] # NoState =>
        /\ Stays(cache[s].last) /\ cache[s].len = 2 * cache[s].last
        /\ cache[s].ended <=> EndedBy(cache[s].last)

AckedStay ==
    \A e \in acked : e.seq \in DOMAIN lines /\ lines[e.seq] = e /\ Stays(e.seq)

Follows(f) ==
    ~retracted =>
        /\ Len(view[f]) <= Len(lines) /\ \A i \in DOMAIN view[f] : view[f][i] = lines[i]
        /\ polled[f] = "terminal" => Len(view[f]) = Len(lines) /\ EndedBy(Len(lines))

LogInv ==
    /\ LogTypes /\ OneSink /\ Log!WellFormed(lines) /\ AckedStay
    /\ \A s \in Two : Drafted(s) /\ CacheTrue(s)
    /\ \A f \in One : Follows(f)

(* The fields of a line and of what a sink remembers.                      *)
LEMMA LogFields ==
  /\ \A e \in Line : e.seq \in Nat /\ e.type \in {"note", "finished", "garbage"}
  /\ \A c \in Remembered : c.last \in Nat /\ c.ended \in BOOLEAN /\ c.len \in Nat
BY DEF Line, Remembered

(* A sink that reads or remembers the log when no append is under way      *)
(* knows all of it.                                                        *)
LEMMA KnowsAll ==
  ASSUME LogInv, NEW s \in Two, Log!Free(s), Log!Remembers(s) \/ Log!Readable
  PROVE  /\ Log!StateOf(s) = [last |-> Len(lines), ended |-> EndedBy(Len(lines)),
                              len |-> 2 * Len(lines)]
         /\ ~tail /\ \A r \in Two : sinkPc[r] = "idle"
<1>1. \A r \in Two : sinkPc[r] = "idle" BY DEF Log!Free
<1>2. lines \in Seq(Line) /\ tail \in BOOLEAN /\ Len(lines) \in Nat BY DEF LogInv, LogTypes
<1>3. EndedBy(Len(lines)) <=> \E i \in DOMAIN lines : lines[i].type = "finished"
  BY <1>2 DEF EndedBy
<1>4. CASE Log!Remembers(s)
  <2>1. cache[s] # NoState /\ cache[s].len = Log!Length BY <1>4 DEF Log!Remembers
  <2>2. cache[s] \in Remembered BY <2>1 DEF LogInv, LogTypes
  <2>3. /\ cache[s].len = 2 * cache[s].last /\ cache[s].last \in Nat
        /\ cache[s].ended <=> EndedBy(cache[s].last)
    BY <2>1, <2>2, LogFields DEF LogInv, CacheTrue
  <2>4. cache[s].last = Len(lines) /\ ~tail BY <1>2, <2>1, <2>3 DEF Log!Length
  <2>5. cache[s] = [last |-> cache[s].last, ended |-> cache[s].ended, len |-> cache[s].len]
    BY <2>2 DEF Remembered
  <2>6. cache[s].ended \in BOOLEAN /\ EndedBy(Len(lines)) \in BOOLEAN
    BY <2>2, LogFields DEF EndedBy
  <2>7. cache[s].ended = EndedBy(Len(lines)) BY <2>3, <2>4, <2>6
  <2>8. QED BY <1>1, <1>4, <2>3, <2>4, <2>5, <2>7 DEF Log!StateOf
<1>5. CASE ~Log!Remembers(s)
  <2>1. ~tail BY <1>5 DEF Log!Readable
  <2>2. Log!Length = 2 * Len(lines) BY <1>2, <2>1 DEF Log!Length
  <2>3. EndedBy(Len(lines)) = \E i \in DOMAIN lines : lines[i].type = "finished"
    BY <1>3 DEF EndedBy
  <2>4. QED BY <1>1, <1>5, <2>1, <2>2, <2>3 DEF Log!StateOf, Log!RunState
<1>6. QED BY <1>4, <1>5

(* What a step that leaves the lines and the appends leaves true.          *)
LEMMA LinesStay ==
  ASSUME LogInv, UNCHANGED lines
  PROVE  /\ Log!WellFormed(lines)' /\ \A n : EndedBy(n)' <=> EndedBy(n)
BY DEF LogInv, Log!WellFormed, EndedBy

(* A sink begins, or refuses: it remembers the whole log (sink.rs append,  *)
(* forward, read_state).                                                   *)
LEMMA Opens ==
  ASSUME LogInv, NEW s \in Two,
         \/ Log!Refuse(s)
         \/ \E type \in {"note", "finished"} :
               \/ Log!BeginAppend(s, type)
               \/ \E n \in 1 .. MaxEvents : Log!BeginForward(s, n, type)
  PROVE  LogInv'
<1>1. /\ UNCHANGED <<lines, tail, start, acked, view, polled, retracted>>
      /\ Log!Free(s)
  BY DEF Log!Refuse, Log!BeginAppend, Log!BeginForward, Log!Accepts
<1>2. \A r \in Two : sinkPc[r] = "idle" BY <1>1 DEF Log!Free
<1>3. lines \in Seq(Line) /\ Len(lines) \in Nat BY DEF LogInv, LogTypes
<1> PICK all : all = [last |-> Len(lines), ended |-> EndedBy(Len(lines)), len |-> 2 * Len(lines)]
  OBVIOUS
<1>4. all \in Remembered BY <1>3 DEF Remembered, EndedBy
<1>5. cache' = [cache EXCEPT ![s] = NoState] \/ cache' = [cache EXCEPT ![s] = all]
  BY <1>1, KnowsAll DEF Log!Refuse, Log!BeginAppend, Log!BeginForward, Log!Accepts
<1>6. cache' \in [Two -> Remembered \cup {NoState}] BY <1>4, <1>5 DEF LogInv, LogTypes
<1>7. ASSUME NEW n PROVE Stays(n)' <=> n \in 0 .. Len(lines)
  <2>1. \A r \in Two : sinkPc'[r] \notin Cutting
    BY <1>2 DEF Log!Refuse, Log!BeginAppend, Log!BeginForward, Log!Goto, Cutting, LogInv, LogTypes
  <2>2. QED BY <1>1, <2>1 DEF Stays
<1>8. ASSUME NEW r \in Two PROVE CacheTrue(r)'
  <2>1. CASE r = s /\ cache'[s] = all
    <3>1. EndedBy(Len(lines))' <=> EndedBy(Len(lines)) BY <1>1 DEF EndedBy
    <3>2. all.ended <=> EndedBy(Len(lines)) OBVIOUS
    <3>3. Len(lines) \in 0 .. Len(lines) BY <1>3
    <3>4. QED BY <1>1, <1>3, <1>7, <2>1, <3>1, <3>2, <3>3 DEF CacheTrue, EndedBy
  <2>2. CASE r # s
    <3>1. cache'[r] = cache[r] BY <1>5, <2>2 DEF LogInv, LogTypes
    <3>2. CacheTrue(r) BY DEF LogInv
    <3>3. QED BY <1>1, <1>7, <3>1, <3>2 DEF CacheTrue, Stays, EndedBy
  <2>3. CASE r = s /\ cache'[s] = NoState BY <2>3 DEF CacheTrue
  <2>4. cache'[s] = all \/ cache'[s] = NoState BY <1>5 DEF LogInv, LogTypes
  <2>5. QED BY <2>1, <2>2, <2>3, <2>4
<1>9. AckedStay' BY <1>1, <1>7 DEF LogInv, AckedStay, Stays
<1>10. ASSUME NEW f \in One PROVE Follows(f)'
  <2>1. Follows(f) BY DEF LogInv
  <2>2. QED BY <1>1, <2>1 DEF Follows, EndedBy
<1>11. Log!WellFormed(lines)' BY <1>1, LinesStay
<1>12. CASE Log!Refuse(s)
  <2>1. UNCHANGED <<sinkPc, draft>> BY <1>12 DEF Log!Refuse
  <2>2. LogTypes' BY <1>1, <1>6, <2>1 DEF LogInv, LogTypes
  <2>3. OneSink' BY <2>1 DEF LogInv, OneSink
  <2>4. \A r \in Two : Drafted(r)' BY <1>2, <2>1 DEF Drafted
  <2>5. QED BY <1>8, <1>9, <1>10, <1>11, <2>2, <2>3, <2>4 DEF LogInv
<1>13. CASE \E type \in {"note", "finished"} :
               \/ Log!BeginAppend(s, type)
               \/ \E n \in 1 .. MaxEvents : Log!BeginForward(s, n, type)
  <2>1. PICK type \in {"note", "finished"}, who \in Two \cup {NoState} :
           /\ Log!Accepts(s) /\ draft' = [draft EXCEPT ![s] = Log!Stamp(all.last + 1, type, who)]
           /\ sinkPc' = [sinkPc EXCEPT ![s] = "event"]
    BY <1>1, <1>13, KnowsAll DEF Log!BeginAppend, Log!BeginForward, Log!Accepts, Log!Goto
  <2>2. ~tail /\ cache' = [cache EXCEPT ![s] = all] /\ ~EndedBy(Len(lines))
    <3>1. Log!StateOf(s) = all /\ ~tail BY <1>1, <2>1, KnowsAll DEF Log!Accepts
    <3>2. ~Log!StateOf(s).ended /\ cache' = [cache EXCEPT ![s] = Log!StateOf(s)]
      BY <2>1 DEF Log!Accepts
    <3>3. ~all.ended BY <3>1, <3>2
    <3>4. QED BY <3>1, <3>2, <3>3
  <2>3. Log!Stamp(all.last + 1, type, who) \in Line
    BY <1>3, <2>1 DEF Log!Stamp, Line
  <2>4. /\ draft'[s].seq = Len(lines) + 1 /\ sinkPc'[s] = "event" /\ cache'[s] = all
        /\ \A r \in Two : r # s => sinkPc'[r] = "idle"
    BY <1>2, <2>1, <2>2 DEF LogInv, LogTypes, Log!Stamp
  <2>5. LogTypes'
    <3>1. draft' \in [Two -> Line] BY <2>1, <2>3 DEF LogInv, LogTypes
    <3>2. sinkPc' \in [Two -> {"idle", "event", "newline", "sync", "rollback"}]
      BY <2>1 DEF LogInv, LogTypes
    <3>3. QED BY <1>1, <1>6, <3>1, <3>2 DEF LogInv, LogTypes
  <2>6. OneSink' BY <2>4 DEF OneSink
  <2>7. ASSUME NEW r \in Two PROVE Drafted(r)'
    <3>1. CASE r = s
      <4>1. ~all.ended BY <2>2
      <4>2. ~EndedBy(Len(lines))' BY <1>1, <2>2 DEF EndedBy
      <4>3. QED BY <1>1, <2>2, <2>4, <3>1, <4>1, <4>2 DEF Drafted
    <3>2. CASE r # s BY <2>4, <3>2 DEF Drafted
    <3>3. QED BY <3>1, <3>2
  <2>8. QED BY <1>8, <1>9, <1>10, <1>11, <2>5, <2>6, <2>7 DEF LogInv
<1>14. QED BY <1>12, <1>13

(* A sink writes its event, its newline, and syncs, or fails to (sink.rs   *)
(* append_durably).                                                        *)
LEMMA Writes ==
  ASSUME LogInv, NEW s \in Two, Log!WriteEvent(s) \/ Log!WriteNewline(s) \/ Log!Sync(s)
  PROVE  LogInv'
<1> USE DEF Log!Goto
<1>1. /\ lines \in Seq(Line) /\ Len(lines) \in Nat /\ tail \in BOOLEAN
      /\ sinkPc \in [Two -> {"idle", "event", "newline", "sync", "rollback"}]
      /\ draft \in [Two -> Line] /\ start \in [Two -> Nat]
      /\ cache \in [Two -> Remembered \cup {NoState}]
  BY DEF LogInv, LogTypes
<1>2. Drafted(s) /\ sinkPc[s] # "idle"
  BY DEF LogInv, Log!WriteEvent, Log!WriteNewline, Log!Sync
<1>3. \A r \in Two : r # s => sinkPc[r] = "idle" BY <1>2 DEF LogInv, OneSink
<1>4. UNCHANGED <<view, polled, retracted>>
  BY DEF Log!WriteEvent, Log!WriteNewline, Log!Sync
<1>5. CASE Log!WriteEvent(s)
  <2>1. /\ sinkPc[s] = "event" /\ start' = [start EXCEPT ![s] = Log!Length]
        /\ UNCHANGED <<lines, cache, draft, acked>>
    BY <1>5 DEF Log!WriteEvent
  <2>2. Log!Length = 2 * Len(lines) BY <1>1, <1>2, <2>1 DEF Drafted, Log!Length
  <2>3. PICK label \in {"newline", "rollback"} :
           sinkPc' = [sinkPc EXCEPT ![s] = label] /\ tail' \in BOOLEAN
           /\ (label = "newline" => tail')
    BY <1>1, <1>5 DEF Log!WriteEvent
  <2>4. /\ sinkPc'[s] = label /\ start'[s] = 2 * Len(lines) /\ start' \in [Two -> Nat]
        /\ \A r \in Two : r # s => sinkPc'[r] = "idle" /\ start'[r] = start[r]
    BY <1>1, <1>3, <2>1, <2>2, <2>3
  <2>5. LogTypes'
    <3>1. sinkPc' \in [Two -> {"idle", "event", "newline", "sync", "rollback"}] BY <1>1, <2>3
    <3>2. QED BY <1>4, <2>1, <2>3, <2>4, <3>1 DEF LogInv, LogTypes
  <2>6. OneSink' BY <2>4 DEF OneSink
  <2>7. \A n : Stays(n) => Stays(n)'
    <3>1. ASSUME NEW n, Stays(n) PROVE Stays(n)'
      <4>1. n \in 0 .. Len(lines) BY <3>1 DEF Stays
      <4>2. \A r \in Two : sinkPc'[r] \in Cutting => 2 * n <= start'[r]
        BY <1>1, <2>4, <4>1 DEF Cutting
      <4>3. QED BY <2>1, <4>1, <4>2 DEF Stays
    <3>2. QED BY <3>1
  <2>8. ASSUME NEW r \in Two PROVE Drafted(r)' /\ CacheTrue(r)'
    <3>1. CacheTrue(r)'
      <4>1. CacheTrue(r) BY DEF LogInv
      <4>2. cache[r] # NoState => Stays(cache[r].last)'
        <5>1. PICK n : n = cache[r].last OBVIOUS
        <5>2. cache[r] # NoState => Stays(n)' BY <2>7, <4>1, <5>1 DEF CacheTrue
        <5>3. QED BY <2>1, <5>1, <5>2 DEF Stays
      <4>3. QED BY <2>1, <4>1, <4>2 DEF CacheTrue, EndedBy, Stays
    <3>2. CASE r = s
      <4>1. draft[s].seq = Len(lines) + 1 /\ ~EndedBy(Len(lines)) /\ ~cache[s].ended
        BY <1>2, <2>1 DEF Drafted
      <4>2. QED BY <2>1, <2>3, <2>4, <3>1, <3>2, <4>1 DEF Drafted, EndedBy
    <3>3. CASE r # s BY <2>4, <3>1, <3>3 DEF Drafted
    <3>4. QED BY <3>2, <3>3
  <2>9. AckedStay'
    <3>1. ASSUME NEW e \in acked PROVE e.seq \in DOMAIN lines /\ lines[e.seq] = e /\ Stays(e.seq)'
      <4>1. e.seq \in DOMAIN lines /\ lines[e.seq] = e /\ Stays(e.seq) BY DEF LogInv, AckedStay
      <4>2. PICK n : n = e.seq OBVIOUS
      <4>3. Stays(n)' BY <2>7, <4>1, <4>2
      <4>4. QED BY <4>1, <4>2, <4>3 DEF Stays
    <3>2. QED BY <2>1, <3>1 DEF AckedStay, Stays
  <2>10. \A f \in One : Follows(f)' BY <1>4, <2>1 DEF LogInv, Follows, EndedBy
  <2>11. Log!WellFormed(lines)' BY <2>1, LinesStay
  <2>12. QED BY <2>5, <2>6, <2>8, <2>9, <2>10, <2>11 DEF LogInv
<1>6. ASSUME sinkPc[s] \in {"newline", "sync"},
             UNCHANGED <<lines, tail, cache, draft, start, acked>>,
             sinkPc' = [sinkPc EXCEPT ![s] = "rollback"]
      PROVE  LogInv'
  <2>1. sinkPc'[s] = "rollback" /\ \A r \in Two : r # s => sinkPc'[r] = "idle"
    BY <1>1, <1>3, <1>6
  <2>2. LogTypes'
    <3>1. sinkPc' \in [Two -> {"idle", "event", "newline", "sync", "rollback"}] BY <1>1, <1>6
    <3>2. QED BY <1>4, <1>6, <3>1 DEF LogInv, LogTypes
  <2>3. OneSink' BY <2>1 DEF OneSink
  <2>4. \A n : Stays(n)' <=> Stays(n)
    BY <1>3, <1>6, <2>1 DEF Stays, Cutting
  <2>5. ASSUME NEW r \in Two PROVE Drafted(r)' /\ CacheTrue(r)'
    <3>1. CacheTrue(r)'
      <4>1. CacheTrue(r) BY DEF LogInv
      <4>2. PICK n : n = cache[r].last OBVIOUS
      <4>3. Stays(n)' <=> Stays(n) BY <2>4
      <4>4. QED BY <1>6, <4>1, <4>2, <4>3 DEF CacheTrue, EndedBy, Stays
    <3>2. CASE r = s BY <1>2, <1>6, <2>1, <3>1, <3>2 DEF Drafted
    <3>3. CASE r # s BY <2>1, <3>1, <3>3 DEF Drafted
    <3>4. QED BY <3>2, <3>3
  <2>6. AckedStay'
    <3>1. ASSUME NEW e \in acked PROVE e.seq \in DOMAIN lines /\ lines[e.seq] = e /\ Stays(e.seq)'
      <4>1. e.seq \in DOMAIN lines /\ lines[e.seq] = e /\ Stays(e.seq) BY DEF LogInv, AckedStay
      <4>2. PICK n : n = e.seq OBVIOUS
      <4>3. Stays(n)' BY <2>4, <4>1, <4>2
      <4>4. QED BY <4>1, <4>2, <4>3 DEF Stays
    <3>2. QED BY <1>6, <3>1 DEF AckedStay, Stays
  <2>7. \A f \in One : Follows(f)' BY <1>4, <1>6 DEF LogInv, Follows, EndedBy
  <2>8. Log!WellFormed(lines)' BY <1>6, LinesStay
  <2>9. QED BY <2>2, <2>3, <2>5, <2>6, <2>7, <2>8 DEF LogInv
<1>7. CASE Log!WriteNewline(s) /\ UNCHANGED lines
  <2>1. \A e : Append(lines, e) # lines BY <1>1, LenProperties DEF Log!WriteNewline
  <2>2. QED BY <1>6, <1>7, <2>1 DEF Log!WriteNewline
<1>8. CASE Log!WriteNewline(s) /\ lines' # lines
  <2>1. /\ sinkPc[s] = "newline" /\ UNCHANGED <<cache, draft, start, acked>> /\ tail' = FALSE
        /\ sinkPc' = [sinkPc EXCEPT ![s] = "sync"]
        /\ lines' = Append(lines, IF start[s] = 2 * Len(lines) THEN draft[s] ELSE Log!Garbage)
    BY <1>8 DEF Log!WriteNewline
  <2>2. /\ start[s] = 2 * Len(lines) /\ draft[s].seq = Len(lines) + 1
        /\ ~EndedBy(Len(lines)) /\ ~cache[s].ended
    BY <1>2, <2>1 DEF Drafted
  <2>3. /\ lines' \in Seq(Line) /\ Len(lines') = Len(lines) + 1
        /\ \A i \in 1 .. Len(lines) : lines'[i] = lines[i]
        /\ lines'[Len(lines) + 1] = draft[s]
    <3>1. lines' = Append(lines, draft[s]) /\ draft[s] \in Line BY <1>1, <2>1, <2>2
    <3>2. QED BY <1>1, <3>1, AppendProperties
  <2>4. sinkPc'[s] = "sync" /\ \A r \in Two : r # s => sinkPc'[r] = "idle"
    BY <1>1, <1>3, <2>1
  <2>5. LogTypes'
    <3>1. sinkPc' \in [Two -> {"idle", "event", "newline", "sync", "rollback"}] BY <1>1, <2>1
    <3>2. QED BY <1>4, <2>1, <2>3, <3>1 DEF LogInv, LogTypes
  <2>6. OneSink' BY <2>4 DEF OneSink
  <2>7. \A n : Stays(n) => Stays(n)'
    BY <1>1, <1>3, <2>1, <2>3, <2>4 DEF Stays, Cutting
  <2>8. ASSUME NEW n \in 0 .. Len(lines) PROVE EndedBy(n)' <=> EndedBy(n)
    <3>1. \A i \in 1 .. n : lines'[i] = lines[i] BY <1>1, <2>3
    <3>2. QED BY <3>1 DEF EndedBy
  <2>9. ASSUME NEW r \in Two PROVE Drafted(r)' /\ CacheTrue(r)'
    <3>1. CacheTrue(r)'
      <4>1. CacheTrue(r) BY DEF LogInv
      <4>2. PICK n : n = cache[r].last OBVIOUS
      <4>3. cache[r] # NoState => /\ Stays(n) /\ n \in 0 .. Len(lines) /\ cache[r].len = 2 * n
                                  /\ cache[r].ended <=> EndedBy(n)
        BY <4>1, <4>2 DEF CacheTrue, Stays
      <4>4. cache[r] # NoState => Stays(n)' /\ (EndedBy(n)' <=> EndedBy(n)) BY <2>7, <2>8, <4>3
      <4>5. QED BY <2>1, <4>2, <4>3, <4>4 DEF CacheTrue, EndedBy, Stays
    <3>2. CASE r = s BY <1>1, <2>1, <2>2, <2>3, <2>4, <3>1, <3>2 DEF Drafted
    <3>3. CASE r # s BY <2>4, <3>1, <3>3 DEF Drafted
    <3>4. QED BY <3>2, <3>3
  <2>10. AckedStay'
    <3>1. ASSUME NEW e \in acked
          PROVE  e.seq \in DOMAIN lines' /\ lines'[e.seq] = e /\ Stays(e.seq)'
      <4>1. e.seq \in DOMAIN lines /\ lines[e.seq] = e /\ Stays(e.seq) BY DEF LogInv, AckedStay
      <4>2. PICK n : n = e.seq OBVIOUS
      <4>3. Stays(n)' /\ n \in 1 .. Len(lines) BY <1>1, <2>7, <4>1, <4>2
      <4>4. QED BY <1>1, <2>3, <4>1, <4>2, <4>3 DEF Stays
    <3>2. QED BY <2>1, <3>1 DEF AckedStay, Stays
  <2>11. ASSUME NEW f \in One PROVE Follows(f)'
    <3>1. Follows(f) /\ view[f] \in Seq(Line) BY DEF LogInv, LogTypes
    <3>2. UNCHANGED <<retracted, view, polled>> BY <1>4
    <3>3. ~retracted => polled[f] # "terminal" BY <2>2, <3>1 DEF Follows
    <3>4. ~retracted => /\ Len(view[f]) <= Len(lines')
                        /\ \A i \in DOMAIN view[f] : view[f][i] = lines'[i]
      <4>1. DOMAIN view[f] = 1 .. Len(view[f]) /\ Len(view[f]) \in Nat BY <3>1
      <4>2. ~retracted => /\ Len(view[f]) <= Len(lines)
                          /\ \A i \in DOMAIN view[f] : view[f][i] = lines[i]
        BY <3>1 DEF Follows
      <4>3. Len(lines) \in Nat BY <1>1
      <4>4. ~retracted => Len(view[f]) <= Len(lines') BY <2>3, <4>1, <4>2, <4>3
      <4>5. ~retracted => \A i \in 1 .. Len(view[f]) :
                             i \in 1 .. Len(lines) /\ view[f][i] = lines[i]
        BY <4>1, <4>2, <4>3
      <4>6. ~retracted => \A i \in 1 .. Len(view[f]) : view[f][i] = lines'[i] BY <2>3, <4>5
      <4>7. QED BY <4>1, <4>4, <4>6
    <3>5. QED BY <3>2, <3>3, <3>4 DEF Follows
  <2>12. Log!WellFormed(lines)'
    <3>1. Log!WellFormed(lines) BY DEF LogInv
    <3>2. \A i \in 1 .. Len(lines) : lines[i].seq = i /\ lines[i].type # "finished"
      BY <1>1, <2>2, <3>1 DEF Log!WellFormed, EndedBy
    <3>3. \A i \in DOMAIN lines' : i \in 1 .. Len(lines) \/ i = Len(lines) + 1
      BY <1>1, <2>3
    <3>4. QED BY <1>1, <2>2, <2>3, <3>2, <3>3 DEF Log!WellFormed
  <2>13. QED BY <2>5, <2>6, <2>9, <2>10, <2>11, <2>12 DEF LogInv
<1>9. CASE Log!Sync(s) /\ sinkPc'[s] = "rollback"
  BY <1>1, <1>6, <1>9 DEF Log!Sync, Log!Done
<1>10. CASE Log!Sync(s) /\ sinkPc'[s] # "rollback"
  <2> PICK known : known = [last |-> draft[s].seq,
                            ended |-> cache[s].ended \/ draft[s].type = "finished",
                            len |-> start[s] + 2]
    OBVIOUS
  <2>1. /\ sinkPc[s] = "sync" /\ acked' = acked \cup {draft[s]}
        /\ cache' = [cache EXCEPT ![s] = known] /\ UNCHANGED <<lines, tail>>
        /\ sinkPc' = [sinkPc EXCEPT ![s] = "idle"]
        /\ draft' = [draft EXCEPT ![s] = Log!Garbage] /\ start' = [start EXCEPT ![s] = 0]
    BY <1>1, <1>10 DEF Log!Sync, Log!Done
  <2>2. /\ ~tail /\ Len(lines) > 0 /\ start[s] = 2 * Len(lines) - 2
        /\ draft[s] = lines[Len(lines)] /\ ~cache[s].ended
    BY <1>2, <2>1 DEF Drafted
  <2>3. lines[Len(lines)].seq = Len(lines) /\ Len(lines) \in DOMAIN lines
    BY <1>1, <2>2 DEF LogInv, Log!WellFormed
  <2>4. known.last = Len(lines) /\ known.len = 2 * Len(lines) BY <1>1, <2>2, <2>3
  <2>5. known.ended <=> EndedBy(Len(lines))
    <3>1. known.ended <=> lines[Len(lines)].type = "finished" BY <2>2
    <3>2. \A i \in DOMAIN lines : lines[i].type = "finished" => i = Len(lines)
      BY DEF LogInv, Log!WellFormed
    <3>3. QED BY <1>1, <2>3, <3>1, <3>2 DEF EndedBy
  <2>6. known \in Remembered
    <3>1. start[s] \in Nat /\ draft[s].seq \in Nat BY <1>1, LogFields
    <3>2. QED BY <3>1 DEF Remembered
  <2>7. \A r \in Two : sinkPc'[r] = "idle" BY <1>1, <1>3, <2>1
  <2>8. LogTypes'
    <3>1. draft[s] \in Line /\ Log!Garbage \in Line BY <1>1 DEF Log!Garbage, Line
    <3>2. /\ draft' \in [Two -> Line] /\ start' \in [Two -> Nat]
          /\ cache' \in [Two -> Remembered \cup {NoState}]
          /\ sinkPc' \in [Two -> {"idle", "event", "newline", "sync", "rollback"}]
      BY <1>1, <2>1, <2>6, <3>1
    <3>3. QED BY <1>4, <2>1, <3>1, <3>2 DEF LogInv, LogTypes
  <2>9. OneSink' /\ \A r \in Two : Drafted(r)' BY <2>7 DEF OneSink, Drafted
  <2>10. ASSUME NEW n PROVE Stays(n)' <=> n \in 0 .. Len(lines)
    BY <2>1, <2>7 DEF Stays, Cutting
  <2>11. ASSUME NEW r \in Two PROVE CacheTrue(r)'
    <3>1. CASE r = s
      <4>1. cache'[r] = known BY <1>1, <2>1, <3>1
      <4>2. Len(lines) \in 0 .. Len(lines) BY <1>1
      <4>3. QED BY <2>1, <2>4, <2>5, <2>10, <4>1, <4>2 DEF CacheTrue, EndedBy
    <3>2. CASE r # s
      <4>1. cache'[r] = cache[r] BY <1>1, <2>1, <3>2
      <4>2. CacheTrue(r) BY DEF LogInv
      <4>3. QED BY <2>1, <2>10, <4>1, <4>2 DEF CacheTrue, Stays, EndedBy
    <3>3. QED BY <3>1, <3>2
  <2>12. AckedStay'
    <3>1. ASSUME NEW e \in acked' PROVE e.seq \in DOMAIN lines /\ lines[e.seq] = e
      BY <2>1, <2>2, <2>3, <3>1 DEF LogInv, AckedStay
    <3>2. DOMAIN lines \subseteq 0 .. Len(lines) BY <1>1
    <3>3. QED BY <2>1, <2>10, <3>1, <3>2 DEF AckedStay
  <2>13. \A f \in One : Follows(f)' BY <1>4, <2>1 DEF LogInv, Follows, EndedBy
  <2>14. Log!WellFormed(lines)' BY <2>1, LinesStay
  <2>15. QED BY <2>8, <2>9, <2>11, <2>12, <2>13, <2>14 DEF LogInv
<1>11. QED BY <1>5, <1>7, <1>8, <1>9, <1>10

(* A failed write is cut away, or stays; a sink that is killed or whose    *)
(* write failed forgets the run (sink.rs roll_back).                       *)
LEMMA Forgets ==
  ASSUME LogInv, NEW s \in Two, Log!Rollback(s) \/ Log!Kill(s)
  PROVE  LogInv'
<1> USE DEF Log!Goto
<1>1. /\ lines \in Seq(Line) /\ Len(lines) \in Nat /\ tail \in BOOLEAN
      /\ sinkPc \in [Two -> {"idle", "event", "newline", "sync", "rollback"}]
      /\ draft \in [Two -> Line] /\ start \in [Two -> Nat]
      /\ cache \in [Two -> Remembered \cup {NoState}]
  BY DEF LogInv, LogTypes
<1>2. /\ cache' = [cache EXCEPT ![s] = NoState] /\ sinkPc' = [sinkPc EXCEPT ![s] = "idle"]
      /\ draft' = [draft EXCEPT ![s] = Log!Garbage] /\ start' = [start EXCEPT ![s] = 0]
      /\ UNCHANGED <<acked, view, polled>>
  BY DEF Log!Rollback, Log!Kill, Log!Done
<1>3. /\ cache'[s] = NoState /\ sinkPc'[s] = "idle"
      /\ \A r \in Two : r # s => /\ cache'[r] = cache[r] /\ sinkPc'[r] = sinkPc[r]
                                 /\ start'[r] = start[r] /\ draft'[r] = draft[r]
  BY <1>1, <1>2
<1>4. /\ draft' \in [Two -> Line] /\ start' \in [Two -> Nat]
      /\ cache' \in [Two -> Remembered \cup {NoState}]
      /\ sinkPc' \in [Two -> {"idle", "event", "newline", "sync", "rollback"}]
  <2>1. Log!Garbage \in Line BY DEF Log!Garbage, Line
  <2>2. QED BY <1>1, <1>2, <2>1
<1>5. OneSink' BY <1>3 DEF LogInv, OneSink
<1>6. ASSUME UNCHANGED <<lines, tail, retracted>> PROVE LogInv'
  <2>1. LogTypes' BY <1>2, <1>4, <1>6 DEF LogInv, LogTypes
  <2>2. \A n : Stays(n) => Stays(n)'
    BY <1>3, <1>6 DEF Stays, Cutting
  <2>3. ASSUME NEW r \in Two PROVE Drafted(r)' /\ CacheTrue(r)'
    <3>1. CASE r = s BY <1>3, <3>1 DEF Drafted, CacheTrue
    <3>2. CASE r # s
      <4>1. CacheTrue(r) /\ Drafted(r) BY DEF LogInv
      <4>2. PICK n : n = cache[r].last OBVIOUS
      <4>3. Stays(n) => Stays(n)' BY <2>2
      <4>4. CacheTrue(r)' BY <1>3, <1>6, <3>2, <4>1, <4>2, <4>3 DEF CacheTrue, EndedBy, Stays
      <4>5. Drafted(r)' BY <1>3, <1>6, <3>2, <4>1 DEF Drafted, EndedBy
      <4>6. QED BY <4>4, <4>5
    <3>3. QED BY <3>1, <3>2
  <2>4. AckedStay'
    <3>1. ASSUME NEW e \in acked PROVE e.seq \in DOMAIN lines /\ lines[e.seq] = e /\ Stays(e.seq)'
      <4>1. e.seq \in DOMAIN lines /\ lines[e.seq] = e /\ Stays(e.seq) BY DEF LogInv, AckedStay
      <4>2. PICK n : n = e.seq OBVIOUS
      <4>3. Stays(n)' BY <2>2, <4>1, <4>2
      <4>4. QED BY <4>1, <4>2, <4>3 DEF Stays
    <3>2. QED BY <1>2, <1>6, <3>1 DEF AckedStay, Stays
  <2>5. \A f \in One : Follows(f)' BY <1>2, <1>6 DEF LogInv, Follows, EndedBy
  <2>6. Log!WellFormed(lines)' BY <1>6, LinesStay
  <2>7. QED BY <1>5, <2>1, <2>3, <2>4, <2>5, <2>6 DEF LogInv
<1>7. CASE Log!Kill(s) \/ UNCHANGED <<lines, tail, retracted>>
  BY <1>6, <1>7 DEF Log!Kill
<1>8. CASE Log!Rollback(s) /\ ~UNCHANGED <<lines, tail, retracted>>
  <2> PICK k : k = start[s] \div 2 OBVIOUS
  <2>1. /\ sinkPc[s] = "rollback" /\ lines' = SubSeq(lines, 1, k)
        /\ tail' = (start[s] % 2 = 1 /\ (tail \/ 2 * Len(lines) > start[s]))
        /\ retracted' = (retracted \/ Len(lines') < Len(lines))
    BY <1>8 DEF Log!Rollback
  <2>2. start[s] = 2 * Len(lines) \/ (Len(lines) > 0 /\ start[s] = 2 * Len(lines) - 2)
    BY <2>1 DEF LogInv, Drafted
  <2>3. k \in 0 .. Len(lines) /\ start[s] = 2 * k
    <3>1. \A n \in Nat : (2 * n) \div 2 = n OBVIOUS
    <3>2. PICK n \in 0 .. Len(lines) : start[s] = 2 * n
      <4>1. CASE start[s] = 2 * Len(lines) BY <1>1, <4>1
      <4>2. CASE Len(lines) > 0 /\ start[s] = 2 * Len(lines) - 2
        <5>1. Len(lines) - 1 \in 0 .. Len(lines) /\ start[s] = 2 * (Len(lines) - 1)
          BY <1>1, <4>2
        <5>2. QED BY <5>1
      <4>3. QED BY <2>2, <4>1, <4>2
    <3>3. k = n BY <3>1, <3>2
    <3>4. QED BY <3>2, <3>3
  <2>4. /\ lines' \in Seq(Line) /\ Len(lines') = k /\ \A i \in 1 .. k : lines'[i] = lines[i]
    <3>1. \A i \in 1 .. k : lines[i] \in Line BY <1>1, <2>3
    <3>2. QED BY <2>1, <2>3, <3>1, SubSeqProperties
  <2>5. tail' \in BOOLEAN /\ retracted' \in BOOLEAN
    BY <1>1, <2>1 DEF LogInv, LogTypes
  <2>6. LogTypes' BY <1>2, <1>4, <2>4, <2>5 DEF LogInv, LogTypes
  <2>7. \A r \in Two : sinkPc'[r] = "idle" BY <1>3, <2>1 DEF LogInv, OneSink
  <2>8. ASSUME NEW n, Stays(n) PROVE Stays(n)' /\ n \in 0 .. k
    <3>1. n \in 0 .. Len(lines) /\ 2 * n <= start[s] BY <2>1, <2>8 DEF Stays, Cutting
    <3>2. n \in 0 .. k BY <1>1, <2>3, <3>1
    <3>3. QED BY <2>4, <2>7, <3>2 DEF Stays, Cutting
  <2>9. ASSUME NEW n \in 0 .. k PROVE EndedBy(n)' <=> EndedBy(n)
    <3>1. \A i \in 1 .. n : lines'[i] = lines[i] BY <2>3, <2>4
    <3>2. QED BY <3>1 DEF EndedBy
  <2>10. ASSUME NEW r \in Two PROVE Drafted(r)' /\ CacheTrue(r)'
    <3>1. Drafted(r)' BY <2>7 DEF Drafted
    <3>2. CASE r = s BY <1>3, <3>1, <3>2 DEF CacheTrue
    <3>3. CASE r # s
      <4>1. CacheTrue(r) BY DEF LogInv
      <4>2. PICK n : n = cache[r].last OBVIOUS
      <4>3. cache[r] # NoState => /\ Stays(n)' /\ cache[r].len = 2 * n
                                  /\ cache[r].ended <=> EndedBy(n)'
        BY <2>8, <2>9, <4>1, <4>2 DEF CacheTrue
      <4>4. QED BY <1>3, <3>1, <3>3, <4>2, <4>3 DEF CacheTrue, EndedBy, Stays
    <3>4. QED BY <3>2, <3>3
  <2>11. AckedStay'
    <3>1. ASSUME NEW e \in acked
          PROVE  e.seq \in DOMAIN lines' /\ lines'[e.seq] = e /\ Stays(e.seq)'
      <4>1. e.seq \in DOMAIN lines /\ lines[e.seq] = e /\ Stays(e.seq) BY DEF LogInv, AckedStay
      <4>2. PICK n : n = e.seq OBVIOUS
      <4>3. Stays(n)' /\ n \in 1 .. k BY <1>1, <2>3, <2>8, <4>1, <4>2
      <4>4. QED BY <2>3, <2>4, <4>1, <4>2, <4>3 DEF Stays
    <3>2. QED BY <1>2, <3>1 DEF AckedStay, Stays
  <2>12. ASSUME NEW f \in One PROVE Follows(f)'
    <3>1. CASE k = Len(lines)
      <4>1. lines' = lines BY <1>1, <2>4, <3>1, SeqEqual
      <4>2. QED BY <1>2, <2>1, <4>1 DEF LogInv, Follows, EndedBy
    <3>2. CASE k # Len(lines)
      <4>1. Len(lines') < Len(lines) BY <1>1, <2>3, <2>4, <3>2
      <4>2. retracted' BY <2>1, <4>1
      <4>3. QED BY <4>2 DEF Follows
    <3>3. QED BY <3>1, <3>2
  <2>13. Log!WellFormed(lines)'
    <3>1. Log!WellFormed(lines) BY DEF LogInv
    <3>2. \A i \in 1 .. k : lines[i].seq = i /\ (lines[i].type = "finished" => i = Len(lines))
      BY <1>1, <2>3, <3>1 DEF Log!WellFormed
    <3>3. \A i \in 1 .. k : i = Len(lines) => i = k BY <1>1, <2>3
    <3>4. DOMAIN lines' = 1 .. k BY <2>4
    <3>5. QED BY <2>4, <3>2, <3>3, <3>4 DEF Log!WellFormed
  <2>14. QED BY <1>5, <2>6, <2>10, <2>11, <2>12, <2>13 DEF LogInv
<1>9. QED BY <1>7, <1>8

(* A follower reads what it has not delivered (follower.rs poll).          *)
LEMMA Polls ==
  ASSUME LogInv, NEW f \in One, Log!Poll(f) \/ Log!Reconnect(f) \/ Log!Resume(f)
  PROVE  LogInv'
<1>1. /\ lines \in Seq(Line) /\ Len(lines) \in Nat /\ view \in [One -> Seq(Line)]
      /\ polled \in [One -> {"following", "reconnect", "terminal", "fault"}]
      /\ view[f] \in Seq(Line) /\ Len(view[f]) \in Nat
  BY DEF LogInv, LogTypes
<1>2. UNCHANGED <<lines, tail, cache, sinkPc, draft, start, acked, retracted>>
  BY DEF Log!Poll, Log!Reconnect, Log!Resume
<1>3. /\ Log!WellFormed(lines)' /\ \A n : EndedBy(n)' <=> EndedBy(n)
  BY <1>2, LinesStay
<1>4. /\ OneSink' /\ AckedStay' /\ \A s \in Two : Drafted(s)' /\ CacheTrue(s)'
  BY <1>2 DEF LogInv, OneSink, AckedStay, Drafted, CacheTrue, Stays, EndedBy
<1>5. ASSUME LogTypes', \A g \in One : g # f => view'[g] = view[g] /\ polled'[g] = polled[g],
             Follows(f)'
      PROVE  LogInv'
  <2>1. ASSUME NEW g \in One PROVE Follows(g)'
    <3>1. CASE g = f BY <1>5, <3>1
    <3>2. CASE g # f BY <1>2, <1>5, <3>2 DEF LogInv, Follows, EndedBy
    <3>3. QED BY <3>1, <3>2
  <2>2. QED BY <1>3, <1>4, <1>5, <2>1 DEF LogInv
<1>6. CASE Log!Reconnect(f) \/ Log!Resume(f)
  <2>1. view' = view /\ polled' \in [One -> {"following", "reconnect", "terminal", "fault"}]
        /\ polled'[f] # "terminal" /\ \A g \in One : g # f => polled'[g] = polled[g]
    BY <1>1, <1>6 DEF Log!Reconnect, Log!Resume
  <2>2. LogTypes' BY <1>2, <2>1 DEF LogInv, LogTypes
  <2>3. Follows(f)' BY <1>2, <2>1 DEF LogInv, Follows
  <2>4. QED BY <1>5, <2>1, <2>2, <2>3
<1>7. CASE Log!Poll(f)
  <2>1. Log!WellFormed(lines) BY DEF LogInv
  <2> PICK all : all = view[f] \o Log!Delivered(f) OBVIOUS
  <2>2. view' = [view EXCEPT ![f] = all]
        /\ polled' = [polled EXCEPT ![f] =
              IF \E i \in DOMAIN view'[f] : view'[f][i].type = "finished"
              THEN "terminal" ELSE "following"]
    BY <1>7, <2>1 DEF Log!Poll
  <2>3. Log!After(f) \in Nat
    <3>1. view[f] # <<>> => Len(view[f]) \in 1 .. Len(view[f]) BY <1>1, EmptySeq
    <3>2. view[f] # <<>> => view[f][Len(view[f])] \in Line BY <1>1, <3>1, ElementOfSeq
    <3>3. QED BY <3>2, LogFields DEF Log!After
  <2>4. /\ Log!Delivered(f) \in Seq(Line)
        /\ Len(Log!Delivered(f)) =
              IF Log!After(f) + 1 <= Len(lines) THEN Len(lines) - Log!After(f) ELSE 0
        /\ \A i \in 1 .. Len(lines) - Log!After(f) :
              Log!Delivered(f)[i] = lines[Log!After(f) + i]
    <3>1. PICK m : m = Log!After(f) + 1 OBVIOUS
    <3>2. \A i \in m .. Len(lines) : lines[i] \in Line BY <1>1, <2>3, <3>1, ElementOfSeq
    <3>3. /\ SubSeq(lines, m, Len(lines)) \in Seq(Line)
          /\ Len(SubSeq(lines, m, Len(lines))) = IF m <= Len(lines) THEN Len(lines) - m + 1 ELSE 0
          /\ \A i \in 1 .. Len(lines) - m + 1 :
                SubSeq(lines, m, Len(lines))[i] = lines[m + i - 1]
      BY <1>1, <2>3, <3>1, <3>2, SubSeqProperties
    <3>4. Log!Delivered(f) = SubSeq(lines, m, Len(lines)) BY <3>1 DEF Log!Delivered
    <3>5. ASSUME NEW i \in 1 .. Len(lines) - Log!After(f)
          PROVE  m + i - 1 = Log!After(f) + i /\ i \in 1 .. Len(lines) - m + 1
      <4>1. \A a, n \in Nat : \A j \in 1 .. n - a :
                (a + 1) + j - 1 = a + j /\ j \in 1 .. n - (a + 1) + 1
        OBVIOUS
      <4>2. QED BY <1>1, <2>3, <3>1, <3>5, <4>1
    <3>6. \A i \in 1 .. Len(lines) - Log!After(f) :
              Log!Delivered(f)[i] = lines[Log!After(f) + i]
      BY <3>3, <3>4, <3>5
    <3>7. QED BY <1>1, <2>3, <3>1, <3>3, <3>4, <3>6
  <2>5. all \in Seq(Line) /\ Len(all) = Len(view[f]) + Len(Log!Delivered(f))
    BY <1>1, <2>4, ConcatProperties
  <2>6. /\ view'[f] = all /\ view' \in [One -> Seq(Line)]
        /\ \A g \in One : g # f => view'[g] = view[g] /\ polled'[g] = polled[g]
        /\ polled' \in [One -> {"following", "reconnect", "terminal", "fault"}]
    BY <1>1, <2>2, <2>5
  <2>7. LogTypes' BY <1>2, <2>6 DEF LogInv, LogTypes
  <2>8. ASSUME ~retracted PROVE all = lines
    <3>1. Len(view[f]) <= Len(lines) /\ \A i \in DOMAIN view[f] : view[f][i] = lines[i]
      BY <2>8 DEF LogInv, Follows
    <3>2. Log!After(f) = Len(view[f])
      <4>1. CASE view[f] = <<>> BY <4>1, EmptySeq DEF Log!After
      <4>2. CASE view[f] # <<>>
        <5>1. Len(view[f]) \in DOMAIN view[f] /\ Len(view[f]) \in DOMAIN lines
          BY <1>1, <3>1, <4>2, EmptySeq
        <5>2. lines[Len(view[f])].seq = Len(view[f]) BY <2>1, <5>1 DEF Log!WellFormed
        <5>3. QED BY <3>1, <4>2, <5>1, <5>2 DEF Log!After
      <4>3. QED BY <4>1, <4>2
    <3>3. Len(all) = Len(lines) BY <1>1, <2>4, <2>5, <3>1, <3>2
    <3>4. ASSUME NEW i \in 1 .. Len(lines) PROVE all[i] = lines[i]
      <4>1. all[i] = IF i <= Len(view[f]) THEN view[f][i] ELSE Log!Delivered(f)[i - Len(view[f])]
        BY <1>1, <2>4, <2>5, <3>3, <3>4, ConcatProperties
      <4>2. CASE i <= Len(view[f]) BY <1>1, <3>1, <3>4, <4>1, <4>2
      <4>3. CASE ~(i <= Len(view[f]))
        <5>1. i - Len(view[f]) \in 1 .. Len(lines) - Log!After(f)
              /\ Log!After(f) + (i - Len(view[f])) = i
          BY <1>1, <3>2, <3>4, <4>3
        <5>2. PICK j : j = i - Len(view[f]) OBVIOUS
        <5>3. Log!Delivered(f)[j] = lines[Log!After(f) + j] BY <2>4, <5>1, <5>2
        <5>4. QED BY <1>1, <4>1, <4>3, <5>1, <5>2, <5>3
      <4>4. QED BY <4>2, <4>3
    <3>5. QED BY <1>1, <2>5, <3>3, <3>4, SeqEqual
  <2>9. Follows(f)'
    <3>1. SUFFICES ASSUME ~retracted PROVE
             /\ Len(all) <= Len(lines) /\ \A i \in DOMAIN all : all[i] = lines[i]
             /\ polled'[f] = "terminal" => Len(all) = Len(lines) /\ EndedBy(Len(lines))
      BY <1>2, <1>3, <2>6 DEF Follows, EndedBy
    <3>2. all = lines BY <2>8, <3>1
    <3>3. polled'[f] = "terminal" => \E i \in DOMAIN lines : lines[i].type = "finished"
      BY <1>1, <2>2, <2>6, <3>2
    <3>4. QED BY <1>1, <3>2, <3>3 DEF EndedBy
  <2>10. QED BY <1>5, <2>6, <2>7, <2>9
<1>8. QED BY <1>6, <1>7

(* The log is empty, and no sink has opened it.                            *)
LEMMA LogInitial == Log!Init => LogInv
<1> SUFFICES ASSUME Log!Init PROVE LogInv OBVIOUS
<1> USE DEF Log!Init
<1>1. lines = <<>> /\ Len(lines) = 0 /\ lines \in Seq(Line) BY EmptySeq
<1>2. LogTypes
  <2>1. Log!Garbage \in Line BY DEF Log!Garbage, Line
  <2>2. \A f \in One : <<>> \in Seq(Line) BY EmptySeq
  <2>3. QED BY <1>1, <2>1, <2>2 DEF LogTypes
<1>3. \A s \in Two : sinkPc[s] = "idle" /\ cache[s] = NoState OBVIOUS
<1>4. OneSink /\ \A s \in Two : Drafted(s) /\ CacheTrue(s)
  BY <1>3 DEF OneSink, Drafted, CacheTrue
<1>5. Log!WellFormed(lines) /\ AckedStay BY <1>1 DEF Log!WellFormed, AckedStay
<1>6. \A f \in One : Follows(f) BY <1>1, EmptySeq DEF Follows
<1>7. QED BY <1>2, <1>4, <1>5, <1>6 DEF LogInv

(* Every step of the sinks and the followers keeps the invariant, and a    *)
(* step of another component leaves the log as it is.                      *)
LEMMA LogStep == LogInv /\ (Log!Next \/ UNCHANGED logVars) => LogInv'
<1> SUFFICES ASSUME LogInv, Log!Next \/ UNCHANGED logVars PROVE LogInv' OBVIOUS
<1>1. CASE UNCHANGED logVars
  BY <1>1 DEF LogInv, logVars, LogTypes, OneSink, Log!WellFormed, AckedStay, Drafted, CacheTrue,
              Follows, Stays, EndedBy
<1>2. CASE Log!Next BY <1>2, Opens, Writes, Forgets, Polls DEF Log!Next, Log!Store
<1>3. QED BY <1>1, <1>2

(* However appends fail, are cut back or are killed, the lines of the log  *)
(* are numbered without a gap, nothing follows run.finished, and an event  *)
(* whose append returned Ok stays under its number (sink.rs); and what a   *)
(* follower has delivered is a prefix of the log, and all of it once it    *)
(* stopped at run.finished (follower.rs).                                  *)
THEOREM LogFollowed == MCSpec => []LogIsFollowed
<1>1. MCInit => LogInv BY LogInitial DEF MCInit
<1>2. LogInv /\ [MCNext]_<<moving, vars, logVars, runVars, capVars, sweepVars>> => LogInv'
  BY LogStep DEF MCNext
<1>3. LogInv => LogIsFollowed
  <2>1. LogInv => Log!LogIntact
    BY DEF LogInv, AckedStay, Log!LogIntact, Log!LogGapless, Log!AckedStays
  <2>2. LogInv => Log!FollowerHasPrefix BY DEF LogInv, Follows, Log!FollowerHasPrefix
  <2>3. QED BY <2>1, <2>2 DEF LogIsFollowed
<1>4. QED BY <1>1, <1>2, <1>3, PTL DEF MCSpec
--------------------------------------------------------------------------------
(* The run of a harness (PassRun) and its permission bridge, for any       *)
(* number of calls, of tool_use_ids and of lines on the control            *)
(* descriptor, where nothing pauses between a check and what rests on it.  *)
Entry == [type : {"run.started", "decision.requested", "decision.answered", "run.finished",
                  "control.requested", "control.applied"},
          subject : One \cup {None},
          what : {None, "allow", "deny", "ok", "interrupted", "capped", "ended"}]
Forwarded == [control : Bridge!Reply, answered : BOOLEAN]
Receipted == [option : Bridge!Reply, timeout : BOOLEAN]
Places == {"idle", "request", "wait", "acknowledge", "allowed", "denied", "dead"}

RunTypes ==
    /\ log \in Seq(Entry) /\ loopPc \in Bridge!Labels /\ todo \subseteq One
    /\ pending \in [One -> Forwarded \cup {None}]
    /\ replies \in [One -> Bridge!Reply] /\ receipts \in [One -> Receipted \cup {None}]
    /\ harness \in {"running", "exited", "stopped"} /\ guard \in BOOLEAN /\ status \in BOOLEAN
    /\ channel \in {"open", "lost", "closed"}
    /\ calls \subseteq claims /\ claims \subseteq One
    /\ at \in [Two -> Places] /\ id \in [Two -> One \cup {None}] /\ age \in [One -> 0 .. 2]

(* The run is finished once, by whoever set the guard, when the loop is    *)
(* over and the harness stopped.                                           *)
Over == {"after", "finish", "drop", "done"}
Ends ==
    /\ late = FALSE
    /\ \A k \in DOMAIN log : log[k].type = "run.finished" =>
          k = Len(log) /\ guard /\ loopPc \in {"after", "finish", "done"}
    /\ status \/ loopPc \in Over => harness # "running"

(* A call holds its tool_use_id alone; its wait and the clock of its       *)
(* request are in step.                                                    *)
Holding == {"request", "wait", "acknowledge", "allowed"}
OwnIds ==
    /\ \A c \in Two : at[c] # "idle" => id[c] \in One
    /\ \A c \in Two : at[c] \in Holding => id[c] \in claims
    /\ \A c, d \in Two : at[c] \in Holding /\ at[d] \in Holding /\ id[c] = id[d] => c = d
    /\ \A c \in Two : at[c] = "request" => id[c] \notin calls
    /\ \A i \in One : age[i] > 0 => i \in calls
    /\ \A c \in Two : at[c] = "acknowledge" => age[id[c]] = 0 /\ replies[id[c]] # None
    /\ \A c \in Two : at[c] = "wait" => age[id[c]] < 2

(* What a receipt says is what its call was told.                          *)
Ran(i) == \E c \in Two : at[c] = "allowed" /\ id[c] = i
Told ==
    /\ \A c \in Two : at[c] = "allowed" =>
          /\ receipts[id[c]] = [option |-> "allow", timeout |-> FALSE]
          /\ replies[id[c]] = "allow"
    /\ \A i \in One : receipts[i] # None =>
          /\ receipts[i].timeout => receipts[i].option = "deny"
          /\ ~receipts[i].timeout => receipts[i].option = replies[i]
          /\ receipts[i].option = "allow" => Ran(i)
          /\ receipts[i].option # None

(* What was forwarded is on record, and the decision it answers.           *)
Has(e) == \E k \in DOMAIN log : log[k] = e
AskOK(i) ==
    /\ pending[i] = None => replies[i] = None
    /\ pending[i] # None =>
          /\ pending[i].control = replies[i]
          /\ Has(Bridge!Ev("decision.requested", i, None))
    /\ replies[i] # None => Has(Bridge!Ev("control.requested", i, replies[i]))
Asks == \A i \in One : AskOK(i)

Due(i) == pending[i] # None /\ ~pending[i].answered
Turn ==
    /\ loopPc \in {"resolve", "expiry"} => \A i \in todo : Due(i)
    /\ loopPc = "expiry" =>
          /\ looking \in One /\ Due(looking) /\ looking \notin todo
          /\ age[looking] = 2 /\ channel # "lost" => ~Ran(looking)
    /\ channel = "closed" => loopPc \in Over

(* Once the loop has answered a decision nothing more is told its call.    *)
Answers(k, i) == log[k].type = "decision.answered" /\ log[k].subject = i
Applies(k, i) == log[k] = Bridge!Ev("control.applied", i, "ok")
Final(i) == channel # "open" \/ receipts[i] # None \/ age[i] > 0
AnswerOK(k, i) ==
    /\ pending[i] # None /\ (pending[i].answered \/ loopPc \in Over \cup {"broken"})
    /\ \E j \in DOMAIN log : j < k /\ log[j] = Bridge!Ev("decision.requested", i, None)
    /\ Final(i)
    /\ log[k].what \in {"allow", "deny"}
    /\ channel # "lost" =>
          /\ log[k].what = "deny" => ~Ran(i)
          /\ log[k].what = "allow" => Ran(i)
AppliedOK(k, i) ==
    /\ k - 1 \in DOMAIN log /\ Answers(k - 1, i)
    /\ \E j \in 1 .. k - 2 : log[j] = Bridge!Ev("control.requested", i, log[k - 1].what)
Records ==
    /\ \A k \in DOMAIN log : log[k].type = "decision.answered" => log[k].subject \in One
    /\ \A i \in One :
          /\ \A j, k \in DOMAIN log : Answers(j, i) /\ Answers(k, i) => j = k
          /\ \A k \in DOMAIN log : Answers(k, i) => AnswerOK(k, i)
          /\ \A k \in DOMAIN log : Applies(k, i) => AppliedOK(k, i)

RunInv == RunTypes /\ Ends /\ OwnIds /\ Told /\ Asks /\ Turn /\ Records

(* The fields of a decision and of a receipt; None is neither.             *)
LEMMA RunFields ==
  ASSUME Bridge!Constants
  PROVE  /\ None \notin One /\ None \notin Forwarded /\ None \notin Receipted
         /\ None # "allow" /\ None # "deny"
         /\ \A f \in Forwarded : f.control \in {"allow", "deny", None} /\ f.answered \in BOOLEAN
         /\ \A r \in Receipted : r.option \in {"allow", "deny", None} /\ r.timeout \in BOOLEAN
BY DEF Bridge!Constants, Bridge!Reply, Bridge!Options, Forwarded, Receipted

(* A call or the clock moves: the loop and its log stand still, nothing    *)
(* that is final is undone, and no further call is told to run by then.    *)
LEMMA LoopWaits ==
  ASSUME RunInv, RunTypes', OwnIds', Told',
         UNCHANGED <<log, late, loopPc, todo, looking, pending, guard, status, replies>>,
         harness' = harness \/ harness' = "exited",
         channel' = channel \/ (channel = "open" /\ channel' = "lost"),
         \A i \in One : (receipts[i] # None => receipts'[i] # None) /\ age[i] <= age'[i],
         loopPc = "expiry" => age' = age,
         \A c \in Two : at[c] = "allowed" => at'[c] = "allowed" /\ id'[c] = id[c],
         \A c \in Two : at'[c] = "allowed" /\ at[c] # "allowed" => id'[c] = id[c] /\ ~Final(id[c])
  PROVE  RunInv'
<1>1. Ends' BY DEF RunInv, Ends
<1>2. Asks' BY DEF RunInv, Asks, AskOK, Has, Bridge!Ev
<1>3. ASSUME NEW i \in One, Final(i) PROVE Final(i)' /\ (Ran(i)' <=> Ran(i))
  <2>1. Final(i)'
    BY <1>3 DEF RunInv, RunTypes, Final
  <2>2. Ran(i) => Ran(i)' BY <1>3 DEF Ran
  <2>3. Ran(i)' => Ran(i) BY <1>3 DEF Ran
  <2>4. QED BY <2>1, <2>2, <2>3
<1>4. Turn'
  <2>1. ASSUME loopPc = "expiry", age[looking] = 2, channel # "lost" PROVE ~Ran(looking)'
    <3>1. looking \in One BY <2>1 DEF RunInv, Turn
    <3>2. PICK i \in One : i = looking BY <3>1
    <3>3. Final(i) /\ ~Ran(i) BY <2>1, <3>2 DEF RunInv, Turn, Final
    <3>4. ~Ran(i)' BY <1>3, <3>3
    <3>5. QED BY <3>2, <3>4 DEF Ran
  <2>2. QED BY <2>1 DEF RunInv, Turn, Due
<1>5. Records'
  <2>1. ASSUME NEW i \in One, NEW k \in DOMAIN log, AnswerOK(k, i) PROVE AnswerOK(k, i)'
    <3>1. Final(i)' /\ (Ran(i)' <=> Ran(i)) BY <1>3, <2>1 DEF AnswerOK
    <3>2. channel' # "lost" => channel # "lost" OBVIOUS
    <3>3. QED BY <2>1, <3>1, <3>2 DEF AnswerOK, Bridge!Ev
  <2>2. QED BY <2>1 DEF RunInv, Records, Answers, Applies, AppliedOK, Bridge!Ev
<1>6. QED BY <1>1, <1>2, <1>4, <1>5 DEF RunInv

(* Without an exception to what is said of one id or one call.             *)
LEMMA CallFields ==
  ASSUME RunInv, NEW c \in Two, at[c] # "idle"
  PROVE  id[c] \in One /\ age[id[c]] \in 0 .. 2
BY DEF RunInv, RunTypes, OwnIds

(* A call claims its id, publishes its request and reads the reply         *)
(* (permission_bridge.rs handle_permission).                               *)
LEMMA CallAsks ==
  ASSUME RunInv, Bridge!Constants, NEW c \in Two,
         (\E i \in One : Bridge!Claim(c, i)) \/ Bridge!Publish(c) \/ Bridge!ReadReply(c)
  PROVE  RunInv'
<1>1. /\ UNCHANGED <<log, late, loopPc, todo, looking, pending, guard, status, replies,
                      receipts, harness, channel, age, inputs, control>>
      /\ at' \in [Two -> Places] /\ \A d \in Two \ {c} : at'[d] = at[d] /\ id'[d] = id[d]
      /\ at[c] # "allowed" /\ at'[c] # "allowed"
  BY DEF RunInv, RunTypes, Places, Bridge!Claim, Bridge!Publish, Bridge!ReadReply,
         Bridge!CallGoto, Bridge!loopVars, Bridge!fileVars
<1>2. /\ RunTypes'
      /\ OwnIds'
  <2>1. ASSUME NEW i \in One, Bridge!Claim(c, i) PROVE RunTypes' /\ OwnIds'
    <3>1. id' = [id EXCEPT ![c] = i] /\ id'[c] = i /\ UNCHANGED calls /\ at[c] = "idle"
      BY <2>1 DEF Bridge!Claim, RunInv, RunTypes
    <3>2. CASE Bridge!Open /\ i \notin claims
      <4>1. claims' = claims \cup {i} /\ at'[c] = "request"
        BY <2>1, <3>2 DEF Bridge!Claim, Bridge!CallGoto, RunInv, RunTypes
      <4>2. QED BY <1>1, <2>1, <3>1, <3>2, <4>1 DEF RunInv, RunTypes, OwnIds, Holding
    <3>3. CASE ~(Bridge!Open /\ i \notin claims)
      <4>1. claims' = claims /\ at'[c] = "denied"
        BY <2>1, <3>3 DEF Bridge!Claim, Bridge!CallGoto, RunInv, RunTypes
      <4>2. QED BY <1>1, <2>1, <3>1, <4>1 DEF RunInv, RunTypes, OwnIds, Holding
    <3>4. QED BY <3>2, <3>3
  <2>2. ASSUME Bridge!Publish(c) PROVE RunTypes' /\ OwnIds'
    <3>1. /\ UNCHANGED <<id, claims>> /\ at[c] = "request" /\ id[c] \in One /\ age[id[c]] = 0
          /\ id[c] \in claims
      BY <2>2, CallFields DEF Bridge!Publish, RunInv, RunTypes, OwnIds, Holding
    <3>2. \/ calls' = calls \cup {id[c]} /\ at'[c] = "wait"
          \/ calls' = calls /\ at'[c] = "denied"
      BY <2>2 DEF Bridge!Publish, Bridge!CallGoto, RunInv, RunTypes
    <3>3. \A d \in Two : at[d] = "request" /\ d # c => id[d] # id[c]
      BY <3>1 DEF RunInv, OwnIds, Holding
    <3>4. QED BY <1>1, <3>1, <3>2, <3>3 DEF RunInv, RunTypes, OwnIds, Holding
  <2>3. ASSUME Bridge!ReadReply(c) PROVE RunTypes' /\ OwnIds'
    <3>1. /\ UNCHANGED <<id, claims, calls>> /\ at[c] = "wait" /\ id[c] \in One
          /\ age[id[c]] = 0 /\ replies[id[c]] # None /\ at'[c] = "acknowledge"
      BY <2>3, CallFields
      DEF Bridge!ReadReply, Bridge!fileVars, Bridge!CallGoto, RunInv, RunTypes
    <3>2. QED BY <1>1, <3>1 DEF RunInv, RunTypes, OwnIds, Holding
  <2>4. QED BY <2>1, <2>2, <2>3
<1>3. \A d \in Two : at[d] = "allowed" \/ at'[d] = "allowed" => at'[d] = at[d] /\ id'[d] = id[d]
  BY <1>1
<1>4. Told'
  <2>1. \A i \in One : Ran(i)' <=> Ran(i) BY <1>3 DEF Ran
  <2>2. QED BY <1>1, <1>3, <2>1 DEF RunInv, Told
<1>5. QED BY <1>1, <1>2, <1>3, <1>4, LoopWaits DEF RunInv, RunTypes

(* It acknowledges the reply, or gives up waiting for one.                 *)
LEMMA CallEnds ==
  ASSUME RunInv, Bridge!Constants, NEW c \in Two, Bridge!Acknowledge(c) \/ Bridge!GiveUp(c)
  PROVE  RunInv'
<1>1. /\ UNCHANGED <<log, late, loopPc, todo, looking, pending, guard, status, replies,
                      harness, channel, claims, calls, id, age, inputs, control>>
      /\ at' \in [Two -> Places] /\ \A d \in Two \ {c} : at'[d] = at[d]
      /\ at[c] \in {"acknowledge", "wait"} /\ at'[c] \in {"allowed", "denied"}
      /\ id[c] \in One /\ age[id[c]] \in 0 .. 2
  BY CallFields DEF RunInv, RunTypes, Places, Bridge!Acknowledge, Bridge!GiveUp,
         Bridge!CallGoto, Bridge!loopVars, Bridge!fileVars
<1> PICK i \in One : i = id[c] BY <1>1
<1> DEFINE new == Bridge!Open /\ receipts[i] = None
<1>2. \A d \in Two : at[d] \in Holding /\ id[d] = i => d = c
  BY <1>1 DEF RunInv, OwnIds, Holding
<1>3. OwnIds' BY <1>1, <1>2 DEF RunInv, OwnIds, Holding
<1>4. PICK told \in Receipted :
        /\ receipts' = IF new THEN [receipts EXCEPT ![i] = told] ELSE receipts
        /\ \/ /\ told = [option |-> "deny", timeout |-> TRUE] /\ at'[c] = "denied"
           \/ /\ told = [option |-> replies[i], timeout |-> FALSE] /\ replies[i] # None
              /\ at'[c] = "allowed" <=> new /\ replies[i] = "allow"
              /\ age[i] = 0
  <2>1. CASE Bridge!GiveUp(c)
    <3>1. [option |-> "deny", timeout |-> TRUE] \in Receipted
      BY DEF Receipted, Bridge!Reply, Bridge!Options
    <3>2. receipts' = IF new THEN [receipts EXCEPT ![i] = [option |-> "deny", timeout |-> TRUE]]
                      ELSE receipts
      BY <2>1 DEF Bridge!GiveUp, Bridge!Receipt
    <3>3. at'[c] = "denied" BY <2>1 DEF Bridge!GiveUp, Bridge!CallGoto, RunInv, RunTypes
    <3>4. QED BY <3>1, <3>2, <3>3
  <2>2. CASE Bridge!Acknowledge(c)
    <3>1. [option |-> replies[i], timeout |-> FALSE] \in Receipted
      BY DEF RunInv, RunTypes, Receipted
    <3>2. PICK r \in Receipted : r = [option |-> replies[i], timeout |-> FALSE] BY <3>1
    <3>3. receipts' = IF new THEN [receipts EXCEPT ![i] = r] ELSE receipts
      BY <2>2, <3>2 DEF Bridge!Acknowledge, Bridge!Receipt
    <3>4. receipts' # receipts <=> new
      BY <3>2, <3>3, RunFields DEF RunInv, RunTypes
    <3>5. at'[c] = IF receipts' # receipts /\ replies[i] = "allow" THEN "allowed" ELSE "denied"
      BY <2>2 DEF Bridge!Acknowledge, Bridge!CallGoto, RunInv, RunTypes
    <3>6. replies[i] # None /\ age[i] = 0 BY <2>2 DEF Bridge!Acknowledge, RunInv, OwnIds
    <3>7. QED BY <3>2, <3>3, <3>4, <3>5, <3>6
  <2>3. QED BY <2>1, <2>2
<1>5. receipts' \in [One -> Receipted \cup {None}] BY <1>4 DEF RunInv, RunTypes
<1>6. RunTypes' BY <1>1, <1>5 DEF RunInv, RunTypes
<1>7. /\ \A j \in One \ {i} : receipts'[j] = receipts[j] /\ (Ran(j)' <=> Ran(j))
      /\ ~Ran(i) /\ (Ran(i)' <=> at'[c] = "allowed")
  <2>1. \A j \in One \ {i} : receipts'[j] = receipts[j] BY <1>4 DEF RunInv, RunTypes
  <2>2. \A j \in One \ {i} : Ran(j)' <=> Ran(j) BY <1>1 DEF Ran
  <2>3. ~Ran(i) BY <1>1, <1>2 DEF Ran, Holding
  <2>4. Ran(i)' <=> at'[c] = "allowed" BY <1>1, <2>3 DEF Ran
  <2>5. QED BY <2>1, <2>2, <2>3, <2>4
<1>8. Told'
  <2>1. \A d \in Two \ {c} : at[d] = "allowed" => id[d] # i BY <1>2 DEF Holding
  <2>2. new => receipts'[i] = told BY <1>4 DEF RunInv, RunTypes
  <2>3. ~new => receipts'[i] = receipts[i] BY <1>4
  <2>4. ~new /\ receipts[i] # None => receipts[i].option # "allow" BY <1>7 DEF RunInv, Told
  <2>5. \A d \in Two : at'[d] = "allowed" =>
          /\ receipts'[id'[d]] = [option |-> "allow", timeout |-> FALSE]
          /\ replies'[id'[d]] = "allow"
    <3>1. ASSUME at'[c] = "allowed"
          PROVE  /\ receipts'[i] = [option |-> "allow", timeout |-> FALSE]
                 /\ replies[i] = "allow"
      BY <1>4, <2>2, <3>1
    <3>2. ASSUME NEW d \in Two \ {c}, at'[d] = "allowed"
          PROVE  /\ receipts'[id[d]] = [option |-> "allow", timeout |-> FALSE]
                 /\ replies[id[d]] = "allow"
      <4>1. at[d] = "allowed" /\ id[d] \in One \ {i}
        BY <1>1, <2>1, <3>2 DEF RunInv, OwnIds
      <4>2. receipts'[id[d]] = receipts[id[d]] BY <1>7, <4>1
      <4>3. QED BY <4>1, <4>2 DEF RunInv, Told
    <3>3. QED BY <1>1, <3>1, <3>2
  <2>6. \A j \in One \ {i} : receipts'[j] # None =>
          /\ receipts'[j].timeout => receipts'[j].option = "deny"
          /\ ~receipts'[j].timeout => receipts'[j].option = replies'[j]
          /\ receipts'[j].option = "allow" => Ran(j)'
          /\ receipts'[j].option # None
    BY <1>1, <1>7 DEF RunInv, Told
  <2>7. receipts'[i] # None =>
          /\ receipts'[i].timeout => receipts'[i].option = "deny"
          /\ ~receipts'[i].timeout => receipts'[i].option = replies'[i]
          /\ receipts'[i].option = "allow" => Ran(i)'
          /\ receipts'[i].option # None
    <3>1. CASE ~new BY <1>1, <2>3, <2>4, <3>1 DEF RunInv, Told
    <3>2. CASE new BY <1>1, <1>4, <1>7, <2>2, <3>2, RunFields
    <3>3. QED BY <3>1, <3>2
  <2>8. QED BY <2>5, <2>6, <2>7 DEF Told
<1>9. /\ \A j \in One : (receipts[j] # None => receipts'[j] # None) /\ age[j] <= age'[j]
      /\ \A d \in Two : at[d] = "allowed" => at'[d] = "allowed" /\ id'[d] = id[d]
  <2>1. \A j \in One : receipts[j] # None => receipts'[j] # None
    BY <1>4, <1>7
  <2>2. \A j \in One : age[j] <= age'[j] BY <1>1 DEF RunInv, RunTypes
  <2>3. QED BY <1>1, <2>1, <2>2
<1>10. \A d \in Two : at'[d] = "allowed" /\ at[d] # "allowed" => id'[d] = id[d] /\ ~Final(id[d])
  BY <1>1, <1>4 DEF Final, Bridge!Open
<1>11. QED BY <1>1, <1>3, <1>6, <1>8, <1>9, <1>10, LoopWaits

(* The clock, the harness, and whoever takes the channel away.             *)
LEMMA TimePasses ==
  ASSUME RunInv, Bridge!Constants,
         (\E i \in One : Bridge!Tick(i)) \/ Bridge!HarnessExits \/ Bridge!LoseChannel
  PROVE  RunInv'
<1>1. UNCHANGED <<log, late, loopPc, todo, looking, pending, guard, status, replies, receipts,
                  claims, calls, at, id, inputs, control>>
  BY DEF Bridge!Tick, Bridge!HarnessExits, Bridge!LoseChannel, Bridge!loopVars,
         Bridge!fileVars, Bridge!callVars
<1>2. /\ harness' = harness \/ harness' = "exited"
      /\ channel' = channel \/ (channel = "open" /\ channel' = "lost")
  BY DEF Bridge!Tick, Bridge!HarnessExits, Bridge!LoseChannel, Bridge!loopVars,
         Bridge!fileVars, Bridge!callVars, Bridge!Open
<1>3. /\ age' \in [One -> 0 .. 2] /\ \A i \in One : age[i] <= age'[i]
      /\ loopPc = "expiry" => age' = age
      /\ \A i \in One : age'[i] > 0 => i \in calls
      /\ \A c \in Two : at[c] = "acknowledge" => age'[id[c]] = 0
      /\ \A c \in Two : at[c] = "wait" => age'[id[c]] < 2
  <2>1. CASE UNCHANGED age BY <2>1 DEF RunInv, RunTypes, OwnIds
  <2>2. CASE \E i \in One : Bridge!Tick(i)
    <3> PICK i \in One : Bridge!Tick(i) BY <2>2
    <3>1. /\ age' = [age EXCEPT ![i] = age[i] + 1] /\ i \in calls /\ age[i] < 2
          /\ loopPc # "expiry"
          /\ \A c \in Two : id[c] = i => at[c] # "acknowledge" /\ ~(at[c] = "wait" /\ age[i] = 1)
      BY DEF Bridge!Tick
    <3>2. \A c \in Two : at[c] # "idle" => id[c] \in One BY DEF RunInv, OwnIds
    <3>3. age \in [One -> 0 .. 2] BY DEF RunInv, RunTypes
    <3>4. QED BY <3>1, <3>2, <3>3 DEF RunInv, OwnIds
  <2>3. QED BY <2>1, <2>2 DEF Bridge!HarnessExits, Bridge!LoseChannel, Bridge!callVars
<1>4. RunTypes' BY <1>1, <1>2, <1>3 DEF RunInv, RunTypes
<1>5. OwnIds' BY <1>1, <1>3 DEF RunInv, OwnIds
<1>6. Told' BY <1>1 DEF RunInv, Told, Ran
<1>7. QED BY <1>1, <1>2, <1>3, <1>4, <1>5, <1>6, LoopWaits

(* What the loop's appends leave of the log.                               *)
Put(s, e) == IF Bridge!Kept(e) THEN Append(s, e) ELSE s

(* An append of one event is all or nothing.                               *)
LEMMA AppendOne ==
  ASSUME RunInv, ~Bridge!Finished, NEW e, NEW l, Bridge!Appends(<<e>>, l)
  PROVE  /\ UNCHANGED late
         /\ \/ loopPc' = "broken" /\ log' = log
            \/ loopPc' = l /\ log' = Put(log, e)
<1> PICK es : es = <<e>> OBVIOUS
<1>1. Len(es) = 1 /\ es[1] = e OBVIOUS
<1>2. log \in Seq(Entry \cup {e}) BY DEF RunInv, RunTypes
<1>3. PICK k \in 0 .. 1 :
        /\ log' = log \o Bridge!Nth(1, es, k) \o Bridge!Nth(2, es, k)
        /\ loopPc' = IF k = 1 THEN l ELSE "broken"
  BY <1>1 DEF Bridge!Appends, Bridge!Goto
<1>4. Bridge!Nth(2, es, k) = <<>> BY DEF Bridge!Nth
<1>5. Bridge!Nth(1, es, k) = IF k = 1 /\ Bridge!Kept(e) THEN <<e>> ELSE <<>>
  BY <1>1 DEF Bridge!Nth
<1>6. log \o <<>> = log BY <1>2, ConcatEmptySeq
<1>7. (log \o <<e>>) \o <<>> = log \o <<e>> /\ log \o <<e>> = Append(log, e)
  BY <1>2, ConcatEmptySeq, AppendIsConcat
<1>8. QED BY <1>3, <1>4, <1>5, <1>6, <1>7 DEF Bridge!Appends, Put

(* Of an append of two the first may stay alone, and then the loop is      *)
(* broken.                                                                 *)
LEMMA AppendTwo ==
  ASSUME RunInv, ~Bridge!Finished, NEW e, NEW f, NEW l, Bridge!Appends(<<e, f>>, l)
  PROVE  /\ UNCHANGED late
         /\ \/ loopPc' = "broken" /\ log' \in {log, Put(log, e)}
            \/ loopPc' = l /\ log' = Put(Put(log, e), f)
<1> PICK es : es = <<e, f>> OBVIOUS
<1>1. Len(es) = 2 /\ es[1] = e /\ es[2] = f OBVIOUS
<1>2. log \in Seq(Entry \cup {e, f}) BY DEF RunInv, RunTypes
<1>3. PICK k \in 0 .. 2 :
        /\ log' = log \o Bridge!Nth(1, es, k) \o Bridge!Nth(2, es, k)
        /\ loopPc' = IF k = 2 THEN l ELSE "broken"
  BY <1>1 DEF Bridge!Appends, Bridge!Goto
<1>4. Bridge!Nth(1, es, k) = IF k # 0 /\ Bridge!Kept(e) THEN <<e>> ELSE <<>>
  BY <1>1 DEF Bridge!Nth
<1>5. Bridge!Nth(2, es, k) = IF k = 2 /\ Bridge!Kept(f) THEN <<f>> ELSE <<>>
  BY <1>1 DEF Bridge!Nth
<1>6. \A s \in Seq(Entry \cup {e, f}) :
        s \o <<>> = s /\ s \o <<f>> = Append(s, f) /\ s \o <<e>> = Append(s, e)
             /\ Append(s, e) \in Seq(Entry \cup {e, f})
  BY ConcatEmptySeq, AppendIsConcat
<1> PICK a : a = log \o Bridge!Nth(1, es, k) OBVIOUS
<1>7. /\ k = 0 => a = log
      /\ k # 0 => a = Put(log, e)
      /\ a \in Seq(Entry \cup {e, f})
  BY <1>2, <1>4, <1>6 DEF Put
<1>8. log' = IF k = 2 /\ Bridge!Kept(f) THEN Append(a, f) ELSE a BY <1>3, <1>5, <1>6, <1>7
<1>9. k = 2 => log' = Put(Put(log, e), f)
  <2>1. log' = IF k = 2 THEN Put(a, f) ELSE a BY <1>8 DEF Put
  <2>2. k = 2 => k # 0 OBVIOUS
  <2>3. k = 2 => a = Put(log, e) BY <1>7, <2>2
  <2>4. QED BY <2>1, <2>3
<1>10. k # 2 => log' \in {log, Put(log, e)} BY <1>7, <1>8
<1>11. QED BY <1>3, <1>9, <1>10 DEF Bridge!Appends

(* The end of the harness's processes takes no call's answer back.         *)
LEMMA CallsStay ==
  ASSUME RunInv, UNCHANGED <<replies, receipts, calls, claims, id, age>>,
         at' \in [Two -> Places],
         \A c \in Two : \/ at'[c] = at[c]
                        \/ at[c] \in {"request", "wait", "acknowledge"} /\ at'[c] = "dead"
  PROVE  OwnIds' /\ Told' /\ \A i \in One : Ran(i)' <=> Ran(i)
<1>1. OwnIds' BY DEF RunInv, OwnIds, Holding
<1>2. \A i \in One : Ran(i)' <=> Ran(i) BY DEF Ran
<1>3. Told' BY <1>2 DEF RunInv, Told
<1>4. QED BY <1>1, <1>2, <1>3

(* KillGroup stops the harness and the calls that still wait.              *)
LEMMA Killed ==
  ASSUME RunInv, Bridge!KillGroup
  PROVE  /\ harness' \in {"exited", "stopped"} /\ at' \in [Two -> Places]
         /\ \A c \in Two : \/ at'[c] = at[c]
                           \/ at[c] \in {"request", "wait", "acknowledge"} /\ at'[c] = "dead"
BY DEF RunInv, RunTypes, Places, Bridge!KillGroup

(* The log grows, or stays; what the loop has answered, asked and ended    *)
(* stands.                                                                 *)
Grown == Len(log) <= Len(log') /\ \A k \in DOMAIN log : k \in DOMAIN log' /\ log'[k] = log[k]
Past == Over \cup {"broken"}
Stands ==
    /\ \A i \in One : (Final(i) => Final(i)') /\ (Ran(i)' <=> Ran(i))
    /\ channel' # "lost" => channel # "lost"
    /\ \A i \in One : pending[i] # None => pending'[i] # None
    /\ \A i \in One : pending[i] # None /\ pending[i].answered => pending'[i].answered
    /\ loopPc \in Past => loopPc' \in Past
(* An event that was in the log is still what it was, and as well founded. *)
LEMMA OldRecords ==
  ASSUME RunInv, Grown, Stands, NEW i \in One, NEW k \in DOMAIN log
  PROVE  /\ k \in DOMAIN log' /\ log'[k] = log[k]
         /\ Answers(k, i)' <=> Answers(k, i)
         /\ Applies(k, i)' <=> Applies(k, i)
         /\ Answers(k, i) => AnswerOK(k, i)'
         /\ Applies(k, i) => AppliedOK(k, i)'
<1>1. ASSUME AnswerOK(k, i) PROVE AnswerOK(k, i)'
  <2>1. pending'[i] # None /\ (pending'[i].answered \/ loopPc' \in Past)
    BY <1>1 DEF Stands, AnswerOK, Past
  <2>2. \E j \in DOMAIN log' : j < k /\ log'[j] = Bridge!Ev("decision.requested", i, None)
    BY <1>1 DEF AnswerOK, Grown
  <2>3. Final(i)' /\ (Ran(i)' <=> Ran(i)) /\ log'[k] = log[k] BY <1>1 DEF Stands, AnswerOK, Grown
  <2>4. channel' # "lost" => channel # "lost" BY DEF Stands
  <2>5. QED BY <1>1, <2>1, <2>2, <2>3, <2>4 DEF AnswerOK, Past, Bridge!Ev
<1>2. ASSUME AppliedOK(k, i) PROVE AppliedOK(k, i)'
  <2>1. k - 1 \in DOMAIN log' /\ log'[k - 1] = log[k - 1] BY <1>2 DEF AppliedOK, Grown
  <2>2. PICK j \in 1 .. k - 2 : log[j] = Bridge!Ev("control.requested", i, log[k - 1].what)
    BY <1>2 DEF AppliedOK
  <2>3. log \in Seq(Entry) BY DEF RunInv, RunTypes
  <2>4. j \in DOMAIN log BY <1>2, <2>3 DEF AppliedOK
  <2>5. log'[j] = log[j] BY <2>4 DEF Grown
  <2>6. QED BY <1>2, <2>1, <2>2, <2>5 DEF AppliedOK, Answers, Bridge!Ev
<1>3. log'[k] = log[k] /\ k \in DOMAIN log' BY DEF Grown
<1>4. (Answers(k, i) => AnswerOK(k, i)) /\ (Applies(k, i) => AppliedOK(k, i))
  BY DEF RunInv, Records
<1>5. (Answers(k, i)' <=> Answers(k, i)) /\ (Applies(k, i)' <=> Applies(k, i))
  BY <1>3 DEF Answers, Applies, Bridge!Ev
<1>6. QED BY <1>1, <1>2, <1>3, <1>4, <1>5

(* The records stand when no new event is an answer.                       *)
LEMMA RecordsStay ==
  ASSUME RunInv, Grown, Stands,
         \A k \in DOMAIN log' : k \in DOMAIN log \/ log'[k].type = "run.finished"
              \/ log'[k].type = "decision.requested" \/ log'[k].type = "control.requested"
  PROVE  Records'
<1>1. ASSUME NEW i \in One, NEW k \in DOMAIN log', Answers(k, i)' \/ Applies(k, i)'
      PROVE  k \in DOMAIN log
  BY <1>1 DEF Answers, Applies, Bridge!Ev
<1>2. \A i \in One : \A j, k \in DOMAIN log : Answers(j, i) /\ Answers(k, i) => j = k
  BY DEF RunInv, Records
<1>3. \A i \in One : \A j, k \in DOMAIN log' : Answers(j, i)' /\ Answers(k, i)' => j = k
  BY <1>1, <1>2, OldRecords
<1>4. \A i \in One : \A k \in DOMAIN log' : Answers(k, i)' => AnswerOK(k, i)'
  BY <1>1, OldRecords
<1>5. \A i \in One : \A k \in DOMAIN log' : Applies(k, i)' => AppliedOK(k, i)'
  BY <1>1, OldRecords
<1>6. \A k \in DOMAIN log' : log'[k].type = "decision.answered" => log'[k].subject \in One
  BY DEF RunInv, Records, Grown
<1>7. QED BY <1>3, <1>4, <1>5, <1>6 DEF Records

(* The loop goes around, or leaves it, without an event.                   *)
LEMMA LoopGoesOn ==
  ASSUME RunInv, RunTypes', Turn',
         UNCHANGED <<log, late, pending, guard, replies, receipts, calls, claims, id, age>>,
         \A c \in Two : \/ at'[c] = at[c]
                        \/ at[c] \in {"request", "wait", "acknowledge"} /\ at'[c] = "dead",
         channel' = channel \/ (channel = "open" /\ channel' = "closed"),
         status' \/ loopPc' \in Over => harness' # "running",
         loopPc \in Past => loopPc' \in Past,
         loopPc \in {"after", "finish", "done"} => loopPc' \in {"after", "finish", "done"}
  PROVE  RunInv'
<1>1. OwnIds' /\ Told' /\ \A i \in One : Ran(i)' <=> Ran(i) BY CallsStay DEF RunTypes
<1>2. Ends' BY DEF RunInv, Ends
<1>3. Asks' BY DEF RunInv, Asks, AskOK, Has, Bridge!Ev
<1>4. Stands BY <1>1 DEF Stands, Final
<1>5. Records' BY <1>4, RecordsStay DEF Grown, RunInv, RunTypes
<1>6. QED BY <1>1, <1>2, <1>3, <1>5 DEF RunInv

(* wait_for_child goes around, leaves its loop, stops the harness and      *)
(* closes the channel.                                                     *)
LEMMA LoopTurns ==
  ASSUME RunInv, Bridge!Constants,
         \/ Bridge!Registered \/ Bridge!Resolved \/ Bridge!NoLine \/ Bridge!SeeExit
         \/ Bridge!CheckSignal \/ Bridge!Drain \/ Bridge!Leave
         \/ Bridge!StopHarness \/ Bridge!CloseChannel
  PROVE  RunInv'
<1>1. UNCHANGED <<log, late, pending, guard, replies, receipts, calls, claims, id, age, looking>>
  BY DEF Bridge!Registered, Bridge!Resolved, Bridge!NoLine, Bridge!SeeExit, Bridge!CheckSignal,
         Bridge!Drain, Bridge!Leave, Bridge!StopHarness, Bridge!CloseChannel,
         Bridge!fileVars, Bridge!callVars
<1>2. /\ at' \in [Two -> Places] /\ harness' \in {"running", "exited", "stopped"}
      /\ \A c \in Two : \/ at'[c] = at[c]
                        \/ at[c] \in {"request", "wait", "acknowledge"} /\ at'[c] = "dead"
  <2>1. CASE UNCHANGED <<at, harness>> BY <2>1 DEF RunInv, RunTypes
  <2>2. CASE Bridge!KillGroup BY <2>2, Killed
  <2>3. CASE Bridge!SeeExit BY <2>3 DEF Bridge!SeeExit, RunInv, RunTypes, Places
  <2>4. QED BY <2>1, <2>2, <2>3
    DEF Bridge!Registered, Bridge!Resolved, Bridge!NoLine, Bridge!CheckSignal,
        Bridge!Drain, Bridge!Leave, Bridge!StopHarness, Bridge!CloseChannel, Bridge!callVars
<1>3. CASE Bridge!SeeExit
  <2>1. /\ loopPc = "child" /\ harness = "exited" /\ status' = TRUE
        /\ UNCHANGED <<loopPc, channel, todo, harness>>
    BY <1>3 DEF Bridge!SeeExit, Bridge!fileVars
  <2>2. RunTypes' BY <1>1, <1>2, <2>1 DEF RunInv, RunTypes
  <2>3. Turn' BY <1>1, <2>1 DEF RunInv, Turn
  <2>4. QED BY <1>1, <1>2, <2>1, <2>2, <2>3, LoopGoesOn DEF Over, Past
<1>4. CASE Bridge!Registered
  <2>1. /\ loopPc = "poll" /\ loopPc' = "resolve" /\ todo' = Bridge!Unanswered
        /\ UNCHANGED <<channel, harness, status, at>>
    BY <1>4 DEF Bridge!Registered, Bridge!Goto, Bridge!fileVars, Bridge!callVars
  <2>2. todo' \subseteq One /\ \A i \in todo' : Due(i)'
    BY <1>1, <2>1 DEF Bridge!Unanswered, Due
  <2>3. RunTypes' BY <1>1, <1>2, <2>1, <2>2 DEF RunInv, RunTypes, Bridge!Labels
  <2>4. Turn' BY <1>1, <2>1, <2>2 DEF RunInv, Turn, Over
  <2>5. QED BY <1>1, <1>2, <2>1, <2>3, <2>4, LoopGoesOn DEF RunInv, Ends, Over, Past
<1>5. CASE Bridge!Resolved \/ Bridge!NoLine \/ Bridge!CheckSignal \/ Bridge!Drain
  <2>1. /\ loopPc \in {"resolve", "control", "child"}
        /\ loopPc' \in {"control", "child", "signal", "broken", "poll"}
        /\ UNCHANGED <<todo, channel, harness, status>>
    BY <1>5 DEF Bridge!Resolved, Bridge!NoLine, Bridge!CheckSignal, Bridge!Drain,
                Bridge!Goto, Bridge!fileVars
  <2>2. RunTypes' BY <1>1, <1>2, <2>1 DEF RunInv, RunTypes, Bridge!Labels
  <2>3. Turn' BY <1>1, <2>1 DEF RunInv, Turn, Over
  <2>4. QED BY <1>1, <1>2, <2>1, <2>2, <2>3, LoopGoesOn DEF RunInv, Ends, Over, Past
<1>6. CASE Bridge!Leave
  <2>1. /\ loopPc = "child" /\ status /\ loopPc' = "after"
        /\ UNCHANGED <<todo, channel, harness, status>>
    BY <1>6 DEF Bridge!Leave, Bridge!Goto, Bridge!fileVars
  <2>2. RunTypes' BY <1>1, <1>2, <2>1 DEF RunInv, RunTypes, Bridge!Labels
  <2>3. Turn' BY <1>1, <2>1 DEF RunInv, Turn, Over
  <2>4. QED BY <1>1, <1>2, <2>1, <2>2, <2>3, LoopGoesOn DEF RunInv, Ends, Over, Past
<1>7. CASE Bridge!StopHarness
  <2>1. /\ loopPc = "broken" /\ loopPc' = "after"
        /\ UNCHANGED <<todo, channel, status>>
    BY <1>7 DEF Bridge!StopHarness, Bridge!Goto, Bridge!fileVars
  <2>2. harness' # "running" BY <1>7, Killed DEF Bridge!StopHarness
  <2>3. RunTypes' BY <1>1, <1>2, <2>1 DEF RunInv, RunTypes, Bridge!Labels
  <2>4. Turn' BY <1>1, <2>1 DEF RunInv, Turn, Over
  <2>5. QED BY <1>1, <1>2, <2>1, <2>2, <2>3, <2>4, LoopGoesOn DEF Over, Past
<1>8. CASE Bridge!CloseChannel
  <2>1. /\ loopPc = "after" /\ loopPc' = "finish"
        /\ channel' = IF channel = "open" THEN "closed" ELSE channel
        /\ UNCHANGED <<todo, harness, status>>
    BY <1>8 DEF Bridge!CloseChannel, Bridge!Goto, Bridge!Open
  <2>2. RunTypes' BY <1>1, <1>2, <2>1 DEF RunInv, RunTypes, Bridge!Labels
  <2>3. Turn' BY <1>1, <2>1 DEF RunInv, Turn, Over
  <2>4. QED BY <1>1, <1>2, <2>1, <2>2, <2>3, LoopGoesOn DEF RunInv, Ends, Over, Past
<1>9. QED BY <1>3, <1>4, <1>5, <1>6, <1>7, <1>8

(* The run is not finished before the loop is over.                        *)
LEMMA NotFinished ==
  ASSUME RunInv, loopPc \notin {"after", "finish", "done"}
  PROVE  ~Bridge!Finished
BY DEF RunInv, Ends, Bridge!Finished

(* The loop writes one event, none of them an answer.                      *)
LEMMA LoopWrites ==
  ASSUME RunInv, RunTypes', OwnIds', Told', Asks', Turn', Stands, ~Bridge!Finished, late' = late,
         \/ log' = log
         \/ \E e \in Entry :
               /\ log' = Append(log, e)
               /\ \/ e.type \in {"decision.requested", "control.requested"}
                  \/ e.type = "run.finished" /\ guard' /\ loopPc' \in {"after", "finish", "done"},
         status' \/ loopPc' \in Over => harness' # "running"
  PROVE  RunInv'
<1>1. log \in Seq(Entry) /\ Len(log) \in Nat BY DEF RunInv, RunTypes
<1>2. \A k \in DOMAIN log : log[k].type # "run.finished" BY DEF Bridge!Finished
<1>3. CASE log' = log
  <2>1. Records' BY <1>1, <1>3, RecordsStay DEF Grown
  <2>2. Ends' BY <1>2, <1>3 DEF RunInv, Ends
  <2>3. QED BY <2>1, <2>2 DEF RunInv
<1>4. ASSUME NEW e \in Entry, log' = Append(log, e),
             \/ e.type \in {"decision.requested", "control.requested"}
             \/ e.type = "run.finished" /\ guard' /\ loopPc' \in {"after", "finish", "done"}
      PROVE  RunInv'
  <2>1. /\ Len(log') = Len(log) + 1 /\ DOMAIN log' = 1 .. Len(log) + 1
        /\ \A k \in 1 .. Len(log) : log'[k] = log[k]
        /\ log'[Len(log) + 1] = e
    BY <1>1, <1>4, AppendProperties
  <2>2. Grown BY <1>1, <2>1 DEF Grown
  <2>3. \A k \in DOMAIN log' : k \in DOMAIN log \/ k = Len(log) + 1 BY <1>1, <2>1
  <2>4. Records' BY <1>4, <2>1, <2>2, <2>3, RecordsStay
  <2>5. Ends' BY <1>1, <1>2, <1>4, <2>1 DEF RunInv, Ends
  <2>6. QED BY <2>4, <2>5 DEF RunInv
<1>5. QED BY <1>3, <1>4

(* A decision that is not asked or forwarded anew stays on record.         *)
LEMMA AskStays ==
  ASSUME RunInv, Grown, NEW i \in One, replies'[i] = replies[i],
         \/ pending'[i] = pending[i]
         \/ pending[i] # None /\ pending'[i] # None /\ pending'[i].control = pending[i].control
  PROVE  AskOK(i)'
<1>1. AskOK(i) BY DEF RunInv, Asks
<1>2. \A e : Has(e) => \E k \in DOMAIN log' : log'[k] = e BY DEF Has, Grown
<1>3. QED BY <1>1, <1>2 DEF AskOK, Has, Bridge!Ev

(* The log after one event.                                                *)
LEMMA GrownBy ==
  ASSUME RunInv, NEW e \in Entry, log' \in {log, Append(log, e)}
  PROVE  /\ Grown /\ log' \in Seq(Entry)
         /\ log' = Append(log, e) => \E k \in DOMAIN log' : log'[k] = e
<1>1. log \in Seq(Entry) /\ Len(log) \in Nat BY DEF RunInv, RunTypes
<1>2. CASE log' = log BY <1>1, <1>2 DEF Grown
<1>3. CASE log' = Append(log, e)
  <2>1. /\ Len(log') = Len(log) + 1 /\ DOMAIN log' = 1 .. Len(log) + 1
        /\ \A k \in 1 .. Len(log) : log'[k] = log[k]
        /\ log'[Len(log) + 1] = e /\ log' \in Seq(Entry)
    BY <1>1, <1>3, AppendProperties
  <2>2. QED BY <1>1, <2>1 DEF Grown
<1>4. QED BY <1>1, <1>2, <1>3 DEF Grown

(* PermissionBridge::poll registers a request.                             *)
LEMMA Registers ==
  ASSUME RunInv, Bridge!Constants, NEW i \in One, Bridge!Register(i)
  PROVE  RunInv'
<1> PICK e : e = Bridge!Ev("decision.requested", i, None) OBVIOUS
<1>1. e \in Entry /\ e.type = "decision.requested" /\ Bridge!Kept(e)
  BY DEF Entry, Bridge!Ev, Bridge!Kept
<1>2. /\ loopPc = "poll" /\ i \in calls /\ pending[i] = None /\ Bridge!Appends(<<e>>, "poll")
      /\ UNCHANGED <<todo, looking, guard, harness, status, channel, claims, calls, replies,
                     receipts, at, id, age>>
      /\ pending' = IF loopPc' = "poll"
                    THEN [pending EXCEPT ![i] = [control |-> None, answered |-> FALSE]] ELSE pending
  BY DEF Bridge!Register, Bridge!Unseen, Bridge!fileVars, Bridge!callVars
<1>3. ~Bridge!Finished BY <1>2, NotFinished
<1>4. /\ UNCHANGED late
      /\ \/ loopPc' = "broken" /\ log' = log /\ pending' = pending
         \/ /\ loopPc' = "poll" /\ log' = Append(log, e)
            /\ pending' = [pending EXCEPT ![i] = [control |-> None, answered |-> FALSE]]
  BY <1>1, <1>2, <1>3, AppendOne DEF Put
<1>5. Grown /\ log' \in Seq(Entry) /\ (loopPc' = "poll" => \E k \in DOMAIN log' : log'[k] = e)
  BY <1>1, <1>4, GrownBy
<1>6. [control |-> None, answered |-> FALSE] \in Forwarded BY DEF Forwarded, Bridge!Reply
<1>7. /\ pending' \in [One -> Forwarded \cup {None}]
      /\ \A j \in One \ {i} : pending'[j] = pending[j]
      /\ pending'[i] = None \/ /\ loopPc' = "poll" /\ pending'[i].control = None
                               /\ pending'[i] # None
  BY <1>2, <1>4, <1>6, RunFields DEF RunInv, RunTypes
<1>8. RunTypes' BY <1>2, <1>4, <1>5, <1>7 DEF RunInv, RunTypes, Bridge!Labels
<1>9. OwnIds' /\ Told' /\ \A j \in One : Ran(j)' <=> Ran(j) BY <1>2, CallsStay DEF RunInv, RunTypes
<1>10. Asks'
  <2>1. \A j \in One \ {i} : AskOK(j)' BY <1>2, <1>5, <1>7, AskStays
  <2>2. AskOK(i)'
    <3>1. replies[i] = None BY <1>2 DEF RunInv, Asks, AskOK
    <3>2. QED BY <1>2, <1>5, <1>7, <3>1 DEF AskOK, Has, Bridge!Ev
  <2>3. QED BY <2>1, <2>2 DEF Asks
<1>11. Turn' BY <1>2, <1>4 DEF RunInv, Turn, Over
<1>12. Stands BY <1>2, <1>4, <1>7, <1>9 DEF Stands, Final, Past, Over
<1>13. QED
  BY <1>1, <1>2, <1>3, <1>4, <1>8, <1>9, <1>10, <1>11, <1>12, LoopWrites DEF RunInv, Ends, Over

(* PermissionBridge::answer publishes an answer, and only once: what it    *)
(* refuses leaves the channel and the decision alone.                      *)
LEMMA Forwards ==
  ASSUME RunInv, Bridge!Constants, NEW line \in Bridge!Inputs, Bridge!Answer(line)
  PROVE  RunInv'
<1> PICK i : i = line.subject OBVIOUS
<1> PICK o : o = line.what OBVIOUS
<1> PICK e : e = Bridge!Ev("control.requested", i, o) OBVIOUS
<1> PICK reason : reason = Bridge!Refusal(i, o) OBVIOUS
<1> PICK f : f = Bridge!Ev("control.applied", i, reason) OBVIOUS
<1>1. line.type = "answer" /\ i \in One \cup {None} /\ o \in {"allow", "deny", "other"}
  BY DEF Bridge!Answer, Bridge!Takes, Bridge!Inputs, Bridge!Ev, Bridge!Options
<1>2. /\ loopPc = "control"
      /\ UNCHANGED <<todo, looking, guard, harness, status, channel, claims, calls,
                     receipts, at, id, age>>
      /\ reason # None => Bridge!Appends(<<e, f>>, "child") /\ UNCHANGED <<replies, pending>>
      /\ reason = None =>
            /\ Bridge!Appends(<<e>>, "child")
            /\ \/ /\ loopPc' = "child" /\ replies' = [replies EXCEPT ![i] = o]
                  /\ pending' = [pending EXCEPT ![i].control = o]
               \/ loopPc' # "child" /\ UNCHANGED <<replies, pending>>
  BY <1>1 DEF Bridge!Answer, Bridge!Takes, Bridge!Asked, Bridge!Replied, Bridge!callVars
<1>3. ~Bridge!Finished BY <1>2, NotFinished
<1>4. /\ Bridge!Kept(e) => e \in Entry /\ e.type = "control.requested"
      /\ reason # None => ~Bridge!Kept(f)
  <2>1. Bridge!Kept(e) => e \in Entry
    BY <1>1 DEF Bridge!Kept, Bridge!Ev, Entry, Bridge!Options
  <2>2. reason # None => reason # "ok" BY DEF Bridge!Refusal
  <2>3. QED BY <2>1, <2>2 DEF Bridge!Kept, Bridge!Ev
<1>5. CASE reason # None
  <2>1. /\ late' = late /\ loopPc' \in {"broken", "child"}
        /\ log' \in {log, Put(log, e)}
    <3>1. Put(Put(log, e), f) = Put(log, e) BY <1>4, <1>5 DEF Put
    <3>2. QED BY <1>2, <1>3, <1>5, <3>1, AppendTwo
  <2>2. log' = log \/ (e \in Entry /\ e.type = "control.requested" /\ log' = Append(log, e))
    BY <1>4, <2>1 DEF Put
  <2>3. Grown /\ log' \in Seq(Entry)
    <3>1. CASE log' = log BY <3>1 DEF Grown, RunInv, RunTypes
    <3>2. CASE e \in Entry /\ log' = Append(log, e) BY <3>2, GrownBy
    <3>3. QED BY <2>2, <3>1, <3>2
  <2>4. RunTypes' BY <1>2, <1>5, <2>1, <2>3 DEF RunInv, RunTypes, Bridge!Labels
  <2>5. OwnIds' /\ Told' /\ \A j \in One : Ran(j)' <=> Ran(j)
    BY <1>2, <1>5, CallsStay DEF RunInv, RunTypes
  <2>6. Asks' BY <1>2, <1>5, <2>3, AskStays DEF Asks
  <2>7. Turn' BY <1>2, <1>5, <2>1 DEF RunInv, Turn, Over
  <2>8. Stands BY <1>2, <1>5, <2>5 DEF Stands, Final, Past, Over
  <2>9. QED
    BY <1>2, <1>3, <2>1, <2>2, <2>4, <2>5, <2>6, <2>7, <2>8, LoopWrites DEF RunInv, Ends, Over
<1>6. CASE reason = None
  <2>1. /\ i \in One /\ pending[i] # None /\ pending[i].control = None /\ ~pending[i].answered
        /\ o \in {"allow", "deny"} /\ replies[i] = None
    BY <1>1, <1>6, RunFields DEF Bridge!Constants, Bridge!Refusal, Bridge!Options
  <2>2. Bridge!Kept(e) BY <2>1 DEF Bridge!Kept, Bridge!Ev, Bridge!Options
  <2>3. /\ late' = late
        /\ \/ loopPc' = "broken" /\ log' = log /\ UNCHANGED <<replies, pending>>
           \/ /\ loopPc' = "child" /\ log' = Append(log, e)
              /\ replies' = [replies EXCEPT ![i] = o]
              /\ pending' = [pending EXCEPT ![i].control = o]
    BY <1>2, <1>3, <1>6, <2>2, AppendOne DEF Put
  <2>4. Grown /\ log' \in Seq(Entry) /\ (loopPc' = "child" => \E k \in DOMAIN log' : log'[k] = e)
    BY <1>4, <2>2, <2>3, GrownBy
  <2>5. /\ replies' \in [One -> Bridge!Reply]
        /\ \A j \in One \ {i} : replies'[j] = replies[j] /\ pending'[j] = pending[j]
        /\ \/ UNCHANGED <<replies, pending>>
           \/ /\ replies'[i] = o /\ pending'[i].control = o /\ pending'[i] # None
              /\ pending'[i].answered = pending[i].answered /\ loopPc' = "child"
        /\ pending' \in [One -> Forwarded \cup {None}]
    <3>1. CASE UNCHANGED <<replies, pending>> BY <3>1 DEF RunInv, RunTypes
    <3>2. CASE ~UNCHANGED <<replies, pending>>
      <4>1. /\ replies' = [replies EXCEPT ![i] = o] /\ loopPc' = "child"
            /\ pending' = [pending EXCEPT ![i].control = o]
        BY <2>3, <3>2
      <4>2. /\ replies' \in [One -> Bridge!Reply] /\ replies'[i] = o
            /\ \A j \in One \ {i} : replies'[j] = replies[j]
        BY <2>1, <4>1 DEF RunInv, RunTypes, Bridge!Reply, Bridge!Options
      <4>3. PICK g : g = [pending[i] EXCEPT !.control = o] OBVIOUS
      <4>4. pending[i] \in Forwarded BY <2>1 DEF RunInv, RunTypes
      <4>5. g \in Forwarded /\ g.control = o /\ g.answered = pending[i].answered
        BY <2>1, <4>3, <4>4 DEF Forwarded, Bridge!Reply, Bridge!Options
      <4>6. pending' = [pending EXCEPT ![i] = g] BY <4>1, <4>3
      <4>7. /\ pending'[i] = g /\ pending' \in [One -> Forwarded \cup {None}]
            /\ \A j \in One \ {i} : pending'[j] = pending[j]
        BY <2>1, <4>5, <4>6 DEF RunInv, RunTypes
      <4>8. QED BY <4>1, <4>2, <4>5, <4>7, RunFields
    <3>3. QED BY <3>1, <3>2
  <2>6. RunTypes' BY <1>2, <2>3, <2>4, <2>5 DEF RunInv, RunTypes, Bridge!Labels
  <2>7. \A j \in One : Ran(j)' <=> Ran(j) BY <1>2 DEF Ran
  <2>8. \A c \in Two : at[c] # "idle" => id[c] \in One BY DEF RunInv, OwnIds
  <2>9. \A j \in One : replies[j] # None => replies'[j] = replies[j] BY <2>1, <2>5
  <2>10. OwnIds' BY <1>2, <2>8, <2>9 DEF RunInv, OwnIds
  <2>11. Told'
    <3>1. \A c \in Two : at[c] = "allowed" => replies'[id[c]] = "allow"
      BY <2>8, <2>9, RunFields DEF RunInv, Told
    <3>2. \A j \in One : receipts[j] # None /\ ~receipts[j].timeout => replies[j] # None
      BY DEF RunInv, Told
    <3>3. QED BY <1>2, <2>7, <2>9, <3>1, <3>2 DEF RunInv, Told
  <2>12. Asks'
    <3>1. \A j \in One \ {i} : AskOK(j)' BY <2>4, <2>5, AskStays
    <3>2. CASE UNCHANGED <<replies, pending>> BY <2>4, <3>2, AskStays DEF Asks
    <3>3. CASE ~UNCHANGED <<replies, pending>>
      <4>1. /\ replies'[i] = o /\ pending'[i].control = o /\ pending'[i] # None
            /\ loopPc' = "child"
        BY <2>5, <3>3
      <4>2. Has(Bridge!Ev("decision.requested", i, None)) BY <2>1 DEF RunInv, Asks, AskOK
      <4>3. \E k \in DOMAIN log' : log'[k] = Bridge!Ev("decision.requested", i, None)
        BY <2>4, <4>2 DEF Has, Grown
      <4>4. \E k \in DOMAIN log' : log'[k] = Bridge!Ev("control.requested", i, replies'[i])
        BY <2>4, <4>1
      <4>5. AskOK(i)' BY <4>1, <4>3, <4>4 DEF AskOK, Has, Bridge!Ev
      <4>6. QED BY <3>1, <4>5 DEF Asks
    <3>4. QED BY <3>2, <3>3
  <2>13. Turn' BY <1>2, <2>3 DEF RunInv, Turn, Over
  <2>14. Stands BY <1>2, <2>1, <2>5, <2>7 DEF Stands, Final, Past, Over
  <2>15. QED
    BY <1>2, <1>3, <1>4, <2>2, <2>3, <2>6, <2>10, <2>11, <2>12, <2>13, <2>14, LoopWrites
    DEF RunInv, Ends, Over
<1>7. QED BY <1>5, <1>6

(* Lines that are only reported, and the request of an interrupt, leave    *)
(* nothing in the log that an answer or an end rests on.                   *)
LEMMA Reports ==
  ASSUME RunInv, Bridge!Constants, NEW line \in Bridge!Inputs,
         Bridge!Report(line) \/ Bridge!Interrupt(line)
  PROVE  RunInv'
<1>1. /\ loopPc \in {"control", "signal"}
      /\ UNCHANGED <<todo, looking, pending, guard, harness, status, channel, claims, calls,
                     replies, receipts, at, id, age>>
  BY DEF Bridge!Report, Bridge!Interrupt, Bridge!Takes, Bridge!fileVars, Bridge!callVars
<1>2. ~Bridge!Finished BY <1>1, NotFinished
<1>3. /\ late' = late /\ log' = log /\ loopPc' \in {"child", "interrupting", "broken"}
  <2>1. ASSUME NEW e, NEW l, ~Bridge!Kept(e), Bridge!Appends(<<e>>, l)
        PROVE  late' = late /\ log' = log /\ loopPc' \in {l, "broken"}
    BY <1>2, <2>1, AppendOne DEF Put
  <2>2. ASSUME NEW e, NEW f, NEW l, ~Bridge!Kept(e), ~Bridge!Kept(f), Bridge!Appends(<<e, f>>, l)
        PROVE  late' = late /\ log' = log /\ loopPc' \in {l, "broken"}
    BY <1>2, <2>2, AppendTwo DEF Put
  <2>3. CASE Bridge!Interrupt(line)
    <3> PICK e : e = Bridge!Ev("control.requested", None, "interrupt") OBVIOUS
    <3>1. ~Bridge!Kept(e) BY DEF Bridge!Kept, Bridge!Ev, Bridge!Options
    <3>2. Bridge!Appends(<<e>>, "interrupting") BY <2>3 DEF Bridge!Interrupt
    <3>3. QED BY <2>1, <3>1, <3>2
  <2>4. CASE Bridge!Report(line)
    <3> PICK e : e = Bridge!Asked(line) OBVIOUS
    <3> PICK f : f = Bridge!Replied(line, "unsupported") OBVIOUS
    <3> PICK g : g = Bridge!Ev("capture.refused", None, None) OBVIOUS
    <3> PICK h : h = Bridge!Ev("agent.warning", None, None) OBVIOUS
    <3>1. ~Bridge!Kept(f) /\ ~Bridge!Kept(g) /\ ~Bridge!Kept(h)
      BY DEF Bridge!Kept, Bridge!Ev, Bridge!Replied
    <3>2. line.type = "steer" => ~Bridge!Kept(e)
      BY RunFields DEF Bridge!Inputs, Bridge!Kept, Bridge!Ev, Bridge!Asked, Bridge!Options
    <3>3. \/ line.type = "steer" /\ Bridge!Appends(<<e, f>>, "child")
          \/ Bridge!Appends(<<g>>, "child")
          \/ Bridge!Appends(<<h>>, "child")
      BY <2>4 DEF Bridge!Report, Bridge!Takes
    <3>4. QED BY <2>1, <2>2, <3>1, <3>2, <3>3
  <2>5. QED BY <2>3, <2>4
<1>4. RunTypes' BY <1>1, <1>3 DEF RunInv, RunTypes, Bridge!Labels
<1>5. Turn' BY <1>1, <1>3 DEF RunInv, Turn, Over
<1>6. QED BY <1>1, <1>3, <1>4, <1>5, LoopGoesOn DEF RunInv, Ends, Over, Past

(* The interrupt and the cap trip stop the harness, then write the end.    *)
LEMMA Stops ==
  ASSUME RunInv, Bridge!Constants, Bridge!Interrupted \/ Bridge!CapTrip
  PROVE  RunInv'
<1>1. /\ loopPc \in {"interrupting", "control", "child"} /\ Bridge!KillGroup
      /\ UNCHANGED <<todo, looking, pending, status, channel, claims, calls, replies, receipts,
                     id, age>>
      /\ guard' = (loopPc' = "after")
  BY DEF Bridge!Interrupted, Bridge!CapTrip, Bridge!fileVars
<1>2. ~Bridge!Finished BY <1>1, NotFinished
<1>3. PICK e \in Entry :
        /\ e.type = "run.finished" /\ late' = late
        /\ \/ loopPc' = "broken" /\ log' = log
           \/ loopPc' = "after" /\ log' = Append(log, e)
  <2>1. CASE Bridge!CapTrip
    <3> PICK e : e = Bridge!Ev("run.finished", None, "capped") OBVIOUS
    <3>1. e \in Entry /\ Bridge!Kept(e) /\ e.type = "run.finished"
      BY DEF Entry, Bridge!Ev, Bridge!Kept
    <3>2. Bridge!Appends(<<e>>, "after") BY <2>1 DEF Bridge!CapTrip
    <3>3. QED BY <1>2, <3>1, <3>2, AppendOne DEF Put
  <2>2. CASE Bridge!Interrupted
    <3> PICK e : e = Bridge!Ev("run.finished", None, "interrupted") OBVIOUS
    <3> PICK f : f = Bridge!Ev("control.applied", None, "ok") OBVIOUS
    <3>1. e \in Entry /\ Bridge!Kept(e) /\ e.type = "run.finished"
      BY DEF Entry, Bridge!Ev, Bridge!Kept
    <3>2. ~Bridge!Kept(f) BY DEF Bridge!Ev, Bridge!Kept
    <3>3. Bridge!Appends(<<f, e>>, "after") BY <2>2 DEF Bridge!Interrupted
    <3>4. QED BY <1>2, <3>1, <3>2, <3>3, AppendTwo DEF Put
  <2>3. QED BY <2>1, <2>2
<1>4. Grown /\ log' \in Seq(Entry) BY <1>3, GrownBy
<1>5. /\ harness' \in {"exited", "stopped"} /\ at' \in [Two -> Places]
      /\ \A c \in Two : \/ at'[c] = at[c]
                        \/ at[c] \in {"request", "wait", "acknowledge"} /\ at'[c] = "dead"
  BY <1>1, Killed
<1>6. OwnIds' /\ Told' /\ \A i \in One : Ran(i)' <=> Ran(i) BY <1>1, <1>5, CallsStay
<1>7. RunTypes' BY <1>1, <1>3, <1>4, <1>5 DEF RunInv, RunTypes, Bridge!Labels
<1>8. Asks' BY <1>1, <1>4, AskStays DEF Asks
<1>9. Turn' BY <1>1, <1>3 DEF RunInv, Turn, Over
<1>10. Stands BY <1>1, <1>6 DEF Stands, Final, Past, Over
<1>11. QED BY <1>1, <1>2, <1>3, <1>5, <1>6, <1>7, <1>8, <1>9, <1>10, LoopWrites

(* RunEventGuard finishes the run that nothing else has finished.          *)
LEMMA Finishes ==
  ASSUME RunInv, Bridge!Constants, Bridge!Finish
  PROVE  RunInv'
<1>1. /\ loopPc \in {"finish", "drop"}
      /\ UNCHANGED <<todo, looking, pending, harness, status, channel, claims, calls, replies,
                     receipts, at, id, age>>
  BY DEF Bridge!Finish, Bridge!fileVars, Bridge!callVars
<1>2. Bridge!Finished => guard /\ loopPc = "finish"
  BY <1>1 DEF RunInv, Ends, Bridge!Finished
<1> PICK e : e = Bridge!Ev("run.finished", None, "ended") OBVIOUS
<1>3. e \in Entry /\ e.type = "run.finished" BY DEF Entry, Bridge!Ev
<1>4. /\ late' = late /\ loopPc' \in {"drop", "done"}
      /\ \/ log' = log /\ guard' = guard /\ (loopPc' = "drop" => ~guard)
         \/ ~Bridge!Finished /\ log' = Append(log, e) /\ guard' = TRUE /\ loopPc' = "done"
  BY <1>1, <1>2 DEF Bridge!Finish, Bridge!Goto
<1>5. Grown /\ log' \in Seq(Entry) BY <1>3, <1>4, GrownBy
<1>6. OwnIds' /\ Told' /\ \A i \in One : Ran(i)' <=> Ran(i)
  BY <1>1, CallsStay DEF RunInv, RunTypes
<1>7. RunTypes' BY <1>1, <1>4, <1>5 DEF RunInv, RunTypes, Bridge!Labels
<1>8. Asks' BY <1>1, <1>5, AskStays DEF Asks
<1>9. Turn' BY <1>1, <1>4 DEF RunInv, Turn, Over
<1>10. Stands BY <1>1, <1>4, <1>6 DEF Stands, Final, Past, Over
<1>11. status' \/ loopPc' \in Over => harness' # "running" BY <1>1 DEF RunInv, Ends, Over
<1>12. CASE ~Bridge!Finished
  BY <1>3, <1>4, <1>6, <1>7, <1>8, <1>9, <1>10, <1>11, <1>12, LoopWrites
<1>13. CASE Bridge!Finished
  <2>1. log' = log /\ guard' = guard /\ loopPc' = "done" BY <1>2, <1>4, <1>13
  <2>2. Ends' BY <1>2, <1>4, <1>11, <1>13, <2>1 DEF RunInv, Ends
  <2>3. Records' BY <1>5, <1>10, <2>1, RecordsStay
  <2>4. QED BY <1>6, <1>7, <1>8, <1>9, <2>2, <2>3 DEF RunInv
<1>14. QED BY <1>12, <1>13

(* Two events, one after the other.                                        *)
LEMMA Joined ==
  ASSUME NEW e, NEW f PROVE <<e>> \o <<f>> = <<e, f>>
<1>1. <<e>> \in Seq({e, f}) /\ <<e, f>> \in Seq({e, f}) OBVIOUS
<1>2. <<e>> \o <<f>> = Append(<<e>>, f) BY <1>1, AppendIsConcat
<1>3. Append(<<e>>, f) \in Seq({e, f}) /\ Len(Append(<<e>>, f)) = 2
      /\ Append(<<e>>, f)[1] = e /\ Append(<<e>>, f)[2] = f
  BY <1>1, AppendProperties
<1>4. PICK s \in Seq({e, f}) : s = Append(<<e>>, f) BY <1>3
<1>5. PICK t \in Seq({e, f}) : t = <<e, f>> BY <1>1
<1>6. Len(s) = 2 /\ s[1] = e /\ s[2] = f BY <1>3, <1>4
<1>7. Len(t) = 2 /\ t[1] = e /\ t[2] = f BY <1>5
<1>8. Len(s) = Len(t) /\ \A k \in 1 .. Len(s) : s[k] = t[k] BY <1>6, <1>7
<1>9. s = t BY <1>8, SeqEqual
<1>10. QED BY <1>2, <1>4, <1>5, <1>9

(* complete: the loop answers a decision that is due, with what its call   *)
(* was told or at a time from which on it is told nothing, and says then   *)
(* what became of the answer forwarded for it.                             *)
LEMMA Completes ==
  ASSUME RunInv, Bridge!Constants, NEW i \in One, NEW option \in {"allow", "deny"},
         NEW timeout \in BOOLEAN, Bridge!Complete(i, option, timeout, "resolve"),
         loopPc \in {"resolve", "expiry"}, Due(i), Final(i),
         timeout \/ pending[i].control = option,
         channel # "lost" => (option = "deny" => ~Ran(i)) /\ (option = "allow" => Ran(i)),
         todo' \subseteq todo, i \notin todo',
         UNCHANGED <<guard, harness, status, channel, claims, calls, replies, receipts,
                     at, id, age>>
  PROVE  RunInv'
<1> PICK e : e = Bridge!Ev("decision.answered", i, option) OBVIOUS
<1> PICK f : f = Bridge!Ev("control.applied", i, "ok") OBVIOUS
<1> PICK n : n = Len(log) OBVIOUS
<1>1. e \in Entry /\ f \in Entry /\ Bridge!Kept(e) /\ Bridge!Kept(f)
  BY RunFields DEF Entry, Bridge!Ev, Bridge!Kept
<1>2. PICK g : /\ Bridge!Appends(<<e, g>>, "resolve")
               /\ timeout => ~Bridge!Kept(g)
               /\ ~timeout => g = f
  <2>1. CASE timeout
    <3> PICK g : g = IF pending[i].control # None THEN Bridge!Ev("control.applied", i, "not-live")
                     ELSE Bridge!Ev("agent.warning", i, None) OBVIOUS
    <3>1. ~Bridge!Kept(g) BY DEF Bridge!Ev, Bridge!Kept
    <3>2. Bridge!Appends(<<e>> \o <<g>>, "resolve") BY <2>1 DEF Bridge!Complete
    <3>3. <<e>> \o <<g>> = <<e, g>> BY Joined
    <3>4. QED BY <2>1, <3>1, <3>2, <3>3
  <2>2. CASE ~timeout
    <3>1. pending[i].control # None BY <2>2, RunFields
    <3>2. Bridge!Appends(<<e>> \o <<f>>, "resolve") BY <2>2, <3>1 DEF Bridge!Complete
    <3>3. <<e>> \o <<f>> = <<e, f>> BY Joined
    <3>4. QED BY <2>2, <3>2, <3>3
  <2>3. QED BY <2>1, <2>2
<1>3. ~Bridge!Finished BY NotFinished
<1>4. /\ late' = late
      /\ \/ loopPc' = "broken" /\ log' \in {log, Append(log, e)}
         \/ /\ loopPc' = "resolve"
            /\ log' = IF timeout THEN Append(log, e) ELSE Append(Append(log, e), f)
  BY <1>1, <1>2, <1>3, AppendTwo DEF Put
<1>5. /\ pending' \in [One -> Forwarded \cup {None}] /\ pending'[i] # None
      /\ \A j \in One \ {i} : pending'[j] = pending[j]
      /\ pending'[i].control = pending[i].control
      /\ pending'[i].answered \/ loopPc' = "broken"
  <2>1. pending[i] \in Forwarded BY DEF Due, RunInv, RunTypes
  <2>2. CASE pending' = pending /\ loopPc' # "resolve"
    BY <1>4, <2>2 DEF Due, RunInv, RunTypes
  <2>3. CASE pending' = [pending EXCEPT ![i].answered = TRUE]
    <3> PICK new : new = [pending[i] EXCEPT !.answered = TRUE] OBVIOUS
    <3>1. new \in Forwarded /\ new.control = pending[i].control /\ new.answered
      BY <2>1 DEF Forwarded
    <3>2. pending' = [pending EXCEPT ![i] = new] BY <2>3
    <3>3. pending'[i] = new /\ new # None BY <3>1, <3>2, RunFields DEF RunInv, RunTypes
    <3>4. \A j \in One \ {i} : pending'[j] = pending[j] BY <3>2 DEF RunInv, RunTypes
    <3>5. pending' \in [One -> Forwarded \cup {None}] BY <3>1, <3>2 DEF RunInv, RunTypes
    <3>6. QED BY <3>1, <3>3, <3>4, <3>5
  <2>4. QED BY <2>2, <2>3 DEF Bridge!Complete
<1>6. log \in Seq(Entry) /\ n \in Nat /\ DOMAIN log = 1 .. n BY DEF RunInv, RunTypes
<1>7. /\ log' \in Seq(Entry) /\ Grown
      /\ \A k \in DOMAIN log' :
            \/ k \in DOMAIN log
            \/ k = n + 1 /\ log'[k] = e
            \/ k = n + 2 /\ log'[k] = f /\ n + 1 \in DOMAIN log' /\ log'[n + 1] = e /\ ~timeout
  <2> PICK one : one = Append(log, e) OBVIOUS
  <2> PICK two : two = Append(one, f) OBVIOUS
  <2>1. /\ one \in Seq(Entry) /\ Len(one) = n + 1 /\ one[n + 1] = e
        /\ \A k \in 1 .. n : one[k] = log[k]
    BY <1>1, <1>6, AppendProperties
  <2>2. /\ two \in Seq(Entry) /\ Len(two) = n + 2 /\ two[n + 2] = f
        /\ \A k \in 1 .. n + 1 : two[k] = one[k]
    BY <1>1, <1>6, <2>1, AppendProperties
  <2>3. DOMAIN one = 1 .. n + 1 /\ DOMAIN two = 1 .. n + 2 BY <1>6, <2>1, <2>2
  <2>4. CASE log' = log BY <1>6, <2>4 DEF Grown
  <2>5. CASE log' = one BY <1>6, <2>1, <2>3, <2>5 DEF Grown
  <2>6. CASE log' = two /\ ~timeout BY <1>6, <2>1, <2>2, <2>3, <2>6 DEF Grown
  <2>7. QED BY <1>4, <2>4, <2>5, <2>6
<1>8. RunTypes'
  <2>1. loopPc' \in Bridge!Labels BY <1>4 DEF Bridge!Labels
  <2>2. QED BY <1>5, <1>7, <2>1 DEF RunInv, RunTypes
<1>9. OwnIds' /\ Told' /\ \A j \in One : Ran(j)' <=> Ran(j)
  BY CallsStay DEF RunInv, RunTypes
<1>10. Asks'
  <2>1. \A j \in One \ {i} : AskOK(j)' BY <1>5, <1>7, AskStays
  <2>2. AskOK(i)' BY <1>5, <1>7, AskStays DEF Due
  <2>3. QED BY <2>1, <2>2 DEF Asks
<1>11. Turn'
  <2>1. \A j \in todo' : Due(j)' BY <1>5 DEF RunInv, RunTypes, Turn, Due
  <2>2. channel # "closed" BY DEF RunInv, Turn, Over
  <2>3. QED BY <1>4, <2>1, <2>2 DEF Turn
<1>12. Ends'
  <2>1. \A k \in DOMAIN log : log[k].type # "run.finished" BY <1>3 DEF Bridge!Finished
  <2>2. e.type # "run.finished" /\ f.type # "run.finished" BY DEF Bridge!Ev
  <2>3. \A k \in DOMAIN log' : log'[k].type # "run.finished" BY <1>7, <2>1, <2>2 DEF Grown
  <2>4. QED BY <1>4, <2>3 DEF RunInv, Ends, Over
<1>13. Stands BY <1>4, <1>5, <1>9 DEF Stands, Final, Past, Over, Due
<1>14. Records'
  <2>1. ASSUME NEW k \in DOMAIN log PROVE ~Answers(k, i)
    <3>1. ~AnswerOK(k, i) BY DEF AnswerOK, Due, Over
    <3>2. QED BY <3>1 DEF RunInv, Records
  <2>2. ASSUME NEW j \in One, NEW k \in DOMAIN log', Answers(k, j)'
        PROVE  (k \in DOMAIN log /\ Answers(k, j)) \/ (k = n + 1 /\ j = i /\ log'[k] = e)
    <3>1. CASE k \in DOMAIN log BY <1>7, <1>13, <2>2, <3>1, OldRecords
    <3>2. CASE k = n + 1 /\ log'[k] = e BY <2>2, <3>2 DEF Answers, Bridge!Ev
    <3>3. CASE log'[k] = f BY <2>2, <3>3 DEF Answers, Bridge!Ev
    <3>4. QED BY <1>7, <3>1, <3>2, <3>3
  <2>3. \A j \in One : \A k, l \in DOMAIN log : Answers(k, j) /\ Answers(l, j) => k = l
    BY DEF RunInv, Records
  <2>4. \A j \in One : \A k, l \in DOMAIN log' : Answers(k, j)' /\ Answers(l, j)' => k = l
    BY <2>1, <2>2, <2>3
  <2>5. ASSUME n + 1 \in DOMAIN log', log'[n + 1] = e PROVE AnswerOK(n + 1, i)'
    <3>1. Has(Bridge!Ev("decision.requested", i, None)) BY DEF RunInv, Asks, AskOK, Due
    <3>2. \E j \in DOMAIN log' : j < n + 1 /\ log'[j] = Bridge!Ev("decision.requested", i, None)
      BY <1>6, <1>7, <3>1 DEF Has, Grown
    <3>3. Final(i)' /\ (Ran(i)' <=> Ran(i)) BY <1>13 DEF Stands
    <3>4. log'[n + 1].what = option BY <2>5 DEF Bridge!Ev
    <3>5. QED BY <1>5, <3>2, <3>3, <3>4 DEF AnswerOK, Bridge!Ev
  <2>6. \A j \in One : \A k \in DOMAIN log' : Answers(k, j)' => AnswerOK(k, j)'
    BY <1>7, <1>13, <2>2, <2>5, OldRecords
  <2>7. ASSUME NEW j \in One, NEW k \in DOMAIN log', Applies(k, j)' PROVE AppliedOK(k, j)'
    <3>1. CASE k \in DOMAIN log BY <1>7, <1>13, <2>7, <3>1, OldRecords
    <3>2. CASE log'[k] = e BY <2>7, <3>2 DEF Applies, Bridge!Ev
    <3>3. CASE k = n + 2 /\ log'[k] = f /\ n + 1 \in DOMAIN log' /\ log'[n + 1] = e /\ ~timeout
      <4>1. j = i BY <2>7, <3>3 DEF Applies, Bridge!Ev
      <4>2. replies[i] = option /\ option # None BY <3>3, RunFields DEF RunInv, Asks, AskOK, Due
      <4>3. Has(Bridge!Ev("control.requested", i, option)) BY <4>2 DEF RunInv, Asks, AskOK
      <4>4. \E l \in 1 .. n : log'[l] = Bridge!Ev("control.requested", i, option)
        BY <1>6, <1>7, <4>3 DEF Has, Grown
      <4>5. k - 1 = n + 1 /\ k - 2 = n BY <1>6, <3>3
      <4>6. Answers(n + 1, i)' /\ log'[n + 1].what = option BY <3>3 DEF Answers, Bridge!Ev
      <4>7. QED BY <3>3, <4>1, <4>4, <4>5, <4>6 DEF AppliedOK, Answers, Bridge!Ev
    <3>4. QED BY <1>7, <3>1, <3>2, <3>3
  <2>8. ASSUME NEW k \in DOMAIN log', log'[k].type = "decision.answered"
        PROVE  log'[k].subject \in One
    <3>1. CASE k \in DOMAIN log BY <1>7, <2>8, <3>1 DEF Grown, RunInv, Records
    <3>2. CASE log'[k] \in {e, f} BY <2>8, <3>2 DEF Bridge!Ev
    <3>3. QED BY <1>7, <3>1, <3>2
  <2>9. QED BY <2>4, <2>6, <2>7, <2>8 DEF Records
<1>15. QED BY <1>8, <1>9, <1>10, <1>11, <1>12, <1>14 DEF RunInv

(* PermissionBridge::poll believes a receipt that agrees with what was     *)
(* forwarded, and looks at the clock when there is none.                   *)
LEMMA ReadsReceipt ==
  ASSUME RunInv, Bridge!Constants, NEW i \in One, Bridge!ReadReceipt(i)
  PROVE  RunInv'
<1>1. /\ loopPc = "resolve" /\ i \in todo /\ todo' = todo \ {i} /\ todo' \subseteq todo
      /\ UNCHANGED <<guard, harness, status, channel, claims, calls, replies, receipts,
                     at, id, age>>
  BY DEF Bridge!ReadReceipt, Bridge!fileVars, Bridge!callVars
<1>2. Due(i) BY <1>1 DEF RunInv, Turn
<1>3. CASE Bridge!Believes(i)
  <2>1. /\ receipts[i] # None /\ receipts[i] \in Receipted
        /\ receipts[i].timeout \/ pending[i].control = receipts[i].option
    BY <1>3 DEF Bridge!Believes, RunInv, RunTypes
  <2> PICK option : option = receipts[i].option OBVIOUS
  <2> PICK timeout : timeout = receipts[i].timeout OBVIOUS
  <2>2. option \in {"allow", "deny"} /\ timeout \in BOOLEAN
    BY <2>1, RunFields DEF RunInv, Told
  <2>3. Bridge!Complete(i, option, timeout, "resolve") BY <1>3 DEF Bridge!ReadReceipt
  <2>4. (option = "deny" => ~Ran(i)) /\ (option = "allow" => Ran(i))
    <3>1. \A c \in Two : at[c] = "allowed" /\ id[c] = i => option = "allow" BY DEF RunInv, Told
    <3>2. QED BY <2>1, <3>1 DEF RunInv, Told, Ran
  <2>5. QED BY <1>1, <1>2, <2>1, <2>2, <2>3, <2>4, Completes DEF Final
<1>4. CASE ~Bridge!Believes(i)
  <2>1. loopPc' = "expiry" /\ looking' = i /\ UNCHANGED <<log, late, pending>>
    BY <1>4 DEF Bridge!ReadReceipt, Bridge!Goto
  <2>2. channel # "lost" => ~Ran(i)
    <3>1. SUFFICES ASSUME NEW c \in Two, at[c] = "allowed", id[c] = i PROVE channel = "lost"
      BY DEF Ran
    <3>2. receipts[i] # None /\ receipts[i].option = "allow" /\ replies[i] = "allow"
      <4>1. receipts[i] = [option |-> "allow", timeout |-> FALSE] /\ replies[i] = "allow"
        BY <3>1 DEF RunInv, Told
      <4>2. [option |-> "allow", timeout |-> FALSE] \in Receipted
        BY DEF Receipted, Bridge!Reply, Bridge!Options
      <4>3. QED BY <4>1, <4>2, RunFields
    <3>3. pending[i].control = "allow" BY <1>2, <3>2 DEF Due, RunInv, Asks, AskOK
    <3>4. channel # "open" BY <1>4, <3>2, <3>3 DEF Bridge!Believes, Bridge!Open
    <3>5. channel # "closed" BY <1>1 DEF RunInv, Turn, Over
    <3>6. QED BY <3>4, <3>5 DEF RunInv, RunTypes
  <2>3. RunTypes' BY <1>1, <2>1 DEF RunInv, RunTypes, Bridge!Labels
  <2>4. ~Ran(i) => ~Ran(i)' BY <1>1 DEF Ran
  <2>5. Turn'
    <3>1. \A j \in todo' : Due(j)' BY <1>1, <2>1 DEF RunInv, Turn, Due
    <3>2. looking' \in One /\ Due(looking)' /\ looking' \notin todo' BY <1>1, <1>2, <2>1 DEF Due
    <3>3. channel' # "lost" => ~Ran(looking)' BY <1>1, <2>1, <2>2 DEF Ran
    <3>4. channel' # "closed" BY <1>1 DEF RunInv, Turn, Over
    <3>5. QED BY <3>1, <3>2, <3>3, <3>4 DEF Turn
  <2>6. QED BY <1>1, <2>1, <2>3, <2>5, LoopGoesOn DEF RunInv, Ends, Over, Past
<1>5. QED BY <1>3, <1>4

(* Without a receipt the decision is denied once its time is up or the     *)
(* channel gone.                                                           *)
LEMMA ChecksExpiry ==
  ASSUME RunInv, Bridge!Constants, Bridge!CheckExpiry
  PROVE  RunInv'
<1>1. /\ loopPc = "expiry" /\ looking' = None
      /\ UNCHANGED <<todo, guard, harness, status, channel, claims, calls, replies, receipts,
                     at, id, age>>
  BY DEF Bridge!CheckExpiry, Bridge!fileVars, Bridge!callVars
<1> PICK i : i = looking OBVIOUS
<1>2. i \in One /\ Due(i) /\ i \notin todo /\ channel # "closed"
  BY <1>1 DEF RunInv, Turn, Over
<1>3. CASE age[i] = 2 \/ ~Bridge!Open
  <2>1. Bridge!Complete(i, "deny", TRUE, "resolve") BY <1>3 DEF Bridge!CheckExpiry
  <2>2. Final(i) BY <1>3 DEF Final, Bridge!Open
  <2>3. channel # "lost" => ~Ran(i)
    <3>1. channel # "lost" => age[i] = 2 BY <1>2, <1>3 DEF Bridge!Open, RunInv, RunTypes
    <3>2. QED BY <1>1, <3>1 DEF RunInv, Turn
  <2>4. QED BY <1>1, <1>2, <2>1, <2>2, <2>3, Completes
<1>4. CASE ~(age[i] = 2 \/ ~Bridge!Open)
  <2>1. loopPc' = "resolve" /\ UNCHANGED <<log, late, pending>>
    BY <1>4 DEF Bridge!CheckExpiry, Bridge!Goto
  <2>2. RunTypes' BY <1>1, <2>1 DEF RunInv, RunTypes, Bridge!Labels
  <2>3. Turn' BY <1>1, <1>2, <2>1 DEF RunInv, Turn, Due
  <2>4. QED BY <1>1, <2>1, <2>2, <2>3, LoopGoesOn DEF RunInv, Ends, Over, Past
<1>5. QED BY <1>3, <1>4

(* The invariant holds of a run that has just started.                     *)
LEMMA RunInitial ==
  ASSUME Bridge!Constants, Bridge!Init
  PROVE  RunInv
<1> PICK e : e = Bridge!Ev("run.started", None, None) OBVIOUS
<1>1. e \in Entry /\ log = <<e>> BY DEF Bridge!Init, Entry, Bridge!Ev
<1>2. log \in Seq(Entry) /\ Len(log) = 1 /\ log[1] = e /\ DOMAIN log = {1} BY <1>1
<1>3. RunTypes
  <2>1. loopPc \in Bridge!Labels BY DEF Bridge!Init, Bridge!Labels
  <2>2. /\ pending \in [One -> Forwarded \cup {None}] /\ replies \in [One -> Bridge!Reply]
        /\ receipts \in [One -> Receipted \cup {None}]
    BY DEF Bridge!Init, Bridge!Reply
  <2>3. /\ harness \in {"running", "exited", "stopped"} /\ guard \in BOOLEAN /\ status \in BOOLEAN
        /\ channel \in {"open", "lost", "closed"} /\ todo \subseteq One
        /\ calls \subseteq claims /\ claims \subseteq One
    BY DEF Bridge!Init
  <2>4. at \in [Two -> Places] /\ id \in [Two -> One \cup {None}] /\ age \in [One -> 0 .. 2]
    BY DEF Bridge!Init, Places
  <2>5. QED BY <1>2, <2>1, <2>2, <2>3, <2>4 DEF RunTypes
<1>4. Ends BY <1>2 DEF Bridge!Init, Ends, Over, Bridge!Ev
<1>5. OwnIds BY DEF Bridge!Init, OwnIds, Holding
<1>6. Told BY DEF Bridge!Init, Told
<1>7. Asks BY DEF Bridge!Init, Asks, AskOK
<1>8. Turn BY DEF Bridge!Init, Turn
<1>9. Records BY <1>2 DEF Records, Answers, Applies, Bridge!Ev
<1>10. QED BY <1>3, <1>4, <1>5, <1>6, <1>7, <1>8, <1>9 DEF RunInv

(* It is kept by every step of the run.                                    *)
LEMMA RunStep ==
  ASSUME RunInv, Bridge!Constants, Bridge!Next
  PROVE  RunInv'
<1>1. ASSUME NEW c \in Two, Bridge!CallStep(c) \/ \E i \in One : Bridge!Claim(c, i) PROVE RunInv'
  BY <1>1, CallAsks, CallEnds DEF Bridge!CallStep
<1>2. CASE (\E i \in One : Bridge!Tick(i)) \/ Bridge!HarnessExits \/ Bridge!LoseChannel
  BY <1>2, TimePasses
<1>3. CASE Bridge!Loop
  <2>1. ASSUME NEW i \in One, Bridge!Register(i) \/ Bridge!ReadReceipt(i) PROVE RunInv'
    BY <2>1, Registers, ReadsReceipt
  <2>2. ASSUME NEW line \in Bridge!Inputs,
               Bridge!Answer(line) \/ Bridge!Report(line) \/ Bridge!Interrupt(line)
        PROVE  RunInv'
    BY <2>2, Forwards, Reports
  <2>3. CASE \/ Bridge!Registered \/ Bridge!Resolved \/ Bridge!NoLine \/ Bridge!SeeExit
             \/ Bridge!CheckSignal \/ Bridge!Drain \/ Bridge!Leave
             \/ Bridge!StopHarness \/ Bridge!CloseChannel
    BY <2>3, LoopTurns
  <2>4. QED BY <1>3, <2>1, <2>2, <2>3, ChecksExpiry, Stops, Finishes DEF Bridge!Loop
<1>4. QED BY <1>1, <1>2, <1>3, Stops DEF Bridge!Next

(* A set of numbers without two of them has one at most.                   *)
LEMMA AtMostOne ==
  ASSUME NEW S, \A x, y \in S : x = y PROVE Cardinality(S) <= 1
<1>1. CASE S = {} BY <1>1, FS_EmptySet
<1>2. CASE S # {}
  <2>1. PICK x : x \in S BY <1>2
  <2>2. S = {x} BY <2>1
  <2>3. Cardinality({x}) = 1 BY FS_Singleton
  <2>4. QED BY <2>2, <2>3
<1>3. QED BY <1>1, <1>2

(* It carries what the runs check of a run.                                *)
LEMMA RunPromises ==
  ASSUME RunInv, Bridge!Constants
  PROVE  /\ Bridge!OneTerminalEvent
         /\ Bridge!AllowedByAnswer /\ Bridge!RecordAgrees /\ Bridge!AnsweredOnce
<1>1. Bridge!OneTerminalEvent
  BY DEF RunInv, RunTypes, Ends, Over, Bridge!OneTerminalEvent, Bridge!Finished
<1>2. Bridge!AllowedByAnswer
  <2>1. ASSUME NEW c \in Two, at[c] = "allowed"
        PROVE  \E k \in DOMAIN log : log[k] = Bridge!Ev("control.requested", id[c], "allow")
    <3>1. id[c] \in One /\ replies[id[c]] = "allow" BY <2>1 DEF RunInv, OwnIds, Told
    <3>2. QED BY <3>1, RunFields DEF RunInv, Asks, AskOK, Has
  <2>2. QED BY <2>1 DEF Bridge!AllowedByAnswer, RunInv, OwnIds, Holding
<1>3. Bridge!RecordAgrees
  <2>1. ASSUME NEW k \in DOMAIN log, log[k].type = "decision.answered", channel # "lost"
        PROVE  /\ log[k].what = "deny" => \A c \in Two : id[c] = log[k].subject => at[c] # "allowed"
               /\ log[k].what = "allow" =>
                     \E c \in Two : id[c] = log[k].subject /\ at[c] = "allowed"
    <3> PICK i \in One : i = log[k].subject BY <2>1 DEF RunInv, Records
    <3>1. AnswerOK(k, i) BY <2>1 DEF RunInv, Records, Answers
    <3>2. QED BY <2>1, <3>1 DEF AnswerOK, Ran
  <2>2. QED BY <2>1 DEF Bridge!RecordAgrees
<1>4. Bridge!AnsweredOnce
  <2> SUFFICES ASSUME NEW i \in One
      PROVE  LET answers == {k \in DOMAIN log :
                               log[k].type = "decision.answered" /\ log[k].subject = i}
                 applied == Bridge!Positions(Bridge!Ev("control.applied", i, "ok"))
             IN  /\ Cardinality(answers) <= 1 /\ Cardinality(applied) <= 1
                 /\ \A k \in answers :
                       \E j \in Bridge!Positions(Bridge!Ev("decision.requested", i, None)) : j < k
                 /\ \A k \in applied :
                       /\ k - 1 \in answers
                       /\ \E j \in 1 .. k - 2 :
                             log[j] = Bridge!Ev("control.requested", i, log[k - 1].what)
    BY DEF Bridge!AnsweredOnce, Bridge!Cardinality, Cardinality
  <2> DEFINE answers == {k \in DOMAIN log : log[k].type = "decision.answered" /\ log[k].subject = i}
             applied == Bridge!Positions(Bridge!Ev("control.applied", i, "ok"))
  <2>1. \A k \in answers : AnswerOK(k, i) BY DEF RunInv, Records, Answers
  <2>2. \A k \in applied : AppliedOK(k, i) BY DEF RunInv, Records, Applies, Bridge!Positions
  <2>3. \A j, k \in answers : j = k BY DEF RunInv, Records, Answers
  <2>4. \A k \in applied : k - 1 \in answers BY <2>2 DEF AppliedOK, Answers
  <2>5. \A j, k \in applied : j = k
    <3>1. \A k \in applied : k \in Int BY DEF RunInv, RunTypes, Bridge!Positions
    <3>2. QED BY <2>3, <2>4, <3>1
  <2>6. Cardinality(answers) <= 1 /\ Cardinality(applied) <= 1 BY <2>3, <2>5, AtMostOne
  <2>7. \A k \in answers :
          \E j \in Bridge!Positions(Bridge!Ev("decision.requested", i, None)) : j < k
    BY <2>1 DEF AnswerOK, Bridge!Positions
  <2>8. \A k \in applied : \E j \in 1 .. k - 2 :
          log[j] = Bridge!Ev("control.requested", i, log[k - 1].what)
    BY <2>2 DEF AppliedOK
  <2>9. QED BY <2>4, <2>6, <2>7, <2>8
<1>5. QED BY <1>1, <1>2, <1>3, <1>4

(* It holds always, whichever component of MCRecords moves.                *)
LEMMA RunStays == MCSpec => []RunInv
<1>1. Bridge!Constants BY RunConstants
<1>2. MCInit => RunInv BY <1>1, RunInitial DEF MCInit
<1>3. ASSUME RunInv, [MCNext]_<<moving, vars, logVars, runVars, capVars, sweepVars>>
      PROVE  RunInv'
  <2>1. CASE UNCHANGED runVars
    BY <1>3, <2>1
    DEF runVars, RunInv, RunTypes, Ends, OwnIds, Told, Asks, AskOK, Has, Turn, Due, Ran, Final,
        Records, Answers, Applies, AnswerOK, AppliedOK, Bridge!Ev
  <2>2. CASE Bridge!Next BY <1>1, <1>3, <2>2, RunStep
  <2>3. QED BY <1>3, <2>1, <2>2 DEF MCNext
<1>4. QED BY <1>2, <1>3, PTL DEF MCSpec

(* "Nothing is emitted after run.finished" (docs/pass-control.md): of the  *)
(* interrupt, the cap trip, the end of the pass and the drop of its guard, *)
(* one writes the end, after the harness stopped, and no append finds the  *)
(* run finished (pass.rs), whatever appends fail.                          *)
THEOREM RunEndsOnce == MCSpec => []OneTerminalEvent
<1>1. RunInv => OneTerminalEvent
  BY RunConstants, RunPromises DEF OneTerminalEvent
<1>2. QED BY <1>1, RunStays, PTL

(* A call runs only on an answer the log has as requested, one answer      *)
(* allows one call, the log never says otherwise than the call was told,   *)
(* and a decision is answered, as an answer to it is applied, once and in  *)
(* that order (permission_bridge.rs), for any number of calls and of ids,  *)
(* by the two clocks of call and loop, when nothing pauses between a check *)
(* and what rests on it.                                                   *)
THEOREM RecordIsTrue == MCSpec => []AnsweredAsRecorded
<1>1. RunInv => AnsweredAsRecorded
  BY RunConstants, RunPromises DEF AnsweredAsRecorded
<1>2. QED BY <1>1, RunStays, PTL
--------------------------------------------------------------------------------
(* The variables of MCRecords.                                             *)
mcVars == <<moving, vars, logVars, runVars, capVars, sweepVars>>

(* The journal of appends that end before another begins is the same       *)
(* journal, with fewer steps.                                              *)
LEMMA SerialSame ==
  /\ [Serial!Next]_(Serial!vars) => [Proceeds]_vars
  /\ Base /\ [Serial!Next]_(Serial!vars) => Separate
  /\ EventsNumbered /\ RowHasEvent => Serial!EventsNumbered /\ Serial!RowHasEvent
<1> USE DEF Serial!vars, Serial!Begin, Serial!ReadJournal, Serial!AppendEvent, Serial!AppendRow,
    Serial!WriteStops, Serial!Die, Serial!Next, Serial!Finish
<1>1. [Serial!Next]_(Serial!vars) => [Proceeds]_vars
  BY ZenonT(60)
  DEF vars, Proceeds, Starts, ReadJournal, AppendEvent, AppendRow, WriteStops, Die, Finish,
      Appending, Ending, UnderWay, Says, ActiveRun, RunOf, Readable, OfRun, NextSeq, After,
      Later, Parts, Torn, Serial!Appending, Serial!Ending, Serial!UnderWay, Serial!Says,
      Serial!ActiveRun, Serial!RunOf, Serial!Readable, Serial!OfRun, Serial!NextSeq,
      Serial!After, Serial!Later, Serial!Parts, Serial!Torn
<1>2. ASSUME Base, [Serial!Next]_(Serial!vars) PROVE Separate
  BY <1>2 DEF Base, TypeOK, Separate
<1>3. EventsNumbered /\ RowHasEvent => Serial!EventsNumbered /\ Serial!RowHasEvent
  BY Zenon DEF EventsNumbered, RowHasEvent, Run, OfRun, Torn, Serial!EventsNumbered,
     Serial!RowHasEvent, Serial!Run, Serial!OfRun, Serial!Torn
<1>4. QED BY <1>1, <1>2, <1>3

(* Of the records, the journal's invariants.                               *)
JournalInv == IInv /\ (Apart = TRUE \/ moving = "serial" => AInv)

(* It holds always, whichever component of MCRecords moves.                *)
LEMMA JournalStays ==
  ASSUME WholeLines = TRUE, OneAtATime = TRUE
  PROVE  MCSpec => []JournalInv
<1>1. Constants BY RowConstants
<1>2. MCInit => JournalInv BY <1>1, Initial DEF MCInit, JournalInv
<1>3. ASSUME JournalInv, [MCNext]_mcVars PROVE JournalInv'
  <2>1. UNCHANGED moving BY <1>3 DEF MCNext, mcVars
  <2>2. \/ [Next]_vars /\ moving = "rows"
        \/ [Serial!Next]_(Serial!vars) /\ moving = "serial"
        \/ UNCHANGED vars
    BY <1>3 DEF MCNext, mcVars
  <2>3. [Proceeds]_vars BY <2>2, Proceeding, SerialSame
  <2>4. Apart = TRUE \/ moving = "serial" => Separate
    <3>1. CASE UNCHANGED vars BY <3>1 DEF vars, Separate
    <3>2. QED BY <1>3, <2>2, <3>1, Proceeding, SerialSame DEF JournalInv, IInv
  <2>5. QED BY <1>1, <1>3, <2>1, <2>3, <2>4, IInvStep, AInvStep DEF JournalInv
<1>4. QED BY <1>2, <1>3, PTL DEF MCSpec, mcVars

(* The events of the records are their pass's and numbered without a gap,  *)
(* however appends overlap, and one by one and before their rows when they *)
(* do not (event_store.rs append_event_at).                                *)
THEOREM RecordsKept ==
  ASSUME WholeLines = TRUE, OneAtATime = TRUE
  PROVE  MCSpec => []EventsKept
<1>1. JournalInv => EventsKept
  BY JournalPromises DEF JournalInv, EventsKept
<1>2. QED BY <1>1, JournalStays, PTL

--------------------------------------------------------------------------------
(* The sweep in its three instances, by the theorems about any instance    *)
(* (LeaseFileProofs): no process wants a lease file there.                 *)
OfContend == INSTANCE LeaseFileProofs WITH
    Proc <- {}, Mortal <- {}, NoLease <- 0, Unreadable <- 1, NoProc <- 0, TTL <- 1, MaxTime <- 0,
    Renewable <- TRUE, Identified <- TRUE, ProcReadable <- TRUE, WritesFail <- TRUE,
    slept <- now, lease <- now, after <- now, t <- now, s <- now, mine <- now, alive <- now,
    Sweeper <- Two, Repo <- One, Kinds <- AllKinds, Desk <- FALSE, Crosses <- FALSE,
    Closers <- FALSE, Window <- FALSE, MaxAge <- 1, MaxClock <- 1, MaxRev <- 2, MaxFaults <- 1,
    held <- sweepLease, place <- sweepPc, job <- sweepJob, faults <- sweepFaults
OfCarry == INSTANCE LeaseFileProofs WITH
    Proc <- {}, Mortal <- {}, NoLease <- 0, Unreadable <- 1, NoProc <- 0, TTL <- 1, MaxTime <- 0,
    Renewable <- TRUE, Identified <- TRUE, ProcReadable <- TRUE, WritesFail <- TRUE,
    slept <- now, lease <- now, after <- now, t <- now, s <- now, mine <- now, alive <- now,
    Sweeper <- One, Repo <- Two, Kinds <- AllKinds, Desk <- FALSE, Crosses <- FALSE,
    Closers <- FALSE, Window <- FALSE, MaxAge <- 1, MaxClock <- 1, MaxRev <- 2, MaxFaults <- 1,
    held <- sweepLease, place <- sweepPc, job <- sweepJob, faults <- sweepFaults
OfDecide == INSTANCE LeaseFileProofs WITH
    Proc <- {}, Mortal <- {}, NoLease <- 0, Unreadable <- 1, NoProc <- 0, TTL <- 1, MaxTime <- 0,
    Renewable <- TRUE, Identified <- TRUE, ProcReadable <- TRUE, WritesFail <- TRUE,
    slept <- now, lease <- now, after <- now, t <- now, s <- now, mine <- now, alive <- now,
    Sweeper <- One, Repo <- One, Kinds <- {"full", "selected"}, Desk <- TRUE, Crosses <- FALSE,
    Closers <- TRUE, Window <- FALSE, MaxAge <- 1, MaxClock <- 0, MaxRev <- 2, MaxFaults <- 1,
    held <- sweepLease, place <- sweepPc, job <- sweepJob, faults <- sweepFaults

(* Two sweepers contend for the lease: that instance is the one the        *)
(* theorems are about,                                                     *)
LEMMA ContendSame ==
  /\ OfContend!Sound
  /\ Contend!Init => OfContend!Sw!Init
  /\ OfContend!Sw!TypeOK => Contend!TypeOK
  /\ OfContend!Sw!AttentionKept => Contend!AttentionKept
  /\ OfContend!Sw!RecordedOnce => Contend!RecordedOnce
  /\ OfContend!Sw!FreshReuse => Contend!FreshReuse
BY SweepConstants, ZenonT(60)
   DEF SweepConstants, OfContend!Sound, Contend!fileVars, OfContend!Sw!fileVars,
       Contend!deskVars, OfContend!Sw!deskVars,
       Contend!sweepVars, OfContend!Sw!sweepVars, Contend!Rows, OfContend!Sw!Rows,
       Contend!JobKinds, OfContend!Sw!JobKinds, Contend!Gen, OfContend!Sw!Gen, Contend!Constants,
       OfContend!Sw!Constants, Contend!Init, OfContend!Sw!Init, Contend!Goto, OfContend!Sw!Goto,
       Contend!Leave, OfContend!Sw!Leave, Contend!Fresh, OfContend!Sw!Fresh, Contend!Matched,
       OfContend!Sw!Matched, Contend!Reusable, OfContend!Sw!Reusable, Contend!Reuse,
       OfContend!Sw!Reuse, Contend!Verbs, OfContend!Sw!Verbs, Contend!Generations,
       OfContend!Sw!Generations, Contend!TypeOK, OfContend!Sw!TypeOK, Contend!AttentionKept,
       OfContend!Sw!AttentionKept, Contend!RecordedOnce, OfContend!Sw!RecordedOnce,
       Contend!FreshReuse, OfContend!Sw!FreshReuse

(* one sweeper carries repositories along,                                 *)
LEMMA CarrySame ==
  /\ OfCarry!Sound
  /\ Carry!Init => OfCarry!Sw!Init
  /\ OfCarry!Sw!TypeOK => Carry!TypeOK
  /\ OfCarry!Sw!AttentionKept => Carry!AttentionKept
  /\ OfCarry!Sw!RecordedOnce => Carry!RecordedOnce
  /\ OfCarry!Sw!FreshReuse => Carry!FreshReuse
BY SweepConstants, ZenonT(60)
   DEF SweepConstants, OfCarry!Sound, Carry!fileVars, OfCarry!Sw!fileVars, Carry!deskVars,
       OfCarry!Sw!deskVars, Carry!sweepVars,
       OfCarry!Sw!sweepVars, Carry!Rows, OfCarry!Sw!Rows, Carry!JobKinds, OfCarry!Sw!JobKinds,
       Carry!Gen, OfCarry!Sw!Gen, Carry!Constants, OfCarry!Sw!Constants, Carry!Init,
       OfCarry!Sw!Init, Carry!Goto, OfCarry!Sw!Goto, Carry!Leave, OfCarry!Sw!Leave, Carry!Fresh,
       OfCarry!Sw!Fresh, Carry!Matched, OfCarry!Sw!Matched, Carry!Reusable, OfCarry!Sw!Reusable,
       Carry!Reuse, OfCarry!Sw!Reuse, Carry!Verbs, OfCarry!Sw!Verbs, Carry!Generations,
       OfCarry!Sw!Generations, Carry!TypeOK, OfCarry!Sw!TypeOK, Carry!AttentionKept,
       OfCarry!Sw!AttentionKept, Carry!RecordedOnce, OfCarry!Sw!RecordedOnce, Carry!FreshReuse,
       OfCarry!Sw!FreshReuse

(* and one sweeps while the desk decides and pull requests shadow.         *)
LEMMA DecideSame ==
  /\ OfDecide!Sound
  /\ Decide!Init => OfDecide!Sw!Init
  /\ OfDecide!Sw!TypeOK => Decide!TypeOK
  /\ OfDecide!Sw!AttentionKept => Decide!AttentionKept
  /\ OfDecide!Sw!AnswerStays => Decide!AnswerStays
  /\ OfDecide!Sw!RecordedOnce => Decide!RecordedOnce
BY SweepConstants, ZenonT(60)
   DEF SweepConstants, OfDecide!Sound, Decide!fileVars, OfDecide!Sw!fileVars, Decide!deskVars,
       OfDecide!Sw!deskVars,
       Decide!sweepVars, OfDecide!Sw!sweepVars, Decide!Rows, OfDecide!Sw!Rows, Decide!JobKinds,
       OfDecide!Sw!JobKinds, Decide!Gen, OfDecide!Sw!Gen, Decide!Constants, OfDecide!Sw!Constants,
       Decide!Init, OfDecide!Sw!Init, Decide!Goto, OfDecide!Sw!Goto, Decide!Leave,
       OfDecide!Sw!Leave, Decide!Fresh, OfDecide!Sw!Fresh, Decide!Matched, OfDecide!Sw!Matched,
       Decide!Reusable, OfDecide!Sw!Reusable, Decide!Reuse, OfDecide!Sw!Reuse, Decide!Verbs,
       OfDecide!Sw!Verbs, Decide!Generations, OfDecide!Sw!Generations, Decide!TypeOK,
       OfDecide!Sw!TypeOK, Decide!AttentionKept, OfDecide!Sw!AttentionKept, Decide!AnswerStays,
       OfDecide!Sw!AnswerStays, Decide!RecordedOnce, OfDecide!Sw!RecordedOnce

(* Its steps are the contending sweepers',                                 *)
LEMMA ContendMoves == [Contend!Next]_(sweepVars) => [OfContend!Sw!Next]_(OfContend!Sw!sweepVars)
<1>1. ASSUME NEW p \in Two
      PROVE  Contend!Commit(p) => OfContend!Sw!Commit(p)
  BY ZenonT(60)
     DEF Contend!fileVars, OfContend!Sw!fileVars, Contend!deskVars, OfContend!Sw!deskVars,
         Contend!sweepVars, OfContend!Sw!sweepVars, Contend!Rows, OfContend!Sw!Rows,
         Contend!JobKinds, OfContend!Sw!JobKinds, Contend!Gen, OfContend!Sw!Gen, Contend!Fault,
         OfContend!Sw!Fault, Contend!Reading, OfContend!Sw!Reading, Contend!Goto,
         OfContend!Sw!Goto,
         Contend!Committing, OfContend!Sw!Committing, Contend!Leave, OfContend!Sw!Leave,
         Contend!Carried, OfContend!Sw!Carried, Contend!Live, OfContend!Sw!Live, Contend!Fresh,
         OfContend!Sw!Fresh, Contend!Matched, OfContend!Sw!Matched, Contend!Reusable,
         OfContend!Sw!Reusable, Contend!Verbs, OfContend!Sw!Verbs, Contend!Event,
         OfContend!Sw!Event, Contend!Entry, OfContend!Sw!Entry, Contend!Dropped,
         OfContend!Sw!Dropped, Contend!Reconciled, OfContend!Sw!Reconciled, Contend!GenerationOf,
         OfContend!Sw!GenerationOf, Contend!CanCarry, OfContend!Sw!CanCarry, Contend!Job,
         OfContend!Sw!Job, Contend!Confirm, OfContend!Sw!Confirm, Contend!EmitEvent,
         OfContend!Sw!EmitEvent, Contend!AppendFact, OfContend!Sw!AppendFact, Contend!Emitted,
         OfContend!Sw!Emitted, Contend!AppendMerge, OfContend!Sw!AppendMerge, Contend!WriteQueue,
         OfContend!Sw!WriteQueue, Contend!WriteSnapshot, OfContend!Sw!WriteSnapshot,
         Contend!WriteState, OfContend!Sw!WriteState, Contend!Commit, OfContend!Sw!Commit
<1>2. ASSUME NEW p \in Two
      PROVE  Contend!Analyze(p) => OfContend!Sw!Analyze(p)
  BY ZenonT(60)
     DEF Contend!fileVars, OfContend!Sw!fileVars, Contend!deskVars, OfContend!Sw!deskVars,
         Contend!sweepVars, OfContend!Sw!sweepVars, Contend!Rows, OfContend!Sw!Rows,
         Contend!JobKinds, OfContend!Sw!JobKinds, Contend!Gen, OfContend!Sw!Gen, Contend!Fault,
         OfContend!Sw!Fault, Contend!Reading, OfContend!Sw!Reading, Contend!Goto,
         OfContend!Sw!Goto,
         Contend!Committing, OfContend!Sw!Committing, Contend!Leave, OfContend!Sw!Leave,
         Contend!Carried, OfContend!Sw!Carried, Contend!Live, OfContend!Sw!Live, Contend!Fresh,
         OfContend!Sw!Fresh, Contend!Matched, OfContend!Sw!Matched, Contend!Reusable,
         OfContend!Sw!Reusable, Contend!Verbs, OfContend!Sw!Verbs, Contend!Event,
         OfContend!Sw!Event, Contend!Entry, OfContend!Sw!Entry, Contend!Dropped,
         OfContend!Sw!Dropped, Contend!Reconciled, OfContend!Sw!Reconciled, Contend!GenerationOf,
         OfContend!Sw!GenerationOf, Contend!CanCarry, OfContend!Sw!CanCarry, Contend!Job,
         OfContend!Sw!Job, Contend!Analyze, OfContend!Sw!Analyze
<1>3. ASSUME NEW p \in Two
      PROVE
        /\ Contend!Acquire(p) => OfContend!Sw!Acquire(p)
        /\ Contend!GiveUp(p) => OfContend!Sw!GiveUp(p)
        /\ Contend!Reuse(p) => OfContend!Sw!Reuse(p)
        /\ Contend!SweepAnew(p) => OfContend!Sw!SweepAnew(p)
        /\ Contend!Clear(p) => OfContend!Sw!Clear(p)
        /\ Contend!Stop(p) => OfContend!Sw!Stop(p)
        /\ Contend!Read(p) => OfContend!Sw!Read(p)
        /\ \A r \in One : Contend!AcquireRepo(p, r) => OfContend!Sw!AcquireRepo(p, r)
        /\ \A j : Contend!Begin(p, j[1], j[2]) => OfContend!Sw!Begin(p, j[1], j[2])
  BY ZenonT(60)
     DEF Contend!fileVars, OfContend!Sw!fileVars, Contend!deskVars, OfContend!Sw!deskVars,
         Contend!sweepVars, OfContend!Sw!sweepVars, Contend!Rows, OfContend!Sw!Rows,
         Contend!JobKinds, OfContend!Sw!JobKinds, Contend!Gen, OfContend!Sw!Gen, Contend!Fault,
         OfContend!Sw!Fault, Contend!Reading, OfContend!Sw!Reading, Contend!Goto,
         OfContend!Sw!Goto,
         Contend!Committing, OfContend!Sw!Committing, Contend!Leave, OfContend!Sw!Leave,
         Contend!Carried, OfContend!Sw!Carried, Contend!Live, OfContend!Sw!Live, Contend!Fresh,
         OfContend!Sw!Fresh, Contend!Matched, OfContend!Sw!Matched, Contend!Reusable,
         OfContend!Sw!Reusable, Contend!Verbs, OfContend!Sw!Verbs, Contend!Event,
         OfContend!Sw!Event, Contend!Entry, OfContend!Sw!Entry, Contend!Dropped,
         OfContend!Sw!Dropped, Contend!Reconciled, OfContend!Sw!Reconciled, Contend!GenerationOf,
         OfContend!Sw!GenerationOf, Contend!CanCarry, OfContend!Sw!CanCarry, Contend!Job,
         OfContend!Sw!Job, Contend!Acquire, OfContend!Sw!Acquire, Contend!GiveUp,
         OfContend!Sw!GiveUp, Contend!Reuse, OfContend!Sw!Reuse, Contend!SweepAnew,
         OfContend!Sw!SweepAnew, Contend!Clear, OfContend!Sw!Clear, Contend!Stop,
         OfContend!Sw!Stop,
         Contend!Begin, OfContend!Sw!Begin, Contend!Read, OfContend!Sw!Read, Contend!AcquireRepo,
         OfContend!Sw!AcquireRepo
<1>4. ASSUME NEW p \in Two
      PROVE  Contend!Step(p) => OfContend!Sw!Step(p)
  BY <1>1, <1>2, <1>3, Zenon DEF Contend!Step, OfContend!Sw!Step
<1>5. Contend!Jobs = OfContend!Sw!Jobs BY DEF Contend!Jobs, OfContend!Sw!Jobs
<1>6. Contend!Next => OfContend!Sw!Next
  BY <1>3, <1>4, <1>5, ZenonT(60)
     DEF Contend!fileVars, OfContend!Sw!fileVars, Contend!deskVars, OfContend!Sw!deskVars,
         Contend!Tick, OfContend!Sw!Tick, Contend!Edit, OfContend!Sw!Edit, Contend!Shadow,
         OfContend!Sw!Shadow, Contend!Next, OfContend!Sw!Next, Contend!Verbs, OfContend!Sw!Verbs,
         Contend!DeskRead, OfContend!Sw!DeskRead, Contend!DeskWrite, OfContend!Sw!DeskWrite,
         Contend!Reading, OfContend!Sw!Reading
<1>7. UNCHANGED sweepVars => UNCHANGED OfContend!Sw!sweepVars
  BY DEF sweepVars, OfContend!Sw!sweepVars, OfContend!Sw!fileVars, OfContend!Sw!deskVars
<1>8. QED BY <1>6, <1>7

(* the carrying sweeper's,                                                 *)
LEMMA CarryMoves == [Carry!Next]_(sweepVars) => [OfCarry!Sw!Next]_(OfCarry!Sw!sweepVars)
<1>1. ASSUME NEW p \in One
      PROVE  Carry!Commit(p) => OfCarry!Sw!Commit(p)
  BY ZenonT(60)
     DEF Carry!fileVars, OfCarry!Sw!fileVars, Carry!deskVars, OfCarry!Sw!deskVars,
         Carry!sweepVars,
         OfCarry!Sw!sweepVars, Carry!Rows, OfCarry!Sw!Rows, Carry!JobKinds, OfCarry!Sw!JobKinds,
         Carry!Gen, OfCarry!Sw!Gen, Carry!Fault, OfCarry!Sw!Fault, Carry!Reading,
         OfCarry!Sw!Reading, Carry!Goto, OfCarry!Sw!Goto, Carry!Committing, OfCarry!Sw!Committing,
         Carry!Leave, OfCarry!Sw!Leave, Carry!Carried, OfCarry!Sw!Carried, Carry!Live,
         OfCarry!Sw!Live, Carry!Fresh, OfCarry!Sw!Fresh, Carry!Matched, OfCarry!Sw!Matched,
         Carry!Reusable, OfCarry!Sw!Reusable, Carry!Verbs, OfCarry!Sw!Verbs, Carry!Event,
         OfCarry!Sw!Event, Carry!Entry, OfCarry!Sw!Entry, Carry!Dropped, OfCarry!Sw!Dropped,
         Carry!Reconciled, OfCarry!Sw!Reconciled, Carry!GenerationOf, OfCarry!Sw!GenerationOf,
         Carry!CanCarry, OfCarry!Sw!CanCarry, Carry!Job, OfCarry!Sw!Job, Carry!Confirm,
         OfCarry!Sw!Confirm, Carry!EmitEvent, OfCarry!Sw!EmitEvent, Carry!AppendFact,
         OfCarry!Sw!AppendFact, Carry!Emitted, OfCarry!Sw!Emitted, Carry!AppendMerge,
         OfCarry!Sw!AppendMerge, Carry!WriteQueue, OfCarry!Sw!WriteQueue, Carry!WriteSnapshot,
         OfCarry!Sw!WriteSnapshot, Carry!WriteState, OfCarry!Sw!WriteState, Carry!Commit,
         OfCarry!Sw!Commit
<1>2. ASSUME NEW p \in One
      PROVE  Carry!Analyze(p) => OfCarry!Sw!Analyze(p)
  BY ZenonT(60)
     DEF Carry!fileVars, OfCarry!Sw!fileVars, Carry!deskVars, OfCarry!Sw!deskVars,
         Carry!sweepVars,
         OfCarry!Sw!sweepVars, Carry!Rows, OfCarry!Sw!Rows, Carry!JobKinds, OfCarry!Sw!JobKinds,
         Carry!Gen, OfCarry!Sw!Gen, Carry!Fault, OfCarry!Sw!Fault, Carry!Reading,
         OfCarry!Sw!Reading, Carry!Goto, OfCarry!Sw!Goto, Carry!Committing, OfCarry!Sw!Committing,
         Carry!Leave, OfCarry!Sw!Leave, Carry!Carried, OfCarry!Sw!Carried, Carry!Live,
         OfCarry!Sw!Live, Carry!Fresh, OfCarry!Sw!Fresh, Carry!Matched, OfCarry!Sw!Matched,
         Carry!Reusable, OfCarry!Sw!Reusable, Carry!Verbs, OfCarry!Sw!Verbs, Carry!Event,
         OfCarry!Sw!Event, Carry!Entry, OfCarry!Sw!Entry, Carry!Dropped, OfCarry!Sw!Dropped,
         Carry!Reconciled, OfCarry!Sw!Reconciled, Carry!GenerationOf, OfCarry!Sw!GenerationOf,
         Carry!CanCarry, OfCarry!Sw!CanCarry, Carry!Job, OfCarry!Sw!Job, Carry!Analyze,
         OfCarry!Sw!Analyze
<1>3. ASSUME NEW p \in One
      PROVE
        /\ Carry!Acquire(p) => OfCarry!Sw!Acquire(p)
        /\ Carry!GiveUp(p) => OfCarry!Sw!GiveUp(p)
        /\ Carry!Reuse(p) => OfCarry!Sw!Reuse(p)
        /\ Carry!SweepAnew(p) => OfCarry!Sw!SweepAnew(p)
        /\ Carry!Clear(p) => OfCarry!Sw!Clear(p)
        /\ Carry!Stop(p) => OfCarry!Sw!Stop(p)
        /\ Carry!Read(p) => OfCarry!Sw!Read(p)
        /\ \A r \in Two : Carry!AcquireRepo(p, r) => OfCarry!Sw!AcquireRepo(p, r)
        /\ \A j : Carry!Begin(p, j[1], j[2]) => OfCarry!Sw!Begin(p, j[1], j[2])
  BY ZenonT(60)
     DEF Carry!fileVars, OfCarry!Sw!fileVars, Carry!deskVars, OfCarry!Sw!deskVars,
         Carry!sweepVars,
         OfCarry!Sw!sweepVars, Carry!Rows, OfCarry!Sw!Rows, Carry!JobKinds, OfCarry!Sw!JobKinds,
         Carry!Gen, OfCarry!Sw!Gen, Carry!Fault, OfCarry!Sw!Fault, Carry!Reading,
         OfCarry!Sw!Reading, Carry!Goto, OfCarry!Sw!Goto, Carry!Committing, OfCarry!Sw!Committing,
         Carry!Leave, OfCarry!Sw!Leave, Carry!Carried, OfCarry!Sw!Carried, Carry!Live,
         OfCarry!Sw!Live, Carry!Fresh, OfCarry!Sw!Fresh, Carry!Matched, OfCarry!Sw!Matched,
         Carry!Reusable, OfCarry!Sw!Reusable, Carry!Verbs, OfCarry!Sw!Verbs, Carry!Event,
         OfCarry!Sw!Event, Carry!Entry, OfCarry!Sw!Entry, Carry!Dropped, OfCarry!Sw!Dropped,
         Carry!Reconciled, OfCarry!Sw!Reconciled, Carry!GenerationOf, OfCarry!Sw!GenerationOf,
         Carry!CanCarry, OfCarry!Sw!CanCarry, Carry!Job, OfCarry!Sw!Job, Carry!Acquire,
         OfCarry!Sw!Acquire, Carry!GiveUp, OfCarry!Sw!GiveUp, Carry!Reuse, OfCarry!Sw!Reuse,
         Carry!SweepAnew, OfCarry!Sw!SweepAnew, Carry!Clear, OfCarry!Sw!Clear, Carry!Stop,
         OfCarry!Sw!Stop, Carry!Begin, OfCarry!Sw!Begin, Carry!Read, OfCarry!Sw!Read,
         Carry!AcquireRepo, OfCarry!Sw!AcquireRepo
<1>4. ASSUME NEW p \in One
      PROVE  Carry!Step(p) => OfCarry!Sw!Step(p)
  BY <1>1, <1>2, <1>3, Zenon DEF Carry!Step, OfCarry!Sw!Step
<1>5. Carry!Jobs = OfCarry!Sw!Jobs BY DEF Carry!Jobs, OfCarry!Sw!Jobs
<1>6. Carry!Next => OfCarry!Sw!Next
  BY <1>3, <1>4, <1>5, ZenonT(60)
     DEF Carry!fileVars, OfCarry!Sw!fileVars, Carry!deskVars, OfCarry!Sw!deskVars, Carry!Tick,
         OfCarry!Sw!Tick, Carry!Edit, OfCarry!Sw!Edit, Carry!Shadow, OfCarry!Sw!Shadow,
         Carry!Next,
         OfCarry!Sw!Next, Carry!Verbs, OfCarry!Sw!Verbs, Carry!DeskRead, OfCarry!Sw!DeskRead,
         Carry!DeskWrite, OfCarry!Sw!DeskWrite, Carry!Reading, OfCarry!Sw!Reading
<1>7. UNCHANGED sweepVars => UNCHANGED OfCarry!Sw!sweepVars
  BY DEF sweepVars, OfCarry!Sw!sweepVars, OfCarry!Sw!fileVars, OfCarry!Sw!deskVars
<1>8. QED BY <1>6, <1>7

(* and those of the sweeper and the desk.                                  *)
LEMMA DecideMoves == [Decide!Next]_(sweepVars) => [OfDecide!Sw!Next]_(OfDecide!Sw!sweepVars)
<1>1. ASSUME NEW p \in One
      PROVE  Decide!Commit(p) => OfDecide!Sw!Commit(p)
  BY ZenonT(60)
     DEF Decide!fileVars, OfDecide!Sw!fileVars, Decide!deskVars, OfDecide!Sw!deskVars,
         Decide!sweepVars, OfDecide!Sw!sweepVars, Decide!Rows, OfDecide!Sw!Rows, Decide!JobKinds,
         OfDecide!Sw!JobKinds, Decide!Gen, OfDecide!Sw!Gen, Decide!Fault, OfDecide!Sw!Fault,
         Decide!Reading, OfDecide!Sw!Reading, Decide!Goto, OfDecide!Sw!Goto, Decide!Committing,
         OfDecide!Sw!Committing, Decide!Leave, OfDecide!Sw!Leave, Decide!Carried,
         OfDecide!Sw!Carried, Decide!Live, OfDecide!Sw!Live, Decide!Fresh, OfDecide!Sw!Fresh,
         Decide!Matched, OfDecide!Sw!Matched, Decide!Reusable, OfDecide!Sw!Reusable, Decide!Verbs,
         OfDecide!Sw!Verbs, Decide!Event, OfDecide!Sw!Event, Decide!Entry, OfDecide!Sw!Entry,
         Decide!Dropped, OfDecide!Sw!Dropped, Decide!Reconciled, OfDecide!Sw!Reconciled,
         Decide!GenerationOf, OfDecide!Sw!GenerationOf, Decide!CanCarry, OfDecide!Sw!CanCarry,
         Decide!Job, OfDecide!Sw!Job, Decide!Confirm, OfDecide!Sw!Confirm, Decide!EmitEvent,
         OfDecide!Sw!EmitEvent, Decide!AppendFact, OfDecide!Sw!AppendFact, Decide!Emitted,
         OfDecide!Sw!Emitted, Decide!AppendMerge, OfDecide!Sw!AppendMerge, Decide!WriteQueue,
         OfDecide!Sw!WriteQueue, Decide!WriteSnapshot, OfDecide!Sw!WriteSnapshot,
         Decide!WriteState,
         OfDecide!Sw!WriteState, Decide!Commit, OfDecide!Sw!Commit
<1>2. ASSUME NEW p \in One
      PROVE  Decide!Analyze(p) => OfDecide!Sw!Analyze(p)
  BY ZenonT(60)
     DEF Decide!fileVars, OfDecide!Sw!fileVars, Decide!deskVars, OfDecide!Sw!deskVars,
         Decide!sweepVars, OfDecide!Sw!sweepVars, Decide!Rows, OfDecide!Sw!Rows, Decide!JobKinds,
         OfDecide!Sw!JobKinds, Decide!Gen, OfDecide!Sw!Gen, Decide!Fault, OfDecide!Sw!Fault,
         Decide!Reading, OfDecide!Sw!Reading, Decide!Goto, OfDecide!Sw!Goto, Decide!Committing,
         OfDecide!Sw!Committing, Decide!Leave, OfDecide!Sw!Leave, Decide!Carried,
         OfDecide!Sw!Carried, Decide!Live, OfDecide!Sw!Live, Decide!Fresh, OfDecide!Sw!Fresh,
         Decide!Matched, OfDecide!Sw!Matched, Decide!Reusable, OfDecide!Sw!Reusable, Decide!Verbs,
         OfDecide!Sw!Verbs, Decide!Event, OfDecide!Sw!Event, Decide!Entry, OfDecide!Sw!Entry,
         Decide!Dropped, OfDecide!Sw!Dropped, Decide!Reconciled, OfDecide!Sw!Reconciled,
         Decide!GenerationOf, OfDecide!Sw!GenerationOf, Decide!CanCarry, OfDecide!Sw!CanCarry,
         Decide!Job, OfDecide!Sw!Job, Decide!Analyze, OfDecide!Sw!Analyze
<1>3. ASSUME NEW p \in One
      PROVE
        /\ Decide!Acquire(p) => OfDecide!Sw!Acquire(p)
        /\ Decide!GiveUp(p) => OfDecide!Sw!GiveUp(p)
        /\ Decide!Reuse(p) => OfDecide!Sw!Reuse(p)
        /\ Decide!SweepAnew(p) => OfDecide!Sw!SweepAnew(p)
        /\ Decide!Clear(p) => OfDecide!Sw!Clear(p)
        /\ Decide!Stop(p) => OfDecide!Sw!Stop(p)
        /\ Decide!Read(p) => OfDecide!Sw!Read(p)
        /\ \A r \in One : Decide!AcquireRepo(p, r) => OfDecide!Sw!AcquireRepo(p, r)
        /\ \A j : Decide!Begin(p, j[1], j[2]) => OfDecide!Sw!Begin(p, j[1], j[2])
  BY ZenonT(60)
     DEF Decide!fileVars, OfDecide!Sw!fileVars, Decide!deskVars, OfDecide!Sw!deskVars,
         Decide!sweepVars, OfDecide!Sw!sweepVars, Decide!Rows, OfDecide!Sw!Rows, Decide!JobKinds,
         OfDecide!Sw!JobKinds, Decide!Gen, OfDecide!Sw!Gen, Decide!Fault, OfDecide!Sw!Fault,
         Decide!Reading, OfDecide!Sw!Reading, Decide!Goto, OfDecide!Sw!Goto, Decide!Committing,
         OfDecide!Sw!Committing, Decide!Leave, OfDecide!Sw!Leave, Decide!Carried,
         OfDecide!Sw!Carried, Decide!Live, OfDecide!Sw!Live, Decide!Fresh, OfDecide!Sw!Fresh,
         Decide!Matched, OfDecide!Sw!Matched, Decide!Reusable, OfDecide!Sw!Reusable, Decide!Verbs,
         OfDecide!Sw!Verbs, Decide!Event, OfDecide!Sw!Event, Decide!Entry, OfDecide!Sw!Entry,
         Decide!Dropped, OfDecide!Sw!Dropped, Decide!Reconciled, OfDecide!Sw!Reconciled,
         Decide!GenerationOf, OfDecide!Sw!GenerationOf, Decide!CanCarry, OfDecide!Sw!CanCarry,
         Decide!Job, OfDecide!Sw!Job, Decide!Acquire, OfDecide!Sw!Acquire, Decide!GiveUp,
         OfDecide!Sw!GiveUp, Decide!Reuse, OfDecide!Sw!Reuse, Decide!SweepAnew,
         OfDecide!Sw!SweepAnew, Decide!Clear, OfDecide!Sw!Clear, Decide!Stop, OfDecide!Sw!Stop,
         Decide!Begin, OfDecide!Sw!Begin, Decide!Read, OfDecide!Sw!Read, Decide!AcquireRepo,
         OfDecide!Sw!AcquireRepo
<1>4. ASSUME NEW p \in One
      PROVE  Decide!Step(p) => OfDecide!Sw!Step(p)
  BY <1>1, <1>2, <1>3, Zenon DEF Decide!Step, OfDecide!Sw!Step
<1>5. Decide!Jobs = OfDecide!Sw!Jobs BY DEF Decide!Jobs, OfDecide!Sw!Jobs
<1>6. Decide!Next => OfDecide!Sw!Next
  BY <1>3, <1>4, <1>5, ZenonT(60)
     DEF Decide!fileVars, OfDecide!Sw!fileVars, Decide!deskVars, OfDecide!Sw!deskVars,
         Decide!Tick,
         OfDecide!Sw!Tick, Decide!Edit, OfDecide!Sw!Edit, Decide!Shadow, OfDecide!Sw!Shadow,
         Decide!Next, OfDecide!Sw!Next, Decide!Verbs, OfDecide!Sw!Verbs, Decide!DeskRead,
         OfDecide!Sw!DeskRead, Decide!DeskWrite, OfDecide!Sw!DeskWrite, Decide!Reading,
         OfDecide!Sw!Reading
<1>7. UNCHANGED sweepVars => UNCHANGED OfDecide!Sw!sweepVars
  BY DEF sweepVars, OfDecide!Sw!sweepVars, OfDecide!Sw!fileVars, OfDecide!Sw!deskVars
<1>8. QED BY <1>6, <1>7

(* While moving names it, its variables are moved by it alone.             *)
LEMMA ContendRuns ==
  /\ MCInit /\ Contending => OfContend!Sw!Init
  /\ [MCNext]_mcVars /\ Contending =>
        (Contending)' /\ [OfContend!Sw!Next]_(OfContend!Sw!sweepVars)
  /\ [MCNext]_mcVars /\ ~(Contending) => ~(Contending)'
<1>1. MCInit /\ Contending => OfContend!Sw!Init
  BY ContendSame DEF MCInit, Contending, Carrying, Deciding
<1>2. [MCNext]_mcVars => UNCHANGED moving BY DEF MCNext, mcVars
<1>3. [MCNext]_mcVars /\ Contending => [Contend!Next]_(sweepVars)
  BY DEF MCNext, mcVars, Contending, Carrying, Deciding
<1>4. QED BY <1>1, <1>2, <1>3, ContendMoves DEF Contending, Deciding

(* While moving names it, its variables are moved by it alone.             *)
LEMMA CarryRuns ==
  /\ MCInit /\ moving = "carry" => OfCarry!Sw!Init
  /\ [MCNext]_mcVars /\ moving = "carry" =>
        (moving = "carry")' /\ [OfCarry!Sw!Next]_(OfCarry!Sw!sweepVars)
  /\ [MCNext]_mcVars /\ ~(moving = "carry") => ~(moving = "carry")'
<1>1. MCInit /\ moving = "carry" => OfCarry!Sw!Init
  BY CarrySame DEF MCInit, Contending, Carrying, Deciding
<1>2. [MCNext]_mcVars => UNCHANGED moving BY DEF MCNext, mcVars
<1>3. [MCNext]_mcVars /\ moving = "carry" => [Carry!Next]_(sweepVars)
  BY DEF MCNext, mcVars, Contending, Carrying, Deciding
<1>4. QED BY <1>1, <1>2, <1>3, CarryMoves DEF Contending, Deciding

(* While moving names it, its variables are moved by it alone.             *)
LEMMA DecideRuns ==
  /\ MCInit /\ Deciding => OfDecide!Sw!Init
  /\ [MCNext]_mcVars /\ Deciding =>
        (Deciding)' /\ [OfDecide!Sw!Next]_(OfDecide!Sw!sweepVars)
  /\ [MCNext]_mcVars /\ ~(Deciding) => ~(Deciding)'
<1>1. MCInit /\ Deciding => OfDecide!Sw!Init
  BY DecideSame DEF MCInit, Contending, Carrying, Deciding
<1>2. [MCNext]_mcVars => UNCHANGED moving BY DEF MCNext, mcVars
<1>3. [MCNext]_mcVars /\ Deciding => [Decide!Next]_(sweepVars)
  BY DEF MCNext, mcVars, Contending, Carrying, Deciding
<1>4. QED BY <1>1, <1>2, <1>3, DecideMoves DEF Contending, Deciding

(* The sweep's instances have no process that wants a lease file.          *)
LEMMA NoLeases ==
  /\ {} \subseteq {} /\ 0 \notin {} /\ 1 \in Nat \ {0} /\ 0 \in Nat /\ {TRUE} \subseteq BOOLEAN
  /\ 0 \notin [owner : {}, started : Nat, slept : Nat, expires : Nat]
  /\ 1 \notin [owner : {}, started : Nat, slept : Nat, expires : Nat]
OBVIOUS

(* However often a generation is retried, a decision is requested once,    *)
(* before its row is shown, and a merge is recorded once, for any number   *)
(* of sweepers and repositories (sweep.rs); and of appends that do not     *)
(* overlap, every event has a number and every row its event.              *)
THEOREM RecordsOnce ==
  ASSUME WholeLines = TRUE, OneAtATime = TRUE
  PROVE  MCSpec => []RecordedOnce
<1>1. MCSpec => [](moving = "serial" => Serial!EventsNumbered /\ Serial!RowHasEvent)
  <2>1. JournalInv => (moving = "serial" => Serial!EventsNumbered /\ Serial!RowHasEvent)
    BY SerialSame DEF JournalInv, AInv
  <2>2. QED BY <2>1, JournalStays, PTL
<1>2. MCSpec => [](Contending => Contend!RecordedOnce)
  <2>1. OfContend!Sw!Spec => []OfContend!Sw!RecordedOnce
    BY OfContend!SweepRecords, ContendSame, NoLeases DEF OfContend!Lease
  <2>2. OfContend!Sw!RecordedOnce => Contend!RecordedOnce BY ContendSame
  <2>3. QED BY <2>1, <2>2, ContendRuns, PTL DEF MCSpec, mcVars, OfContend!Sw!Spec
<1>3. MCSpec => [](moving = "carry" => Carry!RecordedOnce)
  <2>1. OfCarry!Sw!Spec => []OfCarry!Sw!RecordedOnce
    BY OfCarry!SweepRecords, CarrySame, NoLeases DEF OfCarry!Lease
  <2>2. OfCarry!Sw!RecordedOnce => Carry!RecordedOnce BY CarrySame
  <2>3. QED BY <2>1, <2>2, CarryRuns, PTL DEF MCSpec, mcVars, OfCarry!Sw!Spec
<1>4. MCSpec => [](Deciding => Decide!RecordedOnce)
  <2>1. OfDecide!Sw!Spec => []OfDecide!Sw!RecordedOnce
    BY OfDecide!SweepRecords, DecideSame, NoLeases DEF OfDecide!Lease
  <2>2. OfDecide!Sw!RecordedOnce => Decide!RecordedOnce BY DecideSame
  <2>3. QED BY <2>1, <2>2, DecideRuns, PTL DEF MCSpec, mcVars, OfDecide!Sw!Spec
<1>5. QED BY <1>1, <1>2, <1>3, <1>4, PTL DEF RecordedOnce

(* An item the state knows keeps its row until the desk rejects it, it is  *)
(* closed, or a pull request shadows it as it is known; and an answer      *)
(* stays on it, a deferral as long as nothing shadows it, for any number   *)
(* of sweepers and repositories (sweep.rs reconcile_queue).                *)
THEOREM RecordsAttentive == MCSpec => []AttentionKept
<1>1. MCSpec => [](Contending => Contend!AttentionKept)
  <2>1. OfContend!Sw!Spec => [](OfContend!Sw!AttentionKept /\ OfContend!Sw!AnswerStays)
    BY OfContend!SweepAttentive, ContendSame, NoLeases DEF OfContend!Lease
  <2>2. OfContend!Sw!AttentionKept => Contend!AttentionKept BY ContendSame
  <2>3. QED BY <2>1, <2>2, ContendRuns, PTL DEF MCSpec, mcVars, OfContend!Sw!Spec
<1>2. MCSpec => [](moving = "carry" => Carry!AttentionKept)
  <2>1. OfCarry!Sw!Spec => [](OfCarry!Sw!AttentionKept /\ OfCarry!Sw!AnswerStays)
    BY OfCarry!SweepAttentive, CarrySame, NoLeases DEF OfCarry!Lease
  <2>2. OfCarry!Sw!AttentionKept => Carry!AttentionKept BY CarrySame
  <2>3. QED BY <2>1, <2>2, CarryRuns, PTL DEF MCSpec, mcVars, OfCarry!Sw!Spec
<1>3. MCSpec => [](Deciding => Decide!AttentionKept /\ Decide!AnswerStays)
  <2>1. OfDecide!Sw!Spec => [](OfDecide!Sw!AttentionKept /\ OfDecide!Sw!AnswerStays)
    BY OfDecide!SweepAttentive, DecideSame, NoLeases DEF OfDecide!Lease
  <2>2. OfDecide!Sw!AttentionKept /\ OfDecide!Sw!AnswerStays
        => Decide!AttentionKept /\ Decide!AnswerStays
    BY DecideSame
  <2>3. QED BY <2>1, <2>2, DecideRuns, PTL DEF MCSpec, mcVars, OfDecide!Sw!Spec
<1>4. QED BY <1>1, <1>2, <1>3, PTL DEF AttentionKept

(* A gatekeeper that reuses a generation works on repositories acquired    *)
(* recently enough and after every repair: any number of sweepers of one   *)
(* repository, or one sweeper of any number (pass.rs prepare_sweep).       *)
THEOREM RecordsReuse ==
  ASSUME \A a, b \in One : a = b
  PROVE  MCSpec => ReusedIsRecent
<1>1. OfContend!Sw!Spec => [][OfContend!Sw!FreshReuse]_(OfContend!Sw!sweepVars)
  BY OfContend!SweepReuseAlone, ContendSame, NoLeases DEF OfContend!Lease, OfContend!OneRepo,
     OfContend!Sw!ReusedIsRecent
<1>2. OfCarry!Sw!Spec => [][OfCarry!Sw!FreshReuse]_(OfCarry!Sw!sweepVars)
  BY OfCarry!SweepReuseAlone, CarrySame, NoLeases DEF OfCarry!Lease, OfCarry!OneSweeper,
     OfCarry!Sw!ReusedIsRecent
<1>3. MCSpec => [][Contending => [OfContend!Sw!FreshReuse]_(OfContend!Sw!sweepVars)]_mcVars
  BY <1>1, ContendRuns, PTL DEF MCSpec, mcVars, OfContend!Sw!Spec
<1>4. MCSpec => [][moving = "carry" => [OfCarry!Sw!FreshReuse]_(OfCarry!Sw!sweepVars)]_mcVars
  BY <1>2, CarryRuns, PTL DEF MCSpec, mcVars, OfCarry!Sw!Spec
<1>5. /\ [MCNext]_mcVars
      /\ [Contending => [OfContend!Sw!FreshReuse]_(OfContend!Sw!sweepVars)]_mcVars
      /\ [moving = "carry" => [OfCarry!Sw!FreshReuse]_(OfCarry!Sw!sweepVars)]_mcVars
      => [/\ Contending => Contend!FreshReuse
          /\ moving = "carry" => Carry!FreshReuse]_<<moving, sweepVars>>
  <2>1. [OfContend!Sw!FreshReuse]_(OfContend!Sw!sweepVars) => [Contend!FreshReuse]_(sweepVars)
    BY ContendSame DEF sweepVars, OfContend!Sw!sweepVars, OfContend!Sw!fileVars,
       OfContend!Sw!deskVars
  <2>2. [OfCarry!Sw!FreshReuse]_(OfCarry!Sw!sweepVars) => [Carry!FreshReuse]_(sweepVars)
    BY CarrySame DEF sweepVars, OfCarry!Sw!sweepVars, OfCarry!Sw!fileVars, OfCarry!Sw!deskVars
  <2>3. UNCHANGED mcVars => UNCHANGED <<moving, sweepVars>> BY DEF mcVars
  <2>4. [MCNext]_mcVars => UNCHANGED moving BY DEF MCNext, mcVars
  <2>5. QED BY <2>1, <2>2, <2>3, <2>4
<1>6. QED BY <1>3, <1>4, <1>5, PTL DEF MCSpec, mcVars, ReusedIsRecent
================================================================================
