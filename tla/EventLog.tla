------------------------------- MODULE EventLog --------------------------------
(***************************************************************************)
(* umwelt-runtime sink.rs and follower.rs: the events.jsonl log of one     *)
(* run.  A FileSink serialises its own operations and remembers what the   *)
(* log held when it last wrote; another sink, in another process, may have *)
(* written since.  An append writes the event, then its newline, then      *)
(* syncs, and cuts the log back when one of them fails; it may be killed   *)
(* between any two.  Followers poll the file while that goes on.           *)
(***************************************************************************)
EXTENDS Integers, Sequences, FiniteSets

CONSTANTS
    Sink,        \* the FileSink instances that write the log
    Follower,    \* those that replay and follow it
    NoState,     \* a sink that remembers nothing of the run
    Apart,       \* whether one sink writes at a time, as FileSink asks
    Relays,      \* whether a sink may also forward stamped events
    MaxEvents,   \* bound: lines of the log
    MaxFaults    \* bound: failed writes, kills and failed roll-backs

VARIABLES
    lines,       \* the newline-terminated lines of the file
    torn,        \* whether bytes follow the last newline
    cache,       \* what each sink remembers: RunState
    pc,          \* where each sink is
    draft,       \* the event each sink is writing
    start,       \* the length at which a sink's append began
    acked,       \* the events an append or forward returned Ok for
    view,        \* what each follower has delivered
    status,      \* what each follower's last poll said
    retracted,   \* whether a line that was complete has been cut away
    faults
logVars == <<lines, torn, cache, pc, draft, start, acked, view, status, retracted, faults>>

(* An event: its number, its type and which sink stamped it.  A line that  *)
(* joins two writes is garbage.                                            *)
Garbage == [seq |-> 0, type |-> "garbage", by |-> NoState]
Stamp(n, type, s) == [seq |-> n, type |-> type, by |-> s]

(* The file's length: a line counts two, a torn tail one.                  *)
Length == 2 * Len(lines) + IF torn THEN 1 ELSE 0

(* What read_state accepts: no torn tail, numbers without a gap, the       *)
(* terminal event last.                                                    *)
WellFormed(ls) ==
    \A i \in DOMAIN ls :
        /\ ls[i].seq = i
        /\ ls[i].type = "finished" => i = Len(ls)
Readable == ~torn /\ WellFormed(lines)

RunState == [last  |-> Len(lines),
             ended |-> \E i \in DOMAIN lines : lines[i].type = "finished",
             len   |-> Length]

(* A sink's view of the run: what it remembers while the length is the     *)
(* same, the file otherwise.                                               *)
Remembers(s) == cache[s] # NoState /\ cache[s].len = Length
StateOf(s) == IF Remembers(s) THEN cache[s] ELSE RunState

Init ==
    /\ lines = <<>> /\ torn = FALSE
    /\ cache = [s \in Sink |-> NoState]
    /\ pc = [s \in Sink |-> "idle"]
    /\ draft = [s \in Sink |-> Garbage]
    /\ start = [s \in Sink |-> 0]
    /\ acked = {}
    /\ view = [f \in Follower |-> <<>>]
    /\ status = [f \in Follower |-> "following"]
    /\ retracted = FALSE
    /\ faults = 0

Free(s) == pc[s] = "idle" /\ (Apart => \A r \in Sink : pc[r] = "idle")
Goto(s, l) == pc' = [pc EXCEPT ![s] = l]
Done(s) ==
    /\ Goto(s, "idle")
    /\ draft' = [draft EXCEPT ![s] = Garbage]
    /\ start' = [start EXCEPT ![s] = 0]
Fault == faults < MaxFaults /\ faults' = faults + 1

(* An operation that finds a log it cannot read, or one that is finished,  *)
(* ends there; what it read is remembered if it could be read.             *)
Refuse(s) ==
    /\ Free(s)
    /\ \/ ~Remembers(s) /\ ~Readable /\ cache' = [cache EXCEPT ![s] = NoState]
       \/ /\ Remembers(s) \/ Readable
          /\ StateOf(s).ended
          /\ cache' = [cache EXCEPT ![s] = StateOf(s)]
    /\ cache' # cache
    /\ UNCHANGED <<lines, torn, pc, draft, start, acked, view, status, retracted, faults>>

Accepts(s) ==
    /\ Free(s)
    /\ Remembers(s) \/ Readable
    /\ ~StateOf(s).ended
    /\ Len(lines) < MaxEvents
    /\ cache' = [cache EXCEPT ![s] = StateOf(s)]

(* append stamps the draft with the next number.                           *)
BeginAppend(s, type) ==
    /\ Accepts(s)
    /\ draft' = [draft EXCEPT ![s] = Stamp(StateOf(s).last + 1, type, s)]
    /\ Goto(s, "event")
    /\ UNCHANGED <<lines, torn, start, acked, view, status, retracted, faults>>

(* forward keeps the event's own number, which must be the next.           *)
BeginForward(s, n, type) ==
    /\ Relays
    /\ Accepts(s)
    /\ n = StateOf(s).last + 1
    /\ draft' = [draft EXCEPT ![s] = Stamp(n, type, NoState)]
    /\ Goto(s, "event")
    /\ UNCHANGED <<lines, torn, start, acked, view, status, retracted, faults>>

(* append_durably: the length is read as the file is opened, O_APPEND puts *)
(* the bytes behind whatever is there.                                     *)
WriteEvent(s) ==
    /\ pc[s] = "event"
    /\ start' = [start EXCEPT ![s] = Length]
    /\ \/ torn' = TRUE /\ Goto(s, "newline") /\ UNCHANGED faults
       \/ torn' \in {torn, TRUE} /\ Goto(s, "rollback") /\ Fault
    /\ UNCHANGED <<lines, cache, draft, acked, view, status, retracted>>

(* The newline ends the line: an event alone on it, or one joined to a     *)
(* torn tail or another sink's bytes.                                      *)
WriteNewline(s) ==
    /\ pc[s] = "newline"
    /\ \/ /\ lines' = Append(lines, IF start[s] = 2 * Len(lines) THEN draft[s] ELSE Garbage)
          /\ torn' = FALSE
          /\ Goto(s, "sync") /\ UNCHANGED faults
       \/ Goto(s, "rollback") /\ Fault /\ UNCHANGED <<lines, torn>>
    /\ UNCHANGED <<cache, draft, start, acked, view, status, retracted>>

(* The cache follows durable state; it never predicts it.                  *)
Sync(s) ==
    /\ pc[s] = "sync"
    /\ \/ /\ acked' = acked \cup {draft[s]}
          /\ cache' = [cache EXCEPT ![s] =
                [last  |-> draft[s].seq,
                 ended |-> cache[s].ended \/ draft[s].type = "finished",
                 len   |-> start[s] + 2]]
          /\ Done(s) /\ UNCHANGED faults
       \/ Goto(s, "rollback") /\ Fault /\ UNCHANGED <<acked, cache, draft, start>>
    /\ UNCHANGED <<lines, torn, view, status, retracted>>

(* Mutant: the log is cut back one byte too far.                           *)
RollbackShort(s) ==
    /\ pc[s] = "rollback"
    /\ torn' = (start[s] > 1)
    /\ lines' = SubSeq(lines, 1, (start[s] - 1) \div 2)
    /\ retracted' = (retracted \/ Len(lines') < start[s] \div 2)
    /\ cache' = [cache EXCEPT ![s] = NoState]
    /\ Done(s)
    /\ UNCHANGED <<acked, view, status, faults>>

(* A failed write is cut away again, which may fail in its turn; either    *)
(* way the sink forgets the run.                                           *)
Rollback(s) ==
    /\ pc[s] = "rollback"
    /\ \/ /\ torn' = (start[s] % 2 = 1 /\ (torn \/ 2 * Len(lines) > start[s]))
          /\ lines' = SubSeq(lines, 1, start[s] \div 2)
          /\ retracted' = (retracted \/ Len(lines') < Len(lines))
          /\ UNCHANGED faults
       \/ Fault /\ UNCHANGED <<lines, torn, retracted>>
    /\ cache' = [cache EXCEPT ![s] = NoState]
    /\ Done(s)
    /\ UNCHANGED <<acked, view, status>>

(* The process is killed and the next one opens a new sink.                *)
Kill(s) ==
    /\ pc[s] # "idle" \/ cache[s] # NoState
    /\ Fault
    /\ Done(s)
    /\ cache' = [cache EXCEPT ![s] = NoState]
    /\ UNCHANGED <<lines, torn, acked, view, status, retracted>>

(* read_from and FollowState::poll: a follower reads the complete lines,   *)
(* leaving a torn tail for later, and delivers those after the last it     *)
(* has.  A line it cannot read ends it.                                    *)
After(f) == IF view[f] = <<>> THEN 0 ELSE view[f][Len(view[f])].seq
Delivered(f) == SubSeq(lines, After(f) + 1, Len(lines))
Poll(f) ==
    /\ status[f] = "following"
    /\ IF WellFormed(lines)
       THEN /\ view' = [view EXCEPT ![f] = @ \o Delivered(f)]
            /\ status' = [status EXCEPT ![f] =
                  IF \E i \in DOMAIN view'[f] : view'[f][i].type = "finished"
                  THEN "terminal" ELSE "following"]
       ELSE status' = [status EXCEPT ![f] = "fault"] /\ UNCHANGED view
    /\ UNCHANGED <<lines, torn, cache, pc, draft, start, acked, retracted, faults>>

(* The lifetime cap: the consumer connects again after the last event.     *)
Reconnect(f) ==
    /\ status[f] = "following"
    /\ status' = [status EXCEPT ![f] = "reconnect"]
    /\ UNCHANGED <<lines, torn, cache, pc, draft, start, acked, view, retracted, faults>>
Resume(f) ==
    /\ status[f] = "reconnect"
    /\ status' = [status EXCEPT ![f] = "following"]
    /\ UNCHANGED <<lines, torn, cache, pc, draft, start, acked, view, retracted, faults>>

Store(s) == WriteEvent(s) \/ WriteNewline(s) \/ Sync(s) \/ Rollback(s)
Next ==
    \/ \E s \in Sink, type \in {"note", "finished"} :
          BeginAppend(s, type) \/ \E n \in 1 .. MaxEvents : BeginForward(s, n, type)
    \/ \E s \in Sink : Refuse(s) \/ Store(s) \/ Kill(s)
    \/ \E f \in Follower : Poll(f) \/ Reconnect(f) \/ Resume(f)

Spec == Init /\ [][Next]_logVars

(* A consumer that connects again whenever it is told to keeps polling.    *)
FairSpec == Spec /\ \A f \in Follower : SF_logVars(Poll(f)) /\ WF_logVars(Resume(f))
--------------------------------------------------------------------------------
TypeOK ==
    /\ lines \in Seq([seq : 0 .. MaxEvents, type : {"note", "finished", "garbage"},
                      by : Sink \cup {NoState}])
    /\ torn \in BOOLEAN
    /\ \A s \in Sink : cache[s] = NoState \/
          cache[s] \in [last : 0 .. MaxEvents, ended : BOOLEAN, len : 0 .. 2 * MaxEvents + 1]
    /\ pc \in [Sink -> {"idle", "event", "newline", "sync", "rollback"}]
    /\ status \in [Follower -> {"following", "reconnect", "terminal", "fault"}]
    /\ faults \in 0 .. MaxFaults

(* However appends fail, are cut back or are killed, the complete lines    *)
(* are numbered from one without a gap and nothing follows run.finished    *)
(* (Sink::append, "assigning its next seq"; read_state refuses the rest).  *)
LogGapless == WellFormed(lines)

(* An event whose append returned Ok is in the log for good, under the     *)
(* number it was given: no roll-back of a later append, and no sink that   *)
(* remembers an older length, cuts it away or writes over it.              *)
AckedStays == \A e \in acked : e.seq \in DOMAIN lines /\ lines[e.seq] = e
LogIntact == LogGapless /\ AckedStays

(* A follower's events are a prefix of the log, so connecting again after  *)
(* the last one misses nothing and repeats nothing; and one that stopped   *)
(* at run.finished has the whole log.  Only an append whose line was       *)
(* already complete when its sync failed takes back what a follower read.  *)
FollowerHasPrefix ==
    \A f \in Follower : ~retracted =>
        /\ Len(view[f]) <= Len(lines)
        /\ \A i \in DOMAIN view[f] : view[f][i] = lines[i]
        /\ status[f] = "terminal" => Len(view[f]) = Len(lines)

(* A follower reaches the end of a run that has ended for good.            *)
EndAcked == \E e \in acked : e.type = "finished"
EndSeen(f) == status[f] \in {"terminal", "fault"} \/ retracted
EndIsDelivered == \A f \in Follower : EndAcked ~> EndSeen(f)
================================================================================
