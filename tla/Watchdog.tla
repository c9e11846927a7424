-------------------------------- MODULE Watchdog -------------------------------
(***************************************************************************)
(* CapsWatchdog (umwelt-runtime's watchdog.rs): the ceilings of one run,   *)
(* kept from the events of its harness and a clock that others read.  The  *)
(* pass lets it observe every event and asks it again at every poll; the   *)
(* first ceiling that is reached ends the run, in a fixed precedence.      *)
(* Tokens are summed as turns are and are left out; so are the events that *)
(* do nothing but reset the idle time.                                     *)
(***************************************************************************)
EXTENDS Integers, FiniteSets, SequencesExt

CONSTANTS
    Call,        \* identities of tool calls
    Session,     \* harness sessions
    None,        \* no identity, or no ceiling
    Wall, Idle, Turns, Cost,   \* the ceilings
    MaxNow,      \* bound: the clock
    MaxEvents    \* bound: events of the harness

VARIABLES
    now,
    observed,    \* last_observed_at
    open,        \* open_tool_calls
    turns,
    started,     \* last_started_session_id
    costs,       \* session_costs: the dearest completion of a session
    tripped,     \* the ceiling that ended the run
    log          \* the events of the harness
vars == <<now, observed, open, turns, started, costs, tripped, log>>

Event ==
    [type : {"tool_use", "tool_result"}, id : Call \cup {None}]
    \cup [type : {"started"}, session : Session \cup {None}]
    \cup [type : {"completed"}, session : Session \cup {None}, turns : {0, 1}, cost : {None, 1, 2}]

Init ==
    /\ now = 0 /\ observed = 0 /\ open = <<>> /\ turns = 0 /\ started = None
    /\ costs = <<>>   \* of no session yet
    /\ tripped = None /\ log = <<>>
--------------------------------------------------------------------------------
(* evaluate: the first ceiling in this order.                              *)
Reached(limit, value) == limit # None /\ value >= limit
(* Mutant: the idle time runs while a tool call is in flight.              *)
DueInCall(t, seen, calls, taken, spent) ==
    CASE Reached(Wall, t) -> "wall"
      [] Reached(Idle, t - seen) -> "idle"
      [] Reached(Turns, taken) -> "turns"
      [] Reached(Cost, spent) -> "cost"
      [] OTHER -> None

Due(t, seen, calls, taken, spent) ==
    CASE Reached(Wall, t) -> "wall"
      [] calls = <<>> /\ Reached(Idle, t - seen) -> "idle"
      [] Reached(Turns, taken) -> "turns"
      [] Reached(Cost, spent) -> "cost"
      [] OTHER -> None
Total(c) == MapThenSumSet(LAMBDA s : c[s], DOMAIN c)

(* observe_tool_result: the latest call with this identity is closed.      *)
Closed(calls, id) ==
    LET at == {k \in DOMAIN calls : calls[k] = id}
    IN  IF at = {} THEN calls ELSE RemoveAt(calls, Max(at))

(* observe_completed: a session's cost is cumulative; what names no        *)
(* session, itself or by the last start, is a session of its own.          *)
Key(e) ==
    IF e.session # None THEN e.session
    ELSE IF started # None THEN started ELSE <<"unattributed", Cardinality(DOMAIN costs)>>
Costs(e) ==
    IF e.cost = None THEN costs
    ELSE [s \in DOMAIN costs \cup {Key(e)} |->
             IF s # Key(e) THEN costs[s]
             ELSE IF s \in DOMAIN costs THEN Max({costs[s], e.cost}) ELSE e.cost]

Observe(e) ==
    /\ tripped = None /\ Len(log) < MaxEvents
    /\ log' = Append(log, e)
    /\ observed' = now
    /\ open' = CASE e.type = "tool_use" -> Append(open, e.id)
                 [] e.type = "tool_result" -> Closed(open, e.id)
                 [] OTHER -> open
    /\ started' = IF e.type = "started" THEN e.session ELSE started
    /\ turns' = IF e.type = "completed" THEN turns + e.turns ELSE turns
    /\ costs' = IF e.type = "completed" THEN Costs(e) ELSE costs
    /\ tripped' = Due(now, now, open', turns', Total(costs'))
    /\ UNCHANGED now

Check ==
    /\ tripped = None
    /\ tripped' = Due(now, observed, open, turns, Total(costs))
    /\ UNCHANGED <<now, observed, open, turns, started, costs, log>>

Tick ==
    /\ now < MaxNow /\ tripped = None
    /\ now' = now + 1
    /\ UNCHANGED <<observed, open, turns, started, costs, tripped, log>>

Next == Tick \/ Check \/ \E e \in Event : Observe(e)
Spec == Init /\ [][Next]_vars
FairSpec == Spec /\ WF_vars(Tick) /\ WF_vars(Check)
--------------------------------------------------------------------------------
TypeOK ==
    /\ {now, observed} \subseteq 0 .. MaxNow /\ observed <= now
    /\ open \in Seq(Call \cup {None}) /\ turns \in 0 .. MaxEvents
    /\ started \in Session \cup {None}
    /\ \A s \in DOMAIN costs : costs[s] \in 1 .. 2
    /\ tripped \in {None, "wall", "idle", "turns", "cost"}
    /\ log \in Seq(Event)

(* The ceilings, defined on the events themselves.  A call is in flight    *)
(* when from some event on it was used more often than it returned: a      *)
(* result nothing asked for counts for nothing.  A completion belongs to   *)
(* the session it names or the last start before it names.                 *)
Uses(id, k) == Cardinality({n \in k .. Len(log) : log[n].type = "tool_use" /\ log[n].id = id})
Returns(id, k) == Cardinality({n \in k .. Len(log) : log[n].type = "tool_result" /\ log[n].id = id})
InFlight == \E id \in Call \cup {None}, k \in DOMAIN log : Uses(id, k) > Returns(id, k)

Completions == {n \in DOMAIN log : log[n].type = "completed"}
Starts(n) == {m \in 1 .. n : log[m].type = "started"}
SessionOf(n) ==
    IF log[n].session # None THEN log[n].session
    ELSE IF Starts(n) = {} THEN None ELSE log[Max(Starts(n))].session
Paid == {n \in Completions : log[n].cost # None}
Spent ==
    MapThenSumSet(LAMBDA s : Max({0} \cup {log[n].cost : n \in {n \in Paid : SessionOf(n) = s}}), Session)
    + MapThenSumSet(LAMBDA n : log[n].cost, {n \in Paid : SessionOf(n) = None})
Taken == MapThenSumSet(LAMBDA n : log[n].turns, Completions)

Over(cap) ==
    CASE cap = "wall" -> Reached(Wall, now)
      [] cap = "idle" -> ~InFlight /\ Reached(Idle, now - observed)
      [] cap = "turns" -> Reached(Turns, Taken)
      [] cap = "cost" -> Reached(Cost, Spent)
Precedence == <<"wall", "idle", "turns", "cost">>

(* The run is ended by the first ceiling, in the order of watchdog.rs:373, *)
(* that its events and the clock have reached, and by none they have not:  *)
(* never for idling while a tool call is in flight, nor for a session's    *)
(* cost counted twice; and no event takes it over its turns or its cost    *)
(* unnoticed.                                                              *)
TripIsDue ==
    /\ tripped # None => \E k \in DOMAIN Precedence :
          /\ Precedence[k] = tripped /\ Over(tripped)
          /\ \A m \in 1 .. k - 1 : ~Over(Precedence[m])
    /\ tripped = None => ~Over("turns") /\ ~Over("cost")

(* A wall ceiling ends the run whatever its harness does, a tool call that *)
(* never returns included (watchdog.rs:14-18).                             *)
Tripped == tripped # None
WallEnds == <>Tripped
================================================================================
