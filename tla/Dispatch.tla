-------------------------------- MODULE Dispatch -------------------------------
(***************************************************************************)
(* The dispatch of implementers (crates/ostrom-store/src/dispatch.rs,      *)
(* work_order.rs and implement.rs).  A work order is created for an item,  *)
(* dispatched under the item's lease, served by a run (a supervisor and    *)
(* its worker) and ended by one terminal row.  An order with a             *)
(* work-dispatched row and no terminal row is in flight: it counts against *)
(* the ceilings, and is reaped once its run is dead.                       *)
(*                                                                         *)
(* The unit name, which is the lease's owner, is made from the item alone: *)
(* every attempt at an item has the same one.  A run's harness is its      *)
(* worker here; the stall reaper's claims are left to module PassReap.     *)
(***************************************************************************)
EXTENDS Naturals, Sequences, FiniteSets

CONSTANTS
    Attempt,        \* dispatches, each with the run it may start, numbered as they begin
    Item,
    Reaper,         \* dispatches of other items, which reap stale orders here
    NoLease,
    NoRun,
    Backend,        \* "process" or "systemd"
    Overlap,        \* whether dispatches overlap, and an item's next order
                    \* comes while its last one is still being closed
    Again,          \* whether an order may be dispatched more than once
    WholeLaunches,  \* no dispatcher is killed between starting a run and recording it
    Killable,       \* what may be killed: "dispatcher", "run", "worker", "supervisor"
    WritesFail,     \* whether a trace append may fail
    MaxInFlight,    \* MANDATE_MAX_IMPLEMENTERS
    MaxOrders       \* bound: the orders created

(* What the constants are.                                                 *)
Constants == /\ MaxOrders \in Nat /\ MaxInFlight \in Nat
             /\ NoRun \notin Attempt /\ NoRun \notin Item
             /\ NoLease \notin [run : Attempt \cup {NoRun}, lapsed : BOOLEAN]

VARIABLES
    issued,    \* the item of each order created; an order's id is its place
    file,      \* the order in each item's order file, 0 if there is none
    lease,     \* each item's lease: the run it names, and whether its time is up
    trace,     \* work-dispatched and terminal rows
    dpc,       \* where each dispatcher is
    order,     \* the order each dispatcher read
    wpc,       \* where each run's worker is
    served,    \* the order it read
    spc,       \* where each run's supervisor is
    job,       \* the order each dispatcher, supervisor or reaper closes, and how far it is
    old        \* orders past the time their ceilings give them

vars == <<issued, file, lease, trace, dpc, order, wpc, served, spc, job, old>>

Actor == Attempt \cup Reaper
--------------------------------------------------------------------------------
Row(kind, o, run, by) == [kind |-> kind, order |-> o, run |-> run, by |-> by]

Rows == {trace[k] : k \in DOMAIN trace}

Dispatched(o) == \E row \in Rows : row.kind = "dispatched" /\ row.order = o

(* Mutant: the rows of completed runs do not count.                        *)
TerminalFailed(o) ==
    \E row \in Rows : row.kind = "terminal" /\ row.order = o /\ row.by # "run"

Terminal(o) == \E row \in Rows : row.kind = "terminal" /\ row.order = o

(* in_flight_orders goes by the order's id.                                *)
InFlight == {o \in DOMAIN issued : Dispatched(o) /\ ~Terminal(o)}

ItemOf(a) == IF order[a] = 0 THEN NoRun ELSE issued[order[a]]

DAt(a, label) == dpc[a] = label

DGoto(a, label) == dpc' = [dpc EXCEPT ![a] = label]

WAlive(a) == wpc[a] \notin {"none", "gone"}

SAlive(a) == spc[a] \notin {"none", "gone"}

UnitActive(i) == \E a \in Attempt : ItemOf(a) = i /\ (SAlive(a) \/ WAlive(a))

(* LeaseRecord::is_live.  The lease names the supervisor's process, once   *)
(* the process backend has bound it.                                       *)
LeaseLive(i) ==
    /\ lease[i] # NoLease
    /\ IF lease[i].run = NoRun THEN ~lease[i].lapsed ELSE SAlive(lease[i].run)

NoJob == [order |-> 0, at |-> "none"]

Dispatching(a) == dpc[a] \notin {"idle", "done", "killed"}

Ending(a) == wpc[a] \in {"check", "append", "release"} \/ (SAlive(a) /\ wpc[a] = "gone")

Busy(i) ==
    \/ \E a \in Attempt : Dispatching(a) \/ (ItemOf(a) = i /\ Ending(a))
    \/ \E x \in Actor : job[x] # NoJob /\ issued[job[x].order] = i

Init ==
    /\ issued = <<>>
    /\ file = [i \in Item |-> 0]
    /\ lease = [i \in Item |-> NoLease]
    /\ trace = <<>>
    /\ dpc = [a \in Attempt |-> "idle"] /\ order = [a \in Attempt |-> 0]
    /\ wpc = [a \in Attempt |-> "none"] /\ served = [a \in Attempt |-> 0]
    /\ spc = [a \in Attempt |-> "none"]
    /\ job = [x \in Actor |-> NoJob]
    /\ old = {}
--------------------------------------------------------------------------------
(* create_work_order: refused while the item's last order is in flight or  *)
(* its lease is live.  A lease that is not is removed.                     *)
CreateOrder(i) ==
    /\ Len(issued) < MaxOrders
    /\ Overlap \/ ~Busy(i)
    /\ file[i] \notin InFlight
    /\ ~LeaseLive(i)
    /\ lease' = [lease EXCEPT ![i] = NoLease]
    /\ issued' = Append(issued, i)
    /\ file' = [file EXCEPT ![i] = Len(issued) + 1]
    /\ UNCHANGED <<trace, dpc, order, wpc, served, spc, job, old>>

(* run_dispatch reads the order.                                           *)
Begin(a, i) ==
    /\ DAt(a, "idle") /\ file[i] # 0
    /\ \A b \in Attempt : b < a => ~DAt(b, "idle")
    /\ Overlap \/ \A b \in Attempt : ~Dispatching(b)
    /\ Again \/ \A b \in Attempt : order[b] # file[i]
    /\ order' = [order EXCEPT ![a] = file[i]]
    /\ DGoto(a, "verify")
    /\ UNCHANGED <<issued, file, lease, trace, wpc, served, spc, job, old>>

(* Admission, repository, worktree, remote branches, pull requests, runner *)
(* and executable: a refusal may append work-failed for the order.         *)
Verify(a) ==
    /\ DAt(a, "verify")
    /\ \/ DGoto(a, "reap") /\ UNCHANGED trace
       \/ DGoto(a, "done") /\ trace' = Append(trace, Row("terminal", order[a], NoRun, "dispatch"))
       \/ DGoto(a, "done") /\ UNCHANGED trace
    /\ UNCHANGED <<issued, file, lease, order, wpc, served, spc, job, old>>
--------------------------------------------------------------------------------
(* reap_stale_work_orders, and append_terminal_row on behalf of it or of a *)
(* run's supervisor.                                                       *)

(* observe_unit_at: what the order's lease, or its unit, says of its run.  *)
Observed(o) ==
    LET i == issued[o] IN
    IF Backend = "systemd" THEN IF UnitActive(i) THEN "Live" ELSE "NotLive"
    ELSE IF lease[i] = NoLease THEN "NotLive"
    ELSE IF lease[i].run = NoRun THEN "Unknown"
    ELSE IF SAlive(lease[i].run) THEN "Live" ELSE "NotLive"

(* Mutant: an order past its time is reaped whatever its run does.         *)
ReapableOld(o) == o \in InFlight /\ o \in old

(* Mutant: the orders of the systemd backend are not looked at.            *)
ReapableProcess(o) ==
    /\ o \in InFlight /\ Backend = "process"
    /\ \/ Observed(o) = "NotLive"
       \/ Observed(o) = "Unknown" /\ o \in old

Reapable(o) ==
    /\ o \in InFlight
    /\ \/ Observed(o) = "NotLive" /\ (Backend = "process" \/ o \in old)
       \/ Observed(o) = "Unknown" /\ o \in old

Reaping(x) == x \in Attempt => dpc[x] \in {"reap", "recheck"}

Observe(x, o) ==
    /\ Reaping(x) /\ job[x] = NoJob
    /\ Reapable(o)
    /\ job' = [job EXCEPT ![x] = [order |-> o, at |-> "check"]]
    /\ UNCHANGED <<issued, file, lease, trace, dpc, order, wpc, served, spc, old>>

JobAt(x, label) == job[x].at = label

JobGoto(x, label) == job' = [job EXCEPT ![x].at = label]

CheckInFlight(x) ==
    /\ JobAt(x, "check")
    /\ JobGoto(x, IF job[x].order \in InFlight THEN "write" ELSE "unlease")
    /\ UNCHANGED <<issued, file, lease, trace, dpc, order, wpc, served, spc, old>>

By(x) == IF x \in Attempt /\ spc[x] = "close" THEN "supervisor" ELSE "reaper"

WriteTerminal(x) ==
    /\ JobAt(x, "write")
    /\ trace' = Append(trace, Row("terminal", job[x].order, NoRun, By(x)))
    /\ JobGoto(x, "unlease")
    /\ UNCHANGED <<issued, file, lease, dpc, order, wpc, served, spc, old>>

(* A failed append ends the dispatch or the supervisor that reaped.        *)
WriteTerminalFails(x) ==
    /\ WritesFail /\ JobAt(x, "write")
    /\ job' = [job EXCEPT ![x] = NoJob]
    /\ IF By(x) = "supervisor" THEN spc' = [spc EXCEPT ![x] = "gone"] /\ UNCHANGED dpc
       ELSE IF x \in Attempt
       THEN DGoto(x, IF DAt(x, "reap") THEN "done" ELSE "release") /\ UNCHANGED spc
       ELSE UNCHANGED <<spc, dpc>>
    /\ UNCHANGED <<issued, file, lease, trace, order, wpc, served, old>>

(* release_matching_lease goes by the unit name: any lease of the item.    *)
Unlease(x) ==
    /\ JobAt(x, "unlease")
    /\ lease' = [lease EXCEPT ![issued[job[x].order]] = NoLease]
    /\ job' = [job EXCEPT ![x] = NoJob]
    /\ spc' = IF By(x) = "supervisor" THEN [spc EXCEPT ![x] = "gone"] ELSE spc
    /\ UNCHANGED <<issued, file, trace, dpc, order, wpc, served, old>>

CloseStep(x) ==
    CheckInFlight(x) \/ WriteTerminal(x) \/ WriteTerminalFails(x) \/ Unlease(x)
--------------------------------------------------------------------------------
(* The item's lease.                                                       *)

(* An order of the item in flight refuses the dispatch, before the lease   *)
(* is taken and again after.                                               *)
ItemInFlight(a) == \E o \in InFlight : issued[o] = ItemOf(a)

Reaped(a) ==
    /\ DAt(a, "reap") /\ job[a] = NoJob
    /\ DGoto(a, IF ItemInFlight(a) THEN "done" ELSE "look")
    /\ UNCHANGED <<issued, file, lease, trace, order, wpc, served, spc, job, old>>

(* acquire_dispatch_lease takes no guard: the lease is read, a lapsed one  *)
(* is removed, and a new one is created exclusively, and written in the    *)
(* same step here: a file that was left unwritten refuses every dispatch.  *)
LookAtLease(a) ==
    /\ DAt(a, "look")
    /\ DGoto(a, IF LeaseLive(ItemOf(a)) THEN "done"
                ELSE IF lease[ItemOf(a)] = NoLease THEN "create" ELSE "remove")
    /\ UNCHANGED <<issued, file, lease, trace, order, wpc, served, spc, job, old>>

RemoveLease(a) ==
    /\ DAt(a, "remove")
    /\ DGoto(a, IF lease[ItemOf(a)] = NoLease THEN "done" ELSE "create")
    /\ lease' = [lease EXCEPT ![ItemOf(a)] = NoLease]
    /\ UNCHANGED <<issued, file, trace, order, wpc, served, spc, job, old>>

CreateLease(a) ==
    /\ DAt(a, "create")
    /\ IF lease[ItemOf(a)] = NoLease
       THEN /\ lease' = [lease EXCEPT ![ItemOf(a)] = [run |-> NoRun, lapsed |-> FALSE]]
            /\ DGoto(a, "recheck")
       ELSE DGoto(a, "done") /\ UNCHANGED lease
    /\ UNCHANGED <<issued, file, trace, order, wpc, served, spc, job, old>>

(* Mutant: the ceiling is off by one.                                      *)
CeilingOffByOne(a) == Cardinality(InFlight) > MaxInFlight

CeilingReached(a) == Cardinality(InFlight) >= MaxInFlight

(* after_lease: open pull requests and the daily cap may refuse as well.   *)
Recheck(a) ==
    /\ DAt(a, "recheck") /\ job[a] = NoJob
    /\ \/ DGoto(a, "release")
       \/ ~ItemInFlight(a) /\ ~CeilingReached(a) /\ DGoto(a, "launch")
    /\ UNCHANGED <<issued, file, lease, trace, order, wpc, served, spc, job, old>>
--------------------------------------------------------------------------------
(* launch_process, launch_systemd.                                         *)

(* A unit of that name that is still active refuses another.               *)
Launch(a) ==
    /\ DAt(a, "launch")
    /\ \/ DGoto(a, "failed") /\ UNCHANGED <<wpc, spc>>
       \/ /\ Backend = "systemd" => ~UnitActive(ItemOf(a))
          /\ wpc' = [wpc EXCEPT ![a] = "start"]
          /\ spc' = [spc EXCEPT ![a] = "watch"]
          /\ DGoto(a, IF Backend = "process" THEN "bind" ELSE "grace")
    /\ UNCHANGED <<issued, file, lease, trace, order, served, job, old>>

(* LeaseGuard::bind_process: the process backend names the run in the      *)
(* lease, if a lease of that name is there.                                *)
Bind(a) ==
    /\ DAt(a, "bind")
    /\ IF SAlive(a) /\ lease[ItemOf(a)] # NoLease
       THEN /\ lease' = [lease EXCEPT ![ItemOf(a)].run = a]
            /\ DGoto(a, "grace")
       ELSE DGoto(a, "stop") /\ UNCHANGED lease
    /\ UNCHANGED <<issued, file, trace, order, wpc, served, spc, job, old>>

StartupGrace(a) ==
    /\ DAt(a, "grace")
    /\ DGoto(a, IF SAlive(a) THEN "record" ELSE "stop")
    /\ UNCHANGED <<issued, file, lease, trace, order, wpc, served, spc, job, old>>

(* Mutant: the lease is not disarmed.                                      *)
RecordArmed(a) ==
    /\ DAt(a, "record")
    /\ trace' = Append(trace, Row("dispatched", order[a], a, "dispatch"))
    /\ DGoto(a, "release")
    /\ UNCHANGED <<issued, file, lease, order, wpc, served, spc, job, old>>

(* append_dispatched.  A failure stops the process it could not record, or *)
(* leaves the unit, and is no row.                                         *)
Record(a) ==
    /\ DAt(a, "record")
    /\ \/ /\ trace' = Append(trace, Row("dispatched", order[a], a, "dispatch"))
          /\ DGoto(a, "done") /\ UNCHANGED <<wpc, spc>>
       \/ /\ WritesFail /\ DGoto(a, "release") /\ UNCHANGED trace
          /\ IF Backend = "process"
             THEN wpc' = [wpc EXCEPT ![a] = "gone"] /\ spc' = [spc EXCEPT ![a] = "gone"]
             ELSE UNCHANGED <<wpc, spc>>
    /\ UNCHANGED <<issued, file, lease, order, served, job, old>>

(* stop_process_child.                                                     *)
StopChild(a) ==
    /\ DAt(a, "stop")
    /\ wpc' = [wpc EXCEPT ![a] = "gone"] /\ spc' = [spc EXCEPT ![a] = "gone"]
    /\ DGoto(a, "failed")
    /\ UNCHANGED <<issued, file, lease, trace, order, served, job, old>>

(* append_launch_failure.                                                  *)
LaunchFailed(a) ==
    /\ DAt(a, "failed")
    /\ trace' = Append(trace, Row("terminal", order[a], NoRun, "dispatch"))
    /\ DGoto(a, "release")
    /\ UNCHANGED <<issued, file, lease, order, wpc, served, spc, job, old>>

(* LeaseGuard::release: again by the unit name.                            *)
ReleaseDispatch(a) ==
    /\ DAt(a, "release")
    /\ lease' = [lease EXCEPT ![ItemOf(a)] = NoLease]
    /\ DGoto(a, "done")
    /\ UNCHANGED <<issued, file, trace, order, wpc, served, spc, job, old>>
--------------------------------------------------------------------------------
(* The run: its worker.                                                    *)

(* run_implement adopts the lease of its unit name and reads the order     *)
(* file.  With no lease it ends before it can write a row.                 *)
Adopt(a) ==
    /\ wpc[a] = "start"
    /\ IF lease[ItemOf(a)] = NoLease
       THEN wpc' = [wpc EXCEPT ![a] = "gone"] /\ UNCHANGED served
       ELSE wpc' = [wpc EXCEPT ![a] = "work"] /\ served' = [served EXCEPT ![a] = file[ItemOf(a)]]
    /\ UNCHANGED <<issued, file, lease, trace, dpc, order, spc, job, old>>

(* The work is done, fails, meets its wall cap or is told to stop.         *)
EndWork(a) ==
    /\ wpc[a] = "work"
    /\ wpc' = [wpc EXCEPT ![a] = "check"]
    /\ UNCHANGED <<issued, file, lease, trace, dpc, order, served, spc, job, old>>

(* TerminalGuard::append_terminal; run_already_terminal looks for a row    *)
(* that names this run.                                                    *)
CheckTerminal(a) ==
    /\ wpc[a] = "check"
    /\ wpc' = [wpc EXCEPT ![a] =
          IF \E row \in Rows : row.kind = "terminal" /\ row.order = served[a] /\ row.run = a
          THEN "release" ELSE "append"]
    /\ UNCHANGED <<issued, file, lease, trace, dpc, order, served, spc, job, old>>

AppendTerminal(a) ==
    /\ wpc[a] = "append"
    /\ \/ trace' = Append(trace, Row("terminal", served[a], a, "run"))
       \/ WritesFail /\ UNCHANGED trace
    /\ wpc' = [wpc EXCEPT ![a] = "release"]
    /\ UNCHANGED <<issued, file, lease, dpc, order, served, spc, job, old>>

(* TerminalGuard::finish; the run goes by the unit name as well.           *)
ReleaseRun(a) ==
    /\ wpc[a] = "release"
    /\ lease' = [lease EXCEPT ![ItemOf(a)] = NoLease]
    /\ wpc' = [wpc EXCEPT ![a] = "gone"]
    /\ UNCHANGED <<issued, file, trace, dpc, order, served, spc, job, old>>

(* The run: its supervisor.                                                *)

(* finalize_exited_implementer reads the order file once more.             *)
Finalize(a) ==
    /\ spc[a] = "watch" /\ ~WAlive(a)
    /\ LET o == file[ItemOf(a)] IN
       IF o \in InFlight
       THEN /\ spc' = [spc EXCEPT ![a] = "close"]
            /\ job' = [job EXCEPT ![a] = [order |-> o, at |-> "check"]]
       ELSE spc' = [spc EXCEPT ![a] = "gone"] /\ UNCHANGED job
    /\ UNCHANGED <<issued, file, lease, trace, dpc, order, wpc, served, old>>

RunStep(a) ==
    \/ Adopt(a) \/ EndWork(a) \/ CheckTerminal(a) \/ AppendTerminal(a) \/ ReleaseRun(a)
    \/ Finalize(a)

DispatchStep(a) ==
    \/ Verify(a) \/ Reaped(a) \/ LookAtLease(a) \/ RemoveLease(a) \/ CreateLease(a)
    \/ Recheck(a) \/ Launch(a) \/ Bind(a) \/ StartupGrace(a) \/ Record(a)
    \/ StopChild(a) \/ LaunchFailed(a) \/ ReleaseDispatch(a)
--------------------------------------------------------------------------------
(* Time, and kills.                                                        *)

(* A bound lease goes by its process, not by the clock.                    *)
Lapse(i) ==
    /\ lease[i] # NoLease /\ lease[i].run = NoRun /\ ~lease[i].lapsed
    /\ lease' = [lease EXCEPT ![i].lapsed = TRUE]
    /\ UNCHANGED <<issued, file, trace, dpc, order, wpc, served, spc, job, old>>

GrowOld(o) ==
    /\ o \in InFlight \ old
    /\ old' = old \cup {o}
    /\ UNCHANGED <<issued, file, lease, trace, dpc, order, wpc, served, spc, job>>

KillDispatcher(a) ==
    /\ "dispatcher" \in Killable /\ Dispatching(a)
    /\ WholeLaunches => dpc[a] \notin {"bind", "grace", "record", "stop"}
    /\ DGoto(a, "killed")
    /\ job' = IF Reaping(a) THEN [job EXCEPT ![a] = NoJob] ELSE job
    /\ UNCHANGED <<issued, file, lease, trace, order, wpc, served, spc, old>>

(* What is killed of a run: all of it, its worker, or its supervisor,      *)
(* which is a unit's main process and takes the worker along.              *)
KillRun(a) ==
    /\ WAlive(a) \/ SAlive(a)
    /\ \E what \in Killable \ {"dispatcher"} :
          /\ wpc' = IF wpc[a] = "none" \/ (what = "supervisor" /\ Backend = "process") THEN wpc
                    ELSE [wpc EXCEPT ![a] = "gone"]
          /\ spc' = IF what = "worker" THEN spc ELSE [spc EXCEPT ![a] = "gone"]
          /\ job' = IF what # "worker" /\ spc[a] = "close" THEN [job EXCEPT ![a] = NoJob] ELSE job
          /\ <<wpc', spc'>> # <<wpc, spc>>
    /\ UNCHANGED <<issued, file, lease, trace, dpc, order, served, old>>

Next ==
    \/ \E i \in Item : CreateOrder(i) \/ Lapse(i)
    \/ \E a \in Attempt : \/ \E i \in Item : Begin(a, i)
                          \/ DispatchStep(a) \/ RunStep(a) \/ KillDispatcher(a) \/ KillRun(a)
    \/ \E x \in Actor : CloseStep(x) \/ \E o \in DOMAIN issued : Observe(x, o)
    \/ \E o \in DOMAIN issued : GrowOld(o)

Spec == Init /\ [][Next]_vars

(* Processes go on unless they are killed, a run meets its wall cap, other *)
(* items' dispatches reap again and again, whatever they look at, and do   *)
(* not fail to append for ever.                                            *)
FairSpec ==
    /\ Spec
    /\ \A a \in Attempt : WF_vars(DispatchStep(a)) /\ WF_vars(RunStep(a))
    /\ \A x \in Actor : WF_vars(CloseStep(x)) /\ SF_vars(WriteTerminal(x))
    /\ \A x \in Reaper, o \in 1 .. MaxOrders :
          SF_vars(o \in DOMAIN issued /\ Observe(x, o)) /\ WF_vars(o \in DOMAIN issued /\ GrowOld(o))
--------------------------------------------------------------------------------
(* Every variable has its type.                                            *)
TypeOK ==
    /\ issued \in Seq(Item) /\ Len(issued) <= MaxOrders
    /\ file \in [Item -> 0 .. Len(issued)]
    /\ lease \in [Item -> [run : Attempt \cup {NoRun}, lapsed : BOOLEAN] \cup {NoLease}]
    /\ trace \in Seq([kind : {"dispatched", "terminal"}, order : DOMAIN issued,
                      run : Attempt \cup {NoRun},
                      by : {"dispatch", "run", "supervisor", "reaper"}])
    /\ dpc \in [Attempt -> {"idle", "verify", "reap", "look", "remove", "create", "recheck",
                            "launch", "bind", "grace", "record", "stop", "failed", "release",
                            "done", "killed"}]
    /\ order \in [Attempt -> 0 .. Len(issued)] /\ served \in [Attempt -> 0 .. Len(issued)]
    /\ wpc \in [Attempt -> {"none", "start", "work", "check", "append", "release", "gone"}]
    /\ spc \in [Attempt -> {"none", "watch", "close", "gone"}]
    /\ job \in [Actor -> [order : 0 .. Len(issued), at : {"none", "check", "write", "unlease"}]]
    /\ old \subseteq DOMAIN issued

Working(a) == wpc[a] = "work"

(* "Dispatch owns this item lease until a terminal row is durable;         *)
(* adoption prevents an independently launched implementer from spending   *)
(* the order" (implement.rs:473-474): two runs never work on one item, and *)
(* in one worktree, at the same time.                                      *)
OneRunPerItem ==
    \A a, b \in Attempt : Working(a) /\ Working(b) /\ ItemOf(a) = ItemOf(b) => a = b

(* MANDATE_MAX_IMPLEMENTERS bounds the runs that work, not only the rows   *)
(* that say so.                                                            *)
RunsWithinCeiling == Cardinality({a \in Attempt : Working(a)}) <= MaxInFlight

(* A run whose dispatch has ended counts as in flight as long as it works: *)
(* the ceilings, the daily cap's reservations and the reapers see it.      *)
WorkingInFlight ==
    \A a \in Attempt : Working(a) /\ dpc[a] = "done" => order[a] \in InFlight

(* The ceilings count every run that works, and bound them.                *)
RunsAreCounted == WorkingInFlight /\ RunsWithinCeiling

(* "A run that wrote its own row first keeps the only one"                 *)
(* (work_order.rs:676): neither a supervisor nor a reaper adds a terminal  *)
(* row to one a run has written, nor a run to theirs.                      *)
RunKeepsOnlyRow ==
    \A j, k \in DOMAIN trace :
        /\ trace[j].kind = "terminal" /\ trace[j].by = "run"
        /\ trace[k].kind = "terminal" /\ trace[k].by # "dispatch"
        /\ trace[j].order = trace[k].order
        => j = k

(* "Dispatch owns this item lease until a terminal row is durable"         *)
(* (implement.rs:473): a lease that names a run stays while the run works  *)
(* or its order is in flight; only that run, once it has tried to write    *)
(* the row, gives it up.                                                   *)
LeaseStays ==
    \A i \in Item, a \in Attempt :
        /\ lease[i] # NoLease /\ lease[i].run = a
        /\ Working(a) \/ order[a] \in InFlight
        /\ lease'[i] # lease[i]
        => wpc[a] = "release"
LeaseOutlivesOrder == [][LeaseStays]_vars

(* A dispatched order is ended, by the run, its supervisor or a reaper,    *)
(* whoever is killed.                                                      *)
DispatchedOrderEnds == \A o \in 1 .. MaxOrders : Dispatched(o) ~> Terminal(o)
================================================================================
