----------------------------- MODULE LoopSupervisor -----------------------------
(***************************************************************************)
(* The loop supervisor (ostrom-cli's loop_supervisor.rs): `ostrom up`, run *)
(* by a timer or by hand, stops the workers of policy versions that have   *)
(* been replaced and launches, for each loop whose slot has come, one      *)
(* worker.  It and its workers know of each other through one state file   *)
(* per loop, read and later replaced whole, without a lock.                *)
(***************************************************************************)
EXTENDS Integers, FiniteSets

CONSTANTS
    Loop,
    Worker,      \* the processes that `up` may start, each once
    Up,          \* the processes that run `ostrom up`, again and again
    None,
    Apart,       \* whether one `up` runs at a time
    Prompt,      \* whether a worker that was started records itself at once
    Careless,    \* whether a version may be replaced at any time
    MaxSlot,     \* bound: slots of the schedule
    MaxVersion,  \* bound: policy versions
    MaxFaults    \* bound: kills, failing writes, failing launches

VARIABLES
    slot, old,   \* the latest slot, and whether it is over two hours old
    version,     \* the current policy version
    state,       \* each loop's file in loop-runs/
    upPc, todo, work,   \* each `up`: where it is, what is left, what it has read
    wpc, args, read,    \* each worker: where it is, what it was started with, what it has read
    faults
clockVars == <<slot, old, version>>
upVars == <<upPc, todo, work>>
workerVars == <<wpc, args, read>>
vars == <<clockVars, state, upVars, workerVars, faults>>

(* LoopRunState; a process's identity, pid and start time, is the worker.  *)
Run(v, s, status, pid) == [version |-> v, slot |-> s, status |-> status, pid |-> pid]
MayBeAlive(run) == run.status \in {"starting", "running", "skipped"}
Settled(run, v, s) ==
    run # None /\ run.version = v /\ run.slot = s /\ run.status # "held"

Unrecorded == {w \in Worker : wpc[w] \in {"started", "record"}}
Working == {w \in Worker : wpc[w] = "running"}
Running(w) == w \in Unrecorded \cup Working \/ wpc[w] \in {"finish", "close", "fail", "refuse"}

Init ==
    /\ slot = 1 /\ old = FALSE /\ version = 1
    /\ state = [l \in Loop |-> None]
    /\ upPc = [u \in Up |-> "idle"] /\ todo = [u \in Up |-> {}] /\ work = [u \in Up |-> None]
    /\ wpc = [w \in Worker |-> "none"] /\ args = [w \in Worker |-> None]
    /\ read = [w \in Worker |-> None]
    /\ faults = 0

(* Where versions are replaced with care, each loop is at rest or its      *)
(* recorded worker at work, no `up` runs, and nothing fails before the     *)
(* next `up` has stopped what is left of the old version.                  *)
Quiet == Prompt => Unrecorded = {}
Careful ==
    /\ \A u \in Up : upPc[u] = "idle"
    /\ \A l \in Loop : state[l] # None /\ MayBeAlive(state[l]) =>
          state[l].status = "running" /\ Running(state[l].pid)
Group(w) == Running(w) \/ wpc[w] = "orphan"
Current ==
    /\ \A u \in Up : upPc[u] # "idle" => work[u].version = version
    /\ \A w \in Worker : Group(w) => args[w].version = version
    /\ \A l \in Loop : state[l] # None /\ MayBeAlive(state[l]) => state[l].version = version
Fault == faults < MaxFaults /\ (Careless \/ Current) /\ faults' = faults + 1
--------------------------------------------------------------------------------
(* The schedule and the operator: a slot grows old, another comes, another *)
(* version is composed.                                                    *)
GrowOld ==
    /\ ~old /\ old' = TRUE
    /\ UNCHANGED <<slot, version, state, upVars, workerVars, faults>>
NextSlot ==
    /\ slot < MaxSlot /\ Quiet
    /\ slot' = slot + 1 /\ old' = FALSE
    /\ UNCHANGED <<version, state, upVars, workerVars, faults>>
Compose ==
    /\ version < MaxVersion /\ Quiet /\ (Careless \/ Careful)
    /\ version' = version + 1
    /\ UNCHANGED <<slot, old, state, upVars, workerVars, faults>>
--------------------------------------------------------------------------------
(* `ostrom up`.  Each file is read when its turn comes.                    *)
UpGoto(u, l) == upPc' = [upPc EXCEPT ![u] = l]
Leave(u) ==
    /\ UpGoto(u, "idle")
    /\ todo' = [todo EXCEPT ![u] = {}] /\ work' = [work EXCEPT ![u] = None]
At(u, l, run, next) == [version |-> work[u].version, slot |-> work[u].slot, old |-> work[u].old,
                        loop |-> l, run |-> run, next |-> next]

Start(u) ==
    /\ upPc[u] = "idle" /\ Quiet
    /\ Apart => \A x \in Up : upPc[x] = "idle"
    /\ UpGoto(u, "stop")
    /\ todo' = [todo EXCEPT ![u] = {l \in Loop : state[l] # None}]
    /\ work' = [work EXCEPT ![u] = [version |-> version, slot |-> 0, old |-> FALSE,
                                    loop |-> None, run |-> None, next |-> None]]
    /\ UNCHANGED <<clockVars, state, workerVars, faults>>

(* stop_obsolete: a run that may be alive, of another version, is stopped. *)
(* Without a process, or with one whose group has gone, `up` gives up.     *)
Obsolete(u, l) == MayBeAlive(state[l]) /\ state[l].version # work[u].version
KeepRun(u) ==
    /\ upPc[u] = "stop"
    /\ \E l \in todo[u] : ~Obsolete(u, l) /\ todo' = [todo EXCEPT ![u] = @ \ {l}]
    /\ UNCHANGED <<clockVars, state, upPc, work, workerVars, faults>>
JudgeObsolete(u) ==
    /\ upPc[u] = "stop"
    /\ \E l \in todo[u] : Obsolete(u, l) /\ work' = [work EXCEPT ![u] = At(u, l, state[l], None)]
    /\ UpGoto(u, "terminate")
    /\ UNCHANGED <<clockVars, state, todo, workerVars, faults>>
(* kill -TERM of the process group; the worker does not handle it.         *)
Terminate(u) ==
    /\ upPc[u] = "terminate"
    /\ LET run == work[u].run
       IN  IF run.pid # None /\ Group(run.pid)
           THEN /\ wpc' = [wpc EXCEPT ![run.pid] = "gone"] /\ read' = [read EXCEPT ![run.pid] = None]
                /\ UpGoto(u, "stopped") /\ UNCHANGED <<todo, work>>
           ELSE Leave(u) /\ UNCHANGED <<wpc, read>>
    /\ UNCHANGED <<clockVars, state, args, faults>>
WriteStopped(u) ==
    /\ upPc[u] = "stopped"
    /\ LET run == work[u].run
       IN  state' = [state EXCEPT ![work[u].loop] = Run(run.version, run.slot, "stopped", None)]
    /\ todo' = [todo EXCEPT ![u] = @ \ {work[u].loop}]
    /\ UpGoto(u, "stop")
    /\ UNCHANGED <<clockVars, work, workerVars, faults>>

(* The time is read once, for all the loops.                               *)
ReadClock(u) ==
    /\ upPc[u] = "stop" /\ todo[u] = {}
    /\ UpGoto(u, "loops") /\ todo' = [todo EXCEPT ![u] = Loop]
    /\ work' = [work EXCEPT ![u].slot = slot, ![u].old = old]
    /\ UNCHANGED <<clockVars, state, workerVars, faults>>

(* A loop whose slot is settled is left; one whose last worker runs, whose *)
(* slot is old, or which is over a ceiling is only recorded; one that the  *)
(* machine cannot take is tried again by the next `up`.  An unknown        *)
(* measurement ends the whole `up`.                                        *)
Leaves(u) ==
    /\ upPc[u] = "loops"
    /\ \E l \in todo[u] :
          /\ Settled(state[l], work[u].version, work[u].slot)
          /\ todo' = [todo EXCEPT ![u] = @ \ {l}]
    /\ UNCHANGED <<clockVars, state, upPc, work, workerVars, faults>>
(* Mutant: a skip does not say which worker it is waiting for.             *)
NextRunForgets(u, run) ==
    LET new(status) == Run(work[u].version, work[u].slot, status, None)
    IN  IF run # None /\ MayBeAlive(run) /\ run.pid # None /\ Running(run.pid)
        THEN {new("skipped")}
        ELSE IF work[u].old THEN {new("stale")}
        ELSE {new("stopped"), new("held"), new("starting")}

NextRun(u, run) ==
    LET new(status, pid) == Run(work[u].version, work[u].slot, status, pid)
    IN  IF run # None /\ MayBeAlive(run) /\ run.pid # None /\ Running(run.pid)
        THEN {new("skipped", run.pid)}
        ELSE IF work[u].old THEN {new("stale", None)}
        ELSE {new("stopped", None), new("held", None), new("starting", None)}
Judge(u) ==
    /\ upPc[u] = "loops"
    /\ \E l \in todo[u] :
          /\ ~Settled(state[l], work[u].version, work[u].slot)
          /\ \E run \in NextRun(u, state[l]) :
                /\ run.status = "held" => Fault
                /\ run.status # "held" => UNCHANGED faults
                /\ work' = [work EXCEPT ![u] = At(u, l, state[l], run)]
    /\ UpGoto(u, "write")
    /\ UNCHANGED <<clockVars, state, todo, workerVars>>
WriteRun(u) ==
    /\ upPc[u] = "write"
    /\ state' = [state EXCEPT ![work[u].loop] = work[u].next]
    /\ UpGoto(u, IF work[u].next.status = "starting" THEN "spawn" ELSE "loops")
    /\ todo' = [todo EXCEPT ![u] = @ \ {work[u].loop}]
    /\ UNCHANGED <<clockVars, work, workerVars, faults>>
Spawn(u) ==
    /\ upPc[u] = "spawn"
    /\ \E w \in Worker : wpc[w] = "none"
    /\ LET w == CHOOSE w \in Worker : wpc[w] = "none"
       IN  /\ wpc' = [wpc EXCEPT ![w] = "started"]
           /\ args' = [args EXCEPT ![w] = [loop |-> work[u].loop, version |-> work[u].version,
                                           slot |-> work[u].slot]]
    /\ UpGoto(u, "loops")
    /\ UNCHANGED <<clockVars, state, todo, work, read, faults>>
SpawnFails(u) ==
    /\ upPc[u] = "spawn" /\ Fault
    /\ state' = [state EXCEPT ![work[u].loop] = [work[u].next EXCEPT !.status = "failed"]]
    /\ Leave(u)
    /\ UNCHANGED <<clockVars, workerVars>>
Finish(u) ==
    /\ upPc[u] = "loops" /\ todo[u] = {}
    /\ Leave(u)
    /\ UNCHANGED <<clockVars, state, workerVars, faults>>
(* Killed, or ended by an error of any of its steps.                       *)
UpStops(u) ==
    /\ upPc[u] # "idle" /\ Fault
    /\ Leave(u)
    /\ UNCHANGED <<clockVars, state, workerVars>>
--------------------------------------------------------------------------------
(* __loop-worker.  worker_started checks the version and its activation,   *)
(* then names itself in the state.  A worker that may not start, and one   *)
(* whose work failed, record a failure.                                    *)
WorkerGoto(w, l) == wpc' = [wpc EXCEPT ![w] = l]
Mine(w, run) == run.version = args[w].version /\ run.slot = args[w].slot
CheckIn(w) ==
    /\ wpc[w] = "started"
    /\ LET run == state[args[w].loop]
       IN  IF args[w].version = version /\ (run = None \/ Mine(w, run))
           THEN WorkerGoto(w, "record") ELSE WorkerGoto(w, "fail")
    /\ UNCHANGED <<clockVars, state, upVars, args, read, faults>>
RecordRunning(w) ==
    /\ wpc[w] = "record"
    /\ state' = [state EXCEPT ![args[w].loop] = Run(args[w].version, args[w].slot, "running", w)]
    /\ WorkerGoto(w, "running")
    /\ UNCHANGED <<clockVars, upVars, args, read, faults>>
WorkEnds(w) ==
    /\ wpc[w] = "running" /\ \E l \in {"finish", "fail"} : WorkerGoto(w, l)
    /\ UNCHANGED <<clockVars, state, upVars, args, read, faults>>

(* worker_finished: read the state, clear its process, write it; a skip    *)
(* keeps saying so.                                                        *)
ReadOwn(w) ==
    /\ wpc[w] \in {"finish", "fail"}
    /\ read' = [read EXCEPT ![w] = state[args[w].loop]]
    /\ WorkerGoto(w, IF wpc[w] = "finish" THEN "close" ELSE "refuse")
    /\ UNCHANGED <<clockVars, state, upVars, args, faults>>
Exit(w) == WorkerGoto(w, "gone") /\ read' = [read EXCEPT ![w] = None]
WriteOwn(w) ==
    /\ wpc[w] \in {"close", "refuse"}
    /\ LET run == read[w]
           ended == IF wpc[w] = "refuse" THEN "failed" ELSE "completed"
       IN  state' = [state EXCEPT ![args[w].loop] =
               IF run = None THEN @
               ELSE Run(run.version, run.slot, IF run.status = "skipped" THEN "skipped" ELSE ended, None)]
    /\ Exit(w)
    /\ UNCHANGED <<clockVars, upVars, args, faults>>

(* A worker is killed, or ends with an error before or after its work;     *)
(* the pass it started may go on in its process group.                     *)
KillWorker(w) ==
    /\ Running(w) /\ Fault
    /\ \/ Exit(w)
       \/ wpc[w] = "running" /\ WorkerGoto(w, "orphan") /\ UNCHANGED read
    /\ UNCHANGED <<clockVars, state, upVars, args>>
OrphanEnds(w) ==
    /\ wpc[w] = "orphan" /\ WorkerGoto(w, "gone")
    /\ UNCHANGED <<clockVars, state, upVars, args, read, faults>>
--------------------------------------------------------------------------------
UpStep(u) ==
    \/ KeepRun(u) \/ JudgeObsolete(u) \/ Terminate(u) \/ WriteStopped(u) \/ ReadClock(u)
    \/ Leaves(u) \/ Judge(u) \/ WriteRun(u) \/ Spawn(u) \/ SpawnFails(u) \/ Finish(u)
WorkerStep(w) ==
    CheckIn(w) \/ RecordRunning(w) \/ WorkEnds(w) \/ ReadOwn(w) \/ WriteOwn(w) \/ OrphanEnds(w)
Next ==
    \/ GrowOld \/ NextSlot \/ Compose
    \/ \E u \in Up : Start(u) \/ UpStep(u) \/ UpStops(u)
    \/ \E w \in Worker : WorkerStep(w) \/ KillWorker(w)
Spec == Init /\ [][Next]_vars

(* The timer comes again; processes go on until they are killed; a role's  *)
(* wall ceiling ends a worker's pass.                                      *)
FairSpec ==
    /\ Spec
    /\ \A u \in Up : WF_vars(Start(u)) /\ WF_vars(UpStep(u))
    /\ \A w \in Worker : WF_vars(WorkerStep(w))
--------------------------------------------------------------------------------
Status == {"starting", "running", "completed", "failed", "stopped", "stale", "skipped", "held"}
Runs == [version : 1 .. MaxVersion, slot : 1 .. MaxSlot, status : Status, pid : Worker \cup {None}]
Launches == [loop : Loop, version : 1 .. MaxVersion, slot : 1 .. MaxSlot]
Works == [version : 1 .. MaxVersion, slot : 0 .. MaxSlot, old : BOOLEAN, loop : Loop \cup {None},
          run : Runs \cup {None}, next : Runs \cup {None}]

Constants ==
    /\ MaxSlot \in Nat \ {0} /\ MaxVersion \in Nat \ {0} /\ MaxFaults \in Nat
    /\ None \notin Worker \cup Runs \cup Launches \cup Works

TypeOK ==
    /\ slot \in 1 .. MaxSlot /\ old \in BOOLEAN /\ version \in 1 .. MaxVersion
    /\ state \in [Loop -> Runs \cup {None}]
    /\ upPc \in [Up -> {"idle", "stop", "terminate", "stopped", "loops", "write", "spawn"}]
    /\ todo \in [Up -> SUBSET Loop] /\ work \in [Up -> Works \cup {None}]
    /\ \A u \in Up : upPc[u] = "idle" <=> work[u] = None
    /\ wpc \in [Worker -> {"none", "started", "record", "running", "finish", "fail", "close",
                           "refuse", "orphan", "gone"}]
    /\ args \in [Worker -> Launches \cup {None}] /\ read \in [Worker -> Runs \cup {None}]
    /\ \A w \in Worker : wpc[w] = "none" <=> args[w] = None
    /\ faults \in 0 .. MaxFaults

(* "ostrom up does not launch a loop's slot while the previous worker for  *)
(* that loop is still running" (docs/loops.md:181): two workers of a loop  *)
(* never work at the same time, through skips, replaced versions, kills    *)
(* and the writes of workers that end.                                     *)
OneWorkerPerLoop ==
    \A w, x \in Working : args[w].loop = args[x].loop => w = x

(* "A second invocation in the same version and cadence slot is a no-op"   *)
(* (docs/loops.md:96-97): a slot gets one worker of a version, however its *)
(* state is rewritten by `up` and by workers that end late.                *)
SlotLaunchedOnce ==
    \A w, x \in Worker : args[w] # None /\ args[w] = args[x] => w = x

(* "finds each loop's most recent local civil-time cadence slot, records   *)
(* process state" (docs/loops.md:95-96): whatever died before, the latest  *)
(* slot of the current version comes to be in the state.                   *)
SlotRecorded == \A l \in Loop : Settled(state[l], version, slot)
SlotsAreRecorded == []<>SlotRecorded
================================================================================
