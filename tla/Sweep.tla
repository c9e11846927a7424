--------------------------------- MODULE Sweep ---------------------------------
(***************************************************************************)
(* The sweep of the roster and what others do to its files: sweep.rs       *)
(* writes the queue, the repository snapshot and the state, in that order, *)
(* under a renewable lease; passes reuse a generation that is fresh        *)
(* (pass.rs prepare_sweep); a repair invalidates it (repair.rs); the desk  *)
(* answers rows of the queue without any lock (queue.rs).                  *)
(* A repository has one item here: an issue that crosses a tripwire, so    *)
(* that its row needs a judgment.  An open pull request that is to close   *)
(* it, and needs attention itself, shadows it: until it is closed or       *)
(* merged it speaks for the issue, by a row of its own that is left out.   *)
(***************************************************************************)
EXTENDS Integers, FiniteSets

CONSTANTS
    Sweeper,     \* processes that want the sweep lease
    Repo,        \* the configured roster
    None,
    Kinds,       \* the jobs that are asked for
    Desk,        \* whether the desk answers
    Crosses,     \* whether an answer may cross a sweep's read and write
    Closers,     \* whether pull requests may come that are to close an item, and shadow it
    Window,      \* whether a holder may lose its lease while it commits
    MaxAge,      \* the age below which a generation is fresh
    MaxClock,    \* bound: the wall clock
    MaxRev,      \* bound: revisions of an item
    MaxFaults    \* bound: crashes, errors and lapses of the lease

VARIABLES
    clock,
    forge,       \* each repository's item: its revision, whether it is merged or shadowed
    lease,       \* the sweeper sweep.lease names
    queue,       \* queue.jsonl: the state of each item's row
    snapshot,    \* sweep-snapshot.json: a generation and its repositories
    state,       \* state.json: a generation and what is known of each item
    requests,    \* decision.requested events of the relay run, by repository
    facts,       \* decision-requested rows of the trace
    merges,      \* pr-merged rows of the trace
    pc, job,     \* what each sweeper does, and where it is
    work,        \* what it has read and worked out
    desk,        \* a desk decision between its read and its write
    decided,     \* the last decision on each item
    shade,       \* the revision that was last shadowed since then, of one shadowed no more
    invalidated, \* the revision that a repair made and has invalidated for
    faults
fileVars == <<queue, snapshot, state, requests, facts, merges>>
deskVars == <<desk, decided, shade>>
sweepVars == <<clock, forge, lease, fileVars, pc, job, work, deskVars, invalidated, faults>>

Rows == {"none", "pending", "approved", "deferred"}
JobKinds == {"full", "selected", "pass", "gatekeeper", "repair", "sweep"}
Gen(id, completed) == [id |-> id, completed |-> completed]

(* What the constants are: None is nothing that a file, a job or a sweep's *)
(* work may hold in its place.                                             *)
Constants ==
    /\ MaxClock \in Nat /\ MaxRev \in Nat \ {0} /\ MaxAge \in Nat
    /\ None \notin Sweeper /\ None \notin Repo /\ None \notin [id : Nat, completed : Nat]
    /\ None \notin [rev : Nat, open : BOOLEAN, paused : BOOLEAN]
    /\ None \notin [rev : Nat, at : Nat]
    /\ None \notin [rev : Nat, merged : BOOLEAN, shadowed : BOOLEAN, at : Nat]
    /\ None \notin [kind : JobKinds, repos : SUBSET Repo, started : Nat, made : Nat]

Init ==
    /\ clock = 0
    /\ forge = [r \in Repo |-> [rev |-> 1, merged |-> FALSE, shadowed |-> FALSE]]
    /\ lease = None
    /\ queue = [r \in Repo |-> "none"]
    /\ snapshot = [gen |-> None, repos |-> [r \in Repo |-> None]]
    /\ state = [gen |-> None, repos |-> [r \in Repo |-> None]]
    /\ requests = [r \in Repo |-> 0] /\ facts = [r \in Repo |-> 0]
    /\ merges = [r \in Repo |-> 0]
    /\ pc = [p \in Sweeper |-> "idle"]
    /\ job = [p \in Sweeper |-> None] /\ work = [p \in Sweeper |-> None]
    /\ desk = None /\ decided = [r \in Repo |-> "none"] /\ shade = [r \in Repo |-> 0]
    /\ invalidated = [r \in Repo |-> 0]
    /\ faults = 0

Fault == faults < MaxFaults /\ faults' = faults + 1
Reading == {"acquire", "confirm", "emit", "fact", "merge", "queue"}
Goto(p, l) == pc' = [pc EXCEPT ![p] = l]
Committing == {"emit", "fact", "merge", "queue", "snapshot", "state"}

(* A sweeper leaves: the lease goes with it, if it still names it.         *)
Leave(p) ==
    /\ Goto(p, "idle")
    /\ job' = [job EXCEPT ![p] = None]
    /\ work' = [work EXCEPT ![p] = None]
    /\ lease' = IF lease = p THEN None ELSE lease
--------------------------------------------------------------------------------
(* The world: time, edits of an item, the merge that closes it, and the    *)
(* pull request that shadows it, which may be closed unmerged.             *)
Tick ==
    /\ clock < MaxClock /\ clock' = clock + 1
    /\ UNCHANGED <<forge, lease, fileVars, pc, job, work, deskVars, invalidated, faults>>

Edit(r) ==
    /\ ~forge[r].merged
    /\ \/ forge[r].rev < MaxRev /\ forge' = [forge EXCEPT ![r].rev = @ + 1]
       \/ forge' = [forge EXCEPT ![r].merged = TRUE, ![r].shadowed = FALSE]
    /\ UNCHANGED <<clock, lease, fileVars, pc, job, work, deskVars, invalidated, faults>>

Shadow(r) ==
    /\ Closers /\ ~forge[r].merged
    /\ forge' = [forge EXCEPT ![r].shadowed = ~@]
    /\ shade' = IF forge[r].shadowed THEN [shade EXCEPT ![r] = forge[r].rev] ELSE shade
    /\ UNCHANGED <<clock, lease, fileVars, pc, job, work, desk, decided, invalidated, faults>>

(* What a sweeper sets out to do, and when.  A pass may find a generation  *)
(* to reuse, and a gatekeeper needs its snapshot too; a repair has already *)
(* changed its repository, to a revision of its own, when it comes to      *)
(* invalidate.                                                             *)
Job(kind, repos, t, rev) == [kind |-> kind, repos |-> repos, started |-> t, made |-> rev]
Begin(p, kind, repos) ==
    /\ pc[p] = "idle"
    /\ Goto(p, "wait")
    /\ IF kind = "repair"
       THEN \E r \in repos :
               /\ ~forge[r].merged /\ forge[r].rev < MaxRev
               /\ forge' = [forge EXCEPT ![r].rev = @ + 1]
               /\ job' = [job EXCEPT ![p] = Job(kind, repos, clock, forge[r].rev + 1)]
       ELSE job' = [job EXCEPT ![p] = Job(kind, repos, clock, 0)] /\ UNCHANGED forge
    /\ UNCHANGED <<clock, lease, fileVars, work, deskVars, invalidated, faults>>
--------------------------------------------------------------------------------
(* The lease: free, or its holder dead, or live but past its expiry, which *)
(* costs a fault.  Who cannot have it waits, or gives up.                  *)
Live == {p \in Sweeper : pc[p] # "idle"}
Acquire(p) ==
    /\ pc[p] = "wait"
    /\ \/ lease \notin Live /\ UNCHANGED faults
       \/ /\ lease \in Live /\ Fault
          /\ Window \/ pc[lease] \notin Committing
    /\ lease' = p
    /\ Goto(p, CASE job[p].kind \in {"pass", "gatekeeper"} -> "decide"
                 [] job[p].kind = "repair" -> "clear"
                 [] OTHER -> "read")
    /\ UNCHANGED <<clock, forge, fileVars, job, work, deskVars, invalidated>>

GiveUp(p) ==
    /\ pc[p] = "wait" /\ lease # None
    /\ Leave(p)
    /\ UNCHANGED <<clock, forge, fileVars, deskVars, invalidated, faults>>

(* prepare_sweep, under the lease.                                         *)
Fresh(gen) == gen # None /\ clock - gen.completed \in 0 .. MaxAge - 1
Matched == snapshot.gen # None /\ snapshot.gen = state.gen
Reusable(kind) == Fresh(state.gen) /\ (kind = "gatekeeper" => Matched)
Reuse(p) ==
    /\ pc[p] = "decide" /\ Reusable(job[p].kind)
    /\ Leave(p)
    /\ UNCHANGED <<clock, forge, fileVars, deskVars, invalidated, faults>>
SweepAnew(p) ==
    /\ pc[p] = "decide" /\ ~Reusable(job[p].kind)
    /\ job' = [job EXCEPT ![p].kind = "full"]
    /\ Goto(p, "read")
    /\ UNCHANGED <<clock, forge, lease, fileVars, work, deskVars, invalidated, faults>>

(* invalidate_sweep_generation_for: read the state, write it without its   *)
(* generation.                                                             *)
Clear(p) ==
    /\ pc[p] = "clear"
    /\ state' = [state EXCEPT !.gen = None]
    /\ invalidated' = [r \in Repo |->
           IF r \in job[p].repos /\ job[p].made > invalidated[r] THEN job[p].made ELSE invalidated[r]]
    /\ Leave(p)
    /\ UNCHANGED <<clock, forge, queue, snapshot, requests, facts, merges, deskVars, faults>>

(* A process is killed and leaves its lease behind, or one of its steps    *)
(* fails and it leaves in order.                                           *)
Stop(p) ==
    /\ pc[p] \notin {"idle", "wait"} /\ Fault
    /\ Leave(p) \/ (Goto(p, "idle") /\ job' = [job EXCEPT ![p] = None]
                    /\ work' = [work EXCEPT ![p] = None] /\ UNCHANGED lease)
    /\ UNCHANGED <<clock, forge, fileVars, deskVars, invalidated>>
--------------------------------------------------------------------------------
(* The sweep.  It reads the queue and the state, then acquires what was    *)
(* selected; the rest is carried, from a state that knows it.              *)
Carried(p) == Repo \ job[p].repos
Read(p) ==
    /\ pc[p] = "read" /\ (Crosses \/ desk = None)
    /\ IF \A r \in Carried(p) : state.repos[r] # None
       THEN /\ work' = [work EXCEPT ![p] =
                  [rows |-> queue, old |-> state, left |-> job[p].repos, got |-> [r \in Repo |-> None]]]
            /\ Goto(p, "acquire") /\ UNCHANGED <<job, lease>>
       ELSE Leave(p)
    /\ UNCHANGED <<clock, forge, fileVars, deskVars, invalidated, faults>>

(* One repository's acquisition, which may fail on its own.                *)
AcquireRepo(p, r) ==
    /\ pc[p] = "acquire" /\ r \in work[p].left
    /\ \/ /\ work' = [work EXCEPT ![p].left = @ \ {r},
                                  ![p].got[r] = [rev |-> forge[r].rev, merged |-> forge[r].merged,
                                                 shadowed |-> forge[r].shadowed, at |-> clock]]
          /\ UNCHANGED faults
       \/ Fault /\ work' = [work EXCEPT ![p].left = @ \ {r}]
    /\ UNCHANGED <<clock, forge, lease, fileVars, pc, job, deskVars, invalidated>>

(* analyze_repository: an item is an event when it is new or has changed,  *)
(* and generates a row unless it is shadowed; the entry of a repository    *)
(* holds no policy document.                                               *)
Event(old, got) == ~got.merged /\ ~got.shadowed /\ (old = None \/ old.rev < got.rev)
Entry(got) == [rev |-> got.rev, open |-> ~got.merged, paused |-> FALSE]

(* What goes with a sweep that acquired it: a closed item's row, and a     *)
(* shadowed one's that is not approved.                                    *)
Dropped(was, got) == got.merged \/ (got.shadowed /\ was # "approved")

(* Mutant: the rows of a repository that was not read go.                  *)
ReconciledRead(p, r) ==
    LET was == work[p].rows[r]
        got == work[p].got[r]
    IN  IF r \in Carried(p) THEN IF queue[r] # "none" THEN queue[r] ELSE was
        ELSE IF got = None \/ Dropped(was, got) THEN "none"
        ELSE IF was = "none" /\ Event(work[p].old.repos[r], got) THEN "pending"
        ELSE was

(* reconcile_queue: an event's row keeps the state it had, and every row   *)
(* that is not dropped stays; what was carried is taken from the queue as  *)
(* it is now.                                                              *)
Reconciled(p, r) ==
    LET was == work[p].rows[r]
        got == work[p].got[r]
    IN  IF r \in Carried(p) THEN IF queue[r] # "none" THEN queue[r] ELSE was
        ELSE IF got = None THEN was
        ELSE IF Dropped(was, got) THEN "none"
        ELSE IF was = "none" /\ Event(work[p].old.repos[r], got) THEN "pending"
        ELSE was

(* Mutant: what is carried counts as acquired now.                         *)
GenerationNow(p) == Gen(job[p].started, job[p].started)

(* A generation with carried repositories is as old as the one they come   *)
(* from, whose snapshot must be the stored one and have them all.          *)
GenerationOf(p) ==
    Gen(job[p].started, IF Carried(p) = {} THEN job[p].started ELSE work[p].old.gen.completed)

CanCarry(p) ==
    LET old == work[p].old
    IN  Carried(p) # {} =>
            /\ old.gen # None /\ snapshot.gen = old.gen
            /\ \A r \in Carried(p) : snapshot.repos[r] # None

Analyze(p) ==
    LET old == work[p].old
        got == work[p].got
        acquired == {r \in Repo : got[r] # None}
        rows == [r \in Repo |-> Reconciled(p, r)]
        gen == GenerationOf(p)
    IN  /\ pc[p] = "acquire" /\ work[p].left = {}
        /\ IF acquired # {} /\ CanCarry(p)
           THEN /\ work' = [work EXCEPT ![p] =
                      [rows   |-> rows,
                       state  |-> [gen |-> gen, repos |-> [r \in Repo |->
                                      IF got[r] # None THEN Entry(got[r]) ELSE old.repos[r]]],
                       mirror |-> [gen |-> gen, repos |-> [r \in Repo |->
                                      IF r \in Carried(p) THEN snapshot.repos[r]
                                      ELSE IF got[r] # None THEN [rev |-> got[r].rev, at |-> got[r].at]
                                      ELSE None]],
                       asks   |-> {r \in Repo : rows[r] = "pending"},
                       known  |-> {},
                       fact   |-> None,
                       merged |-> {r \in acquired : got[r].merged /\ merges[r] = 0}]]
                /\ Goto(p, "confirm")
                /\ job' = [job EXCEPT ![p] = Job("sweep", {}, 0, 0)] /\ UNCHANGED lease
           ELSE Leave(p)
        /\ UNCHANGED <<clock, forge, fileVars, deskVars, invalidated, faults>>

(* Mutant: the trace is not read for what it has already.                  *)
ConfirmUnread(p) ==
    /\ pc[p] = "confirm"
    /\ IF lease = p THEN Goto(p, "emit") /\ UNCHANGED <<job, lease, work>> ELSE Leave(p)
    /\ UNCHANGED <<clock, forge, fileVars, deskVars, invalidated, faults>>

(* confirm_ownership, before the generation's first write: a holder whose  *)
(* lease another took refuses the whole generation.  The decisions already *)
(* recorded are read from the trace here.                                  *)
Confirm(p) ==
    /\ pc[p] = "confirm"
    /\ IF lease = p
       THEN /\ work' = [work EXCEPT ![p].known = {r \in Repo : facts[r] > 0}]
            /\ Goto(p, "emit") /\ UNCHANGED <<job, lease>>
       ELSE Leave(p)
    /\ UNCHANGED <<clock, forge, fileVars, deskVars, invalidated, faults>>

(* emit_decision_requests: of each request the event, unless the relay run *)
(* has it, then the fact, unless the trace had it.                         *)
EmitEvent(p, r) ==
    /\ pc[p] = "emit" /\ r \in work[p].asks
    /\ requests' = IF requests[r] = 0 THEN [requests EXCEPT ![r] = 1] ELSE requests
    /\ IF r \in work[p].known
       THEN work' = [work EXCEPT ![p].asks = @ \ {r}] /\ UNCHANGED pc
       ELSE Goto(p, "fact") /\ work' = [work EXCEPT ![p].asks = @ \ {r}, ![p].fact = r]
    /\ UNCHANGED <<clock, forge, lease, queue, snapshot, state, facts, merges, job, deskVars,
                   invalidated, faults>>
AppendFact(p) ==
    /\ pc[p] = "fact"
    /\ facts' = [facts EXCEPT ![work[p].fact] = @ + 1]
    /\ work' = [work EXCEPT ![p].fact = None]
    /\ Goto(p, "emit")
    /\ UNCHANGED <<clock, forge, lease, queue, snapshot, state, requests, merges, job, deskVars,
                   invalidated, faults>>

(* The merges, before the state that remembers them.                       *)
Emitted(p) ==
    /\ pc[p] = "emit" /\ work[p].asks = {}
    /\ Goto(p, "merge")
    /\ UNCHANGED <<clock, forge, lease, fileVars, job, work, deskVars, invalidated, faults>>
AppendMerge(p) ==
    /\ pc[p] = "merge"
    /\ IF work[p].merged = {}
       THEN Goto(p, "queue") /\ UNCHANGED <<merges, work>>
       ELSE \E r \in work[p].merged :
               /\ merges' = [merges EXCEPT ![r] = @ + 1]
               /\ work' = [work EXCEPT ![p].merged = @ \ {r}]
               /\ UNCHANGED pc
    /\ UNCHANGED <<clock, forge, lease, queue, snapshot, state, requests, facts, job, deskVars,
                   invalidated, faults>>

WriteQueue(p) ==
    /\ pc[p] = "queue"
    /\ queue' = work[p].rows
    /\ work' = [work EXCEPT ![p] = [state |-> work[p].state, mirror |-> work[p].mirror]]
    /\ Goto(p, "snapshot")
    /\ UNCHANGED <<clock, forge, lease, snapshot, state, requests, facts, merges, job,
                   deskVars, invalidated, faults>>
WriteSnapshot(p) ==
    /\ pc[p] = "snapshot"
    /\ snapshot' = work[p].mirror
    /\ work' = [work EXCEPT ![p] = [state |-> work[p].state]]
    /\ Goto(p, "state")
    /\ UNCHANGED <<clock, forge, lease, queue, state, requests, facts, merges, job,
                   deskVars, invalidated, faults>>
WriteState(p) ==
    /\ pc[p] = "state"
    /\ state' = work[p].state
    /\ Leave(p)
    /\ UNCHANGED <<clock, forge, queue, snapshot, requests, facts, merges, deskVars,
                   invalidated, faults>>
--------------------------------------------------------------------------------
(* decide_queue_item: read the queue, change one row, write them all.  An  *)
(* approval is refused where the state says that the repository is paused. *)
Verbs == [approve |-> "approved", defer |-> "deferred", reject |-> "none"]
DeskRead(r, verb) ==
    /\ Desk /\ desk = None
    /\ Crosses \/ \A p \in Sweeper : pc[p] \notin Reading
    /\ queue[r] \in {"pending", "deferred"}
    /\ ~(verb = "approve" /\ state.repos[r] # None /\ state.repos[r].paused)
    /\ desk' = [rows |-> queue, item |-> r, verb |-> verb]
    /\ UNCHANGED <<clock, forge, lease, fileVars, pc, job, work, decided, shade, invalidated,
                   faults>>

DeskWrite ==
    /\ desk # None
    /\ queue' = [desk.rows EXCEPT ![desk.item] = Verbs[desk.verb]]
    /\ decided' = [decided EXCEPT ![desk.item] = desk.verb]
    /\ shade' = [shade EXCEPT ![desk.item] = 0]
    /\ desk' = None
    /\ UNCHANGED <<clock, forge, lease, snapshot, state, requests, facts, merges, pc, job, work,
                   invalidated, faults>>

Commit(p) ==
    \/ Confirm(p) \/ \E r \in Repo : EmitEvent(p, r)
    \/ AppendFact(p) \/ Emitted(p) \/ AppendMerge(p)
    \/ WriteQueue(p) \/ WriteSnapshot(p) \/ WriteState(p)
Step(p) ==
    \/ Acquire(p) \/ GiveUp(p) \/ Reuse(p) \/ SweepAnew(p) \/ Clear(p) \/ Stop(p)
    \/ Read(p) \/ Analyze(p) \/ \E r \in Repo : AcquireRepo(p, r)
    \/ Commit(p)
Jobs == {<<k, Repo>> : k \in Kinds \cap {"full", "pass", "gatekeeper"}}
        \cup {<<k, {r}>> : k \in Kinds \cap {"selected", "repair"}, r \in Repo}
Next ==
    \/ Tick \/ \E r \in Repo : Edit(r) \/ Shadow(r)
    \/ \E p \in Sweeper : Step(p) \/ \E j \in Jobs : Begin(p, j[1], j[2])
    \/ DeskWrite \/ \E r \in Repo, verb \in DOMAIN Verbs : DeskRead(r, verb)

Spec == Init /\ [][Next]_sweepVars
--------------------------------------------------------------------------------
Generations == {None} \cup [id : 0 .. MaxClock, completed : 0 .. MaxClock]
TypeOK ==
    /\ lease \in Sweeper \cup {None}
    /\ queue \in [Repo -> Rows]
    /\ state.gen \in Generations /\ snapshot.gen \in Generations
    /\ \A r \in Repo : state.repos[r] = None \/ state.repos[r] \in [rev : 1 .. MaxRev, open : BOOLEAN, paused : BOOLEAN]
    /\ \A r \in Repo : snapshot.repos[r] = None \/ snapshot.repos[r] \in [rev : 1 .. MaxRev, at : 0 .. MaxClock]
    /\ \A p \in Sweeper : pc[p] = "idle" <=> job[p] = None
    /\ decided \in [Repo -> {"none"} \cup DOMAIN Verbs] /\ shade \in [Repo -> 0 .. MaxRev]

(* A gatekeeper that reuses a generation works on repositories that were   *)
(* all acquired within the age it was promised, those a selected sweep     *)
(* carried along included, and after every repair whose invalidation went  *)
(* through ("Its freshness is therefore bounded by the oldest generation   *)
(* it carries", sweep.rs; "so the next pass must acquire a new snapshot"). *)
FreshReuse ==
    \A p \in Sweeper : Reuse(p) /\ Matched =>
        \A r \in Repo : snapshot.repos[r] # None =>
            /\ clock - snapshot.repos[r].at < MaxAge
            /\ snapshot.repos[r].rev >= invalidated[r]
ReusedIsRecent == [][FreshReuse]_sweepVars

(* However often a generation is retried after a crash or an error, a      *)
(* decision is requested once, its fact recorded once, and a merge         *)
(* recorded once ("a failed state write cannot duplicate a merge"); and    *)
(* whoever reads a row that waits for a judgment finds the decision there. *)
RecordedOnce ==
    \A r \in Repo :
        /\ requests[r] <= 1 /\ facts[r] <= 1 /\ merges[r] <= 1
        /\ queue[r] # "none" => requests[r] = 1 /\ facts[r] = 1

(* The state never knows an item the queue has lost: once an item counts   *)
(* as seen it is not an event again, so its row is in the queue until the  *)
(* desk rejects it, unless a pull request that was to close it shadows or  *)
(* shadowed it, at the revision that is known or a later one.  After such  *)
(* a pull request is closed unmerged the item has no row until it changes  *)
(* (sweep.rs:2437-2447, 2483).                                             *)
AttentionKept ==
    \A r \in Repo : state.repos[r] # None /\ state.repos[r].open /\ queue[r] = "none" =>
        \/ decided[r] = "reject" \/ forge[r].merged
        \/ forge[r].shadowed \/ state.repos[r].rev <= shade[r]

(* An approval stays until the item is closed, and a deferral until it is  *)
(* closed or shadowed: no sweep, full, selected or retried, puts the row   *)
(* back to pending or drops it ("reclassification preserves a desk         *)
(* decision", sweep.rs tests).                                             *)
AnswerStays ==
    \A r \in Repo : ~forge[r].merged =>
        /\ decided[r] = "approve" => queue[r] = "approved"
        /\ decided[r] = "defer" /\ ~forge[r].shadowed /\ shade[r] = 0 => queue[r] = "deferred"
================================================================================
