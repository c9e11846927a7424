# A verification of ostrom

Ostrom runs software-building agents under policy. Scheduled *passes* of a role
(builder, gatekeeper) each start one harness; the passes decide work, and
*dispatch* starts an *implementer* for each work order they created; a *sweep*
brings in what GitHub says, a *gate* judges pull requests, a *desk* answers
what they ask. Many short processes do this on one machine, with no daemon
between them: everything they know of each other is in files under one state
directory (claims, leases, JSON state files, append-only journals), in git, and
in `/proc`. Any process may be killed, paused for longer than its lease, or run
beside another of the same kind. This directory holds TLA+ models of the parts
that have to be right for that to work, what TLC checks of them, and what is
proved of them.

Paths are relative to the repository; `store/` stands for
`crates/ostrom-store/src/`, `cli/` for `crates/ostrom-cli/src/`, `umwelt/` for
`umwelt/crates/umwelt-runtime/src/`.

## Inventory

### Components in the model

| component | state | operations | modules |
|---|---|---|---|
| claim file, `store/claim.rs` | one file: holder and payload | create, take over a dead holder's, set, remove | `ClaimFile`, `Exclusion` |
| lease file, `store/lease.rs` | one file: owner, process, start, expiry; its mutation guard, a claim | acquire, reclaim, renew, release | `LeaseFile`, `Exclusion` |
| pass, `store/pass.rs` | the role's state file (wake count), its lease, trace rows; while its harness runs, the run's log | start, renew, sweep, decide, spawn, poll, finish | `PassLife`, `PassRun` |
| stall reaper, `store/stalls.rs` | a claim on each run; reads trace, leases, `/proc`, harness records | observe, claim, mark, stop, end, settle | `PassReap` (passes), `OrderReap` (implementers) |
| dispatch, `store/dispatch.rs` | an item's lease, trace rows | verify, reap, lease, ceilings, launch, bind, record | `Dispatch`, `Worktrees` |
| work orders, `store/work_order.rs` | one order file per item, trace rows | create, in-flight orders, observe, reap, finalize | `Dispatch`, `OrderReap` |
| implementer run, `store/implement.rs` | adopts the item's lease; worktree, branch, pull request; the terminal row | adopt, prepare, work, push, end, release | `Dispatch`, `OrderReap`, `Worktrees` |
| run supervisor, `cli/main.rs` | the parent process of a pass or implementer | watch, stop what the worker left, finalize | `Dispatch`, `OrderReap`, `PassLife` |
| permission bridge and pass control, `store/permission_bridge.rs`, `pass_control.rs` | a private directory of files created once; a descriptor of lines | claim, request, wait, answer, expire, acknowledge, interrupt | `PassRun` |
| event log of a run, `umwelt/sink.rs`, `follower.rs` | `events.jsonl` of a run; what a sink remembers of it | append, forward, roll back, poll, resume | `EventLog` |
| ceilings, `umwelt/watchdog.rs` | counters kept from a run's events | observe, check | `Watchdog` |
| journals, `store/event_store.rs`, `trace.rs`, `umwelt_edge.rs` | `events.jsonl` and `sprint.jsonl` of the state directory | append a record with its event, read | `Journal` |
| sweep, `store/sweep.rs`; queue, `store/queue.rs` | queue, snapshot, state, requests, facts, under the sweep lease | acquire, reconcile, commit, reuse, invalidate; the desk's verbs | `Sweep` |
| merge gate, `store/gate.rs`, `leaves.rs`, `assets/prompts/merge.md` | `gate.jsonl`, exceptions, delivered judgments | read, judge, excuse, ask, deliver, merge, audit | `Gate` |
| decision answers, `store/decision_answers.rs` | a lock, the ledger of answers, queue rows, exceptions | accept, deliver, record, tell | `DecisionAnswers` |
| loop supervisor, `cli/loop_supervisor.rs` | one state file per loop | stop obsolete, launch, record, finish | `LoopSupervisor` |
| worktrees, `store/worktree.rs`, `reap.rs` | an item's tree and branches, here and on GitHub | look, remove, drop, sweep, reclaim | `Worktrees` |
| repair loop, `store/repair.rs` | a scan of the builder's pull requests | list, read checks, fetch, merge, push | `Repair` |
| publication, `store/publish.rs` | a checkout, its state branch, the destination's | derive, reconcile, commit, push | `Publish` |

Three more appear as what these see of them: `store/harness_record.rs`
(`recorded` in `PassLife`), `store/suspend.rs` (`slept` in `LeaseFile`), and
`store/holdings.rs` (`Opens` in `PassReap`, `InFlight` in `Dispatch`).

### How they interact

- *Claims under leases.* Renewal, release and reclamation of a lease take the
  lease's mutation guard, which is a claim file. A stall reaper's hold on a run
  is a claim file too.
- *Leases under passes, sweeps and dispatches.* A pass owns its role's lease,
  renewed by a thread of its own; a sweep owns the sweep lease. A dispatch owns
  an item's lease and hands it to the run it starts: the process backend writes
  the supervisor's process into it (`bind`), the systemd backend leaves it to
  the unit's name. Dispatch has its own acquisition, which takes no guard
  (`acquire_dispatch_lease`).
- *The trace.* `pass-started` opens a hold and `pass-ended` closes it;
  `work-dispatched` puts an order in flight and a terminal row takes it out.
  Who may write the closing row is decided by reading the trace, then
  appending, without a lock. A pass, its reapers, a run, its supervisor and
  every other item's dispatch all do so for the same hold or order. Every
  append to the trace goes through the event journal first.
- *Signals and processes.* Reapers and supervisors stop processes they learn of
  from leases, trace rows and harness records. A run that is told to stop asks
  the reaper's claim why.
- *A pass and its run.* The pass loop is the only writer of its run's log. The
  harness's permission tool is a process of its own that shares a directory
  with the loop; the ceilings are asked at every poll; an interrupt comes over
  the control descriptor.
- *Sweep, desk, gate.* The sweep writes the queue and the desk rewrites its rows;
  passes reuse the sweep's generation, a repair invalidates it. The gate asks
  for decisions through a relay run's log; answers come back as exceptions and
  queue rows; the sweep compares what was merged with the gate's journal.
- *Tree and branches.* A dispatch of an item, its run, `ostrom reap-worktrees`
  and the sweep of worktrees by any dispatch meet at an item's tree and branch;
  of the four only the first two hold the item's lease. A repair pushes to the
  branches of open pull requests.

### What is hard here

1. **Check, then act, on a file** (`claim.rs:84`, `claim.rs:294`, `lease.rs:370`,
   `dispatch.rs:2497`, `reap.rs:178`): what was judged is not what is renamed or
   removed.
2. **Read, then replace or append, without a lock**: the queue (`sweep.rs:838`),
   the loop state files (`loop_supervisor.rs:520`), the event numbers
   (`event_store.rs:72`, `run_events.rs:50`), the ceilings (`dispatch.rs:564`).
3. **A pause longer than a lease** (`pass.rs:1616`, `lease.rs:407`): the process
   wakes believing in a lease somebody else has.
4. **A kill between two steps**: an empty claim (`claim.rs:226`), an unwritten
   lease (`lease.rs:579`), a harness without a pass (`stalls.rs:1512`), a run
   without a `work-dispatched` row (`dispatch.rs:904`), a generation half
   written (`sweep.rs:1228`), a line half written (`sink.rs:511`).
5. **Several writers of one closing row** (`pass.rs:660`, `stalls.rs:1254`,
   `work_order.rs:932`, `pass.rs:1640`).
6. **Names that come back**: an owner name made of a wake count read before the
   lease is had (`pass.rs:1186`); a lease released by a unit name the item alone
   determines (`work_order.rs:1020`); a tool call's id (`permission_bridge.rs:531`).
7. **A judgment of one head, used for another** (`gate.rs:405`, `merge.md:221`,
   `decision_answers.rs:339`, `repair.rs`).
8. **Three clocks and one deadline** (`permission_bridge.rs:821`).
9. **What must happen in the end**: every hold ends, every dispatched order
   ends, a dead holder's lease frees the role, a decision is answered, a run
   ends, a slot of a loop is recorded.

`PROJECT.json` lists each at its line, with the property that covers it or the
reason none does. These are exposures of the same kinds, not listed there on
their own: `lease.rs:607`, `pass.rs:881`, `1499`, `1616`, `1617` and `2190`,
`stalls.rs:394` and `1512`, `work_order.rs:590`, `dispatch.rs:727`, `797`, `904`
and `2230`, `claim.rs:84`, `loop_supervisor.rs:252`, `cli/main.rs:2716`,
`sink.rs:217` and `351`, `permission_bridge.rs:790`, `umwelt/control.rs:320`,
`watchdog.rs:358`, `repair.rs:265`, `sweep.rs:1224` and `1257`, `queue.rs:284`
(whose guard on a paused row never fires), `gate.rs:1645`,
`decision_answers.rs:147`. The actions mapped to those lines are in the models.

### What makes each part correct

- *Claim*: one live holder, but for the window the module admits; nobody unlinks
  a live holder's claim.
- *Lease*: while a lease is in force nobody but its holder changes it, hence it
  is in force for one process; a dead holder's lease is cleared.
- *Pass*: it never removes a successor's lease; having lost its own it stops its
  harness; whatever happens after its start row, it writes an end row.
- *Reaper*: one end row per hold; only for a run that is gone with its harness;
  with the reason it was stopped for; every hold ends, though reapers die; an
  item's lease outlives its harness.
- *Dispatch*: one run per item and as many runs as the ceiling allows; a working
  run is in flight and under its item's lease; its own row is the only one; what
  was dispatched ends.
- *Pass run and bridge*: one `run.finished`, after the harness stopped; a tool
  runs only on an answer the log has, and what the log says was decided is what
  the tool was told; calls return, decisions are answered, runs end.
- *Logs and journals*: numbers without a gap, what was acknowledged stays, a
  follower has a prefix; a record's event is its own pass's, has a number of its
  own, and every row has its event.
- *Ceilings*: a run is ended by the first ceiling it has reached, and by none it
  has not.
- *Sweep*: however often a generation is retried, a request and a merge are
  recorded once and an item keeps its row, but for a pull request that shadows
  it; an answer stays; what is reused is recent.
- *Gate and answers*: a verdict stands on the head it names; a judgment is
  delivered once; the audit tells an ungated merge; an excuse is for the head it
  was asked for; what is recorded as answered took effect.
- *Loop supervisor*: one worker of a loop at a time, one per slot and version;
  the latest slot comes to be recorded.
- *Worktrees, repair, publication*: no commit is lost and no tree removed under a
  run; a merge forward stands on what was listed; a published snapshot is whole.

## Modules

### `Exclusion`: what a claim and a lease promise

The abstract specification: a set of holders that a process enters only when it
is empty. `ClaimFile` and `LeaseFile` are both shown to implement it
(`Promised == INSTANCE Exclusion WITH holders <- ...`), with the live processes
that believe they hold the claim, and those whose lease is in force, as the set.

### `ClaimFile`: `store/claim.rs`, a system call a step

`inodes` holds every claim file ever created and `path` the one the name refers
to, so that a rename moves a name while an open descriptor still writes to the
file. `Create`, `ReadClaim`, `CreateAgain` and `Write` are
`create_or_take_over`; `Rename`, `Matches`, `LinkBack` and `UnlinkAside` are
`take_over`; `CheckOwned`/`Remove` and `CheckSet`/`SetRecord` are
`Claim::remove` and `Claim::set`. `Kill` is possible between any two calls and
`GrowOld` is the grace after which an empty claim counts as dead. Payloads are
opaque values, and a holder's process identity is the process itself.

### `LeaseFile`: `store/lease.rs`, a file operation a step

The file is absent, created and not yet written (`Unreadable`), or a record.
`Live` is `lease_is_live`, for both expiry policies, with and without recorded
process identities and a readable `/proc`, and with the suspended time the
record's start subtracts. The clock is sampled when an operation begins and may
be arbitrarily old when it is used. The mutation guard is exclusive, and a dead
process's is taken over (what `ClaimFile` gives it outside the window it
admits): `TakeGuard` is one step here, and `Drop` another. A refused release is
tried again on drop or given up at exit, hence the two ways of `GuardRelease`.

### `PassLife` and `PassReap`: `store/pass.rs`, `store/stalls.rs`

`pc` follows `run_pass` and `PassGuard::finish`. A lease operation is one step
(its detail is `LeaseFile`); `Renew` is the renewal thread; `Lapse` is a pause
past the TTL. `Confirm` is `end_if_lease_lost`, before the harness is chosen and
again before it is spawned. `WaitForChild` leaves the loop at a signal, at the
renewal thread's flag, or when the harness has gone. What decides between early
ends (candidates, caps, settings) is a choice from `EarlyEnds`, and how
`reconcile_outcome` reads a harness's transcript a choice from `HarnessEnds`.
An outcome is kept with its reason and the kind of cost its row gets.

`PassReap` extends it: `Observe` to `RemoveClaim` are `reap_all` on one hold:
look, judge, claim (or take over), write the claim, read the trace again, record
the intent, signal, wait, stop the recorded harness, read the trace again,
append, remove. A claim's take-over here is the move aside and the new create;
the comparison inside it is `ClaimFile`'s. `KillReaper` leaves the claim to
nobody (`Gone`), as does the end of a reaper's process (`ReaperExits`); `Settle`
removes what is left once the hold is closed.

### `PassRun`: a pass's loop, its log, its bridge

The loop of `pass.rs` polls: answers and expiries of decisions, lines of the
control descriptor, the harness, signals; each an action, in its order. A call of
the permission tool claims its id, requests, waits by its own clock for an
answer, and acknowledges it; the files of the channel are created once by a
rename that never replaces (`claims`, `requests`, `replies`, `receipts`). `age`
is how far a claim is past its wait and its deadline. `RunControl` is `control`,
`RunEventGuard` is `guard`; an append may fail (`WritesFail`).

### `EventLog`, `Watchdog`: umwelt's sink, follower and ceilings

`EventLog` writes a line in three steps (event, newline, sync), any of which may
fail or be the process's last, and rolls back in one that may fail. `cache` is
what a `FileSink` remembers of the length and number it saw last; a follower's
`Poll` reads while that goes on. `Watchdog` keeps the counters of
`CapsWatchdog` (open calls as a sequence of identities, costs per session) and,
beside them, the events, so that `TripIsDue` can say from the events alone what
was due.

### `Journal`: the trace and its events

`append_trace` projects a record onto an event, numbers it from a read of
`events.jsonl`, appends it, and appends the row to `sprint.jsonl`: a step each.
`cut` are the files whose last line has no end; `ActiveRun` is how a record that
names no run is attributed to the pass the trace has under way.

### `Dispatch`: `dispatch.rs`, `work_order.rs`, `implement.rs`, the supervisor

An order's id is its place in `issued`. `Attempt` numbers dispatches, each with
the run it may start: `dpc` follows `run_dispatch`, `wpc` the run's worker, `spc`
its supervisor. `job` is the order an actor closes: `Observe`, `CheckInFlight`,
`WriteTerminal`, `Unlease` are `reap_stale_work_orders` with
`append_terminal_row`, which a supervisor's `Finalize` enters at the same place,
and which `clear_work_order` follows as well. `Reaper` are the dispatches of
other items, of which only the reaping matters here. A lease's file operations
are single steps, three of them in the acquisition (`LookAtLease`,
`RemoveLease`, `CreateLease`), which is where `acquire_dispatch_lease` can be
interrupted. Releases go by the item, as the code's go by the unit name.

### `OrderReap`: the end of one order

The worker (`Work`), its supervisor (`Finalize`), stall reapers (`Reap`) and
those that reap stale orders (`Clean`) at one order from its dispatch on. The
harness leads a process group of its own and outlives its run unless it is
stopped. `why` is what worker and supervisor read from a reaper's claim before
they write their row.

### `Worktrees`: an item's tree and branches

A history is the content it was cut from or has merged and the commits made on
it. `run` prepares, commits, pushes and opens a pull request; `dispatch` looks at
the branches and pull requests and reclaims a merged tree; `reap` looks, removes
the tree, drops branches; `sweep` removes what is past the retention. People
push, merge, close, delete and switch branches.

### `Sweep`, `Gate`, `DecisionAnswers`

`Sweep` has one item per repository. A sweeper's `work` is what it has read and
worked out; the commit writes requests, facts, merges, queue, snapshot and state
in that order, a step each. An open pull request that is to close the item
*shadows* it (`Shadow`, sweep.rs:2437): while it is open a sweep makes no row for
the item and drops one that is not approved (`Dropped`), but remembers the item as
seen; it may be closed unmerged, and `shade` keeps at which revision. `desk` is an answer between its read of the queue and
its write. `Gate` reads the head, the checks and the diff in a step each; a
condition's own rules are its result. `merge` is on the verdict that was read, by
whatever the head is then. `DecisionAnswers` extends it with the commands that
answer: lock, archive, deliver, record, tell.

### `LoopSupervisor`, `Repair`, `Publish`

`LoopSupervisor`: `up` reads a loop's state file, writes it and spawns; a worker
records itself, runs, reads the file and writes its end. `Repair`: one scan lists,
reads checks, fetches, merges, pushes; a head is the base version it has merged
and the number of its own commits. `Publish`: hosts derive a snapshot from their
own records, reconcile it with what is published, commit in a private checkout
and push; another host may push in between.

### The models TLC explores

`MCContest`, `MCLives`, `MCReaping`, `MCEnds`, `MCRecords` and `MCLanding` each
put several components that share no state into one exploration: a variable
(`contest`, `moving` or `scene`) chosen at the start names the component that
takes all the steps, and the others keep their initial states. Each extends one
component, whose constants the configuration gives, and instantiates the others
with theirs. A property of one component is thus checked on all the behaviours
of that component and no others; the assumptions on constants that the proofs
use are `ASSUME`d there, so that TLC evaluates them for the instances explored.
`MCPassLife` and `MCDispatch` add a symmetry for single-component runs.

## Runs

`tlc -config X.cfg M` with the modules and configurations of `PROJECT.json`.
Deadlock is not an error in any of them: processes end, and bounds stop clocks.
The times are those of a machine with two cores.

| run | components | what holds, or not |
|---|---|---|
| `contest` (1.6 M states, 95 s) | a claim left by a dead process: three contenders whose writes may fail (`ClaimFile`), and a pair; the workers of a loop (`LoopSupervisor`) | `DoubleHoldNeedsDisplacement`: of three, two hold it only after a take-over moved a live process's claim aside. `PairExclusion`: a pair implements `Exclusion`, and whoever holds finds its claim on disk. `WorkersApart` |
| `lives` (0.22 M, 190 s) | an order's end with two stall reapers, one of them in place of the other, and a stale-order reaper (`OrderReap`, with and without failing writes); two passes (`PassLife`); an item by the systemd backend (`Dispatch`); `ostrom up` (`LoopSupervisor`) | `OrderEndRecorded`, `OrderEndedOnce`, `LoserYields`; liveness `WhatBeganEnds`: a started pass records its end, a dispatched order is ended, the latest slot comes to be recorded again and again |
| `reaping` (3.7 M, 170 s) | `PassReap` twice: one reaper and two passes that may displace each other; two reapers killed anywhere with stops unconfirmed, and one pass | `OneEndPerHold`, `StoppedSaysStalled`, `EndRecordedGone` |
| `ends` (105 s) | `LeaseFile` with kills, suspends, failing writes; `PassReap`, `EventLog`, `PassRun`, `Watchdog` | `HolderKeepsLease`, `ImplementsExclusion`; liveness `EverythingEnds` (a dead holder's lease is cleared, a hold is closed, a follower reaches the end, a call returns, a wall ceiling ends its run), `RunSettles` |
| `records` (1.6 M, 120 s) | `Journal` with appends that overlap and with appends that do not; `EventLog`, `PassRun`, `Watchdog`; `Sweep` three ways (two sweepers; two repositories; the desk and pull requests that shadow) | `EventsKept`, `LogIsFollowed`, `OneTerminalEvent`, `AnsweredAsRecorded`, `TripIsDue`, `RecordedOnce`, `AttentionKept`, `ReusedIsRecent` |
| `landing` (1.5 M, 140 s) | `Dispatch` of two items by the process backend under a ceiling of one, beside a stale-order reaper; `Worktrees`; `Repair`; `Gate` and `DecisionAnswers` three ways (the gate, excuses, tripwires); `Publish` | `OneRunPerItem`, `RunsAreCounted`, `RunKeepsOnlyRow`, `LeaseOutlivesOrder`, `WorkIsKept`, `TreeIsKept`, `RepairStandsOnListing`, `PassStandsOnItsHead`, `DeliveredOnce`, `AuditTells`, `AnswersTookEffect`, `ExcusedWasAsked`, `PublishedWhole` |
| `pass_overlap` | two passes that read one wake count | violation of `NewHolderKeepsLease` |
| `reap_empty` | a reaper killed between creating and writing its claim | violation of `EveryHoldCloses` |
| `dispatch_again` | an order dispatched again while its run works | violation of `RunsWithinCeiling` |
| `relay_log` | two sinks of one relay run | violation of `LogGapless` |
| `queue_overwrite` | the desk approves between a sweep's read and its write | violation of `AnswerStays` |
| `reap_live` | a dispatch between a reaper's look at a tree and its removal | violation of `TreeIsKept` |

`contest`, `reaping`, `records` and `landing` also check types (`AllTyped`), and
`ends` the types of `LeaseFile` (`TypeOK`).

### Bounds, and why they are enough

- *Claims.* `MaxInodes = 4`: the leftover claim, one for each of two contenders
  or three, and one more for a `set` or a second round. The window of three
  contenders needs three files. Nothing else bounds the proof.
- *Leases.* `TTL = 1`, `MaxTime = 2`: a lease is granted, renewed once, lapses,
  is reclaimed and lapses again, with sleep in any of the seconds.
- *Passes.* Two: a holder and its successor. A third would displace the second
  as the second did the first. The wake count then stays at two.
- *Reapers.* Two with two kills: one that died, one that completes its claim, and
  one more that dies at that. A killed reaper runs again. (`OrderEndedOnce`, with
  one kill: the second is the worker's, and changes nothing in who writes a row.)
- *Dispatch.* Two attempts and two orders: two runs that could share an item, or
  exceed a ceiling of one; three attempts in `dispatch_again`, which needs one
  for the first run, one for the refusal and one for the other item.
- *Loop supervisor.* Three slots and two versions: at most one worker for each
  advance of either, four. One loop, as loops share nothing.
- *Logs.* Two lines and two faults: a failed append and a failed roll-back, or a
  kill between them; and a terminal event after an ordinary one.
- *Bridge.* Two calls and one id, so that an id comes twice; two lines of the
  control descriptor, so that an answer comes twice.
- *Ceilings.* Three events: a start, a completion and a tool call, or two calls
  that overlap and a result; three ticks pass the greatest ceiling.
- *Journal.* Two passes, two commands and seven records (five where they
  overlap): both passes start and end with facts between, and two faults.
- *Sweep.* Two revisions, one crash, one lapse; two sweepers or two repositories.
  Pull requests that shadow (`Closers`) only where the desk decides: the rule is
  about a row and the state, which one sweeper writes; with two sweepers there are
  four times as many states. `SweepAttentive` is for any of them together.
  *Gate.* Two heads and two runs of the gate: a judgment before and after a push.
  *Answers.* Four: two commands that each answer twice.
- *Worktrees.* Two commits and two pull requests: what landed, and what came
  after it. *Repair.* One scan of two pull requests with a cap of one, two base
  versions, two commits. *Publish.* Two hosts, two days with one kept, two edits,
  one fault, three commits.

### What the runs assume of the surroundings

Each is a constant, so that the assumption can be lifted. What fails then:

- `StartsApart` (`lives`, `reaping`, `ends`): no two passes of a role are between
  reading the wake count and writing it. The scheduler starts them hours apart,
  but a pass by hand may come at any time. Without it: `pass_overlap`.
- `WholeClaims` (`reaping`'s first scene, `ends`): no reaper dies between creating
  and writing its claim. Without it: `reap_empty`.
- `MaxKills = 0` in `reaping`'s first scene: with one kill `SignalledSaysStalled`
  fails. A take-over moves the claim aside, and a run that ends just then finds
  no intent (docs/loops.md:175 does not mention it).
- `EmptyScope = FALSE` in `reaping`: a pass that refuses an empty scope appends
  its end without looking for another, and with it `OneEndPerHold` fails against
  a reaper.
- `WritesFail = FALSE` for the passes of `lives`: a pass that cannot append its
  end does not record one, and its hold is the reaper's (`ends`, with `TRUE`).
- `Overlap = FALSE` (`Dispatch`): dispatches do not overlap, and an item's next
  order waits for whoever closes its last one. With overlap, process backend: one
  item and a ceiling of two violate `OneRunPerItem` (two dispatches get the
  lease), `WorkingInFlight`, `RunKeepsOnlyRow` and `LeaseOutlivesOrder`; two items
  and a ceiling of one violate `RunsWithinCeiling` (both read the trace before
  either appends).
- `WholeLaunches = TRUE` (`landing`): no dispatcher dies between starting a run
  and recording it. With such kills the ceilings miss the run, and
  `RunsWithinCeiling` fails with two items.
- `Killable` without `"supervisor"` (`landing`): a supervisor killed alone, by an
  OOM killer say, leaves its worker under a lease whose process is dead, and
  `OneRunPerItem` fails.
- `Again = FALSE` (`landing`): an order is dispatched once. With `TRUE`,
  `WorkingInFlight` fails with one item, and `RunsWithinCeiling` in `dispatch_again`.
- `Backend = "process"` (`landing`): the systemd backend leaves the unit at work
  when its row cannot be appended (dispatch.rs:797), and `WorkingInFlight` fails
  with `WritesFail = TRUE`.
- `Apart = TRUE` of `OrderReap`: no order is reaped as stale under a claim.
  Without it `LeaseOutlivesHarness` (a stale-order reaper, or an operator's clear,
  releases the lease while the reaper has not stopped the harness yet) and
  `StoppedSaysStalled` fail. `"supervisor" \notin Outside`: without it
  `LeaseOutlivesHarness` fails. With `WritesFail = TRUE` `EndedOnce` fails: the
  run releases its lease without a row, and two reapers append.
- `Apart = TRUE` of `EventLog`, one sink at a time: without it `relay_log`.
- `Pauses = FALSE` of `PassRun`: nothing pauses between a look at the clock and
  what rests on it. With `TRUE` `RecordAgrees` fails (permission_bridge.rs:838).
- `Apart`, `OneAtATime`, `WholeLines` of `Journal`: with overlapping appends a
  number is given out twice (docs/store-port.md:42-46) and a row may have no event
  of its own (`EventsNumbered`, `RowHasEvent` fail; `records` checks the rest); two
  passes at once take each other's facts (`Attributed` fails); a line cut just
  before its end is completed by the next append, and `RowHasEvent` fails.
- `Crosses = FALSE` of `Sweep`: no answer of the desk crosses a sweep. Without it:
  `queue_overwrite`. `Window = FALSE`: a holder keeps its lease while it commits;
  without it `RecordedOnce` fails, which docs/loops.md:59 accepts.
- `AuditTells` compares the time of a gate record, by the host's clock, with the
  time of a merge, by GitHub's: one clock in `Gate`, so the two are taken to agree.
- `PushesMidRead = FALSE` of `Gate`: with `TRUE` `PassStandsOnItsHead` fails in
  four steps (gate.rs:405).
- `Apart`, `Prompt`, `Careless` of `LoopSupervisor`: two `up` at once launch a slot
  twice; a worker that records itself late clears the next one's pid, and
  `OneWorkerPerLoop` fails; a version composed while a record names no process, or
  a dead one, stops every reconciliation (loop_supervisor.rs:576) and
  `SlotsAreRecorded` fails.
- `Apart`, `Quick`, `LatePush` of `Worktrees`: a run launched between a look and
  the removal loses its tree (`reap_live`); so it does to a sweep of worktrees; a
  commit pushed to a branch after its pull request was merged is lost with the
  branch, and `WorkIsKept` fails.
- `BaseStays`, `BranchStays` of `Repair`: the base that is merged is not the one
  whose checks were read, or a branch is deleted and pushed anew.
- `FirstLands = TRUE` of `Publish`: a first publication that was committed is
  pushed. Without it the next one finds its checkout unchanged and reports so,
  with nothing published: `UnchangedIsPublished` fails
  (docs/publication-binary-cutover.md:41-45, 59-61).

These properties are defined and listed in no run. The first five state a sentence
of the repository and fail, in a few steps, with the constants given; the runs
keep the counterexamples with the larger consequences.

- `LiveClaimIsHeld` of `ClaimFile` (two contenders, `MaxInodes = 3`; claim.rs:15-19):
  a holder whose claim is aside for a moment takes it for lost and forgets it; the
  take-over links it back, and it refuses everyone while that process lives.
- `FirstHolderKeepsDecision` of `ClaimFile` (the same constants; claim.rs:272-273): a
  contender that finds no file, the stale one being aside, creates its own with
  its own payload.
- `KilledHolderClears` of `LeaseFile` (the constants of `ends` with `MaxTime = 3`, as
  an action property under `Spec`; docs/loops.md:53-54): a process killed between
  creating and writing the lease leaves a file every reader refuses.
- `LoserStartsNoHarness` of `PassLife` (`EarlyEnds = {"held"}`; docs/loops.md:181): a
  pass pauses between its second confirmation and the spawn.
- `RetryReuses` of `Worktrees` (implement.rs:1090): a tree removed with its branch
  kept refuses the item's next run.
- `StartedPassEnds`, `DispatchedOrderEnds`, `SlotsAreRecorded`, `DeadLeaseCleared`,
  `EveryHoldCloses`, `EndIsDelivered`, `CallReturns`, `WallEnds`: the parts of
  `WhatBeganEnds` and `EverythingEnds`, each in its own module.

### Fairness

As `moving` never changes, a fairness condition on a choice between two
components' steps is the same condition on each; `MCEnds` and `MCLives` state
their components' conditions in that form, so that there are few of them.

- `LeaseFile`: a process that wants the lease asks again, and goes on with what
  it began, unless it is killed (`WF` of acquiring and of dropping the guard).
  Passes come on a cadence and a sweep waits in a loop. Nothing makes a holder
  renew or release.
- `PassLife`: a pass's thread and its renewal thread run (`WF`). A harness need
  never end. `StartedPassEnds` excuses a pass that is killed or whose harness
  runs, and nothing else.
- `PassReap`: a reaper that began goes on unless killed (`WF`), and reapers look
  at each hold again and again: `reap_all` goes through all of them, so a hold
  that is open time and again is looked at (`SF` of `Observe`; weak fairness
  would let two holds alternate). Passes get none: they may hang anywhere, and
  are then quiet in time (`WF` of `GoQuiet`).
- `Dispatch`: dispatchers, workers and supervisors go on unless killed, and a
  run's work ends (its wall cap, `WF` of `RunStep`). Dispatches of other items
  come again and again and look at every order (`SF` of `Observe`), appends do
  not fail for ever (`SF` of `WriteTerminal`), and orders age (`WF` of `GrowOld`).
- `PassRun`: the loop polls and a call's process runs (`WF` of `Loop`, `CallStep`);
  a deadline passes (`SF` of `Tick`, whose guard is off while a claim is being
  looked at); once the harness has exited, the branch that leaves the loop is
  taken some time even though control lines keep coming (`SF` of `Leave`).
- `EventLog`: a follower polls again and again (`SF` of `Poll`, which a torn tail
  makes useless for a while) and resumes. Sinks get none.
- `Watchdog`: time passes and the pass asks (`WF` of `Tick`, `Check`).
- `LoopSupervisor`: the timer runs `up` again, `up` and workers go on unless
  killed (`WF`).

### What TLC found

Six runs end in a violation that contradicts a line of the repository:

- `pass_overlap`: "The new holder's lease is left in place" (docs/loops.md:181).
  Two passes that read one wake count have one owner name; the first, displaced
  after a pause, releases by that name and removes the second's lease.
- `reap_empty`: "complete every claim a dead reaper left" (stalls.rs:227-228). An
  empty claim is taken over as an empty claim; `finish_claim` fails on it, every
  time, and the hold stays open.
- `dispatch_again`: "the global dispatch capacity limit" (README.md:236-237). A
  second dispatch of an order at work, refused while it is verified, appends
  `work-failed` with that order's id. The run is no longer in flight, and another
  item is dispatched over the ceiling.
- `relay_log`: "a cross-process sink must provide its own locking"
  (umwelt/sink.rs:175-177). Every gate, dispatch and sweep builds a sink of its own
  on the relay run of its kind, without a lock; two append the same number, and
  `read_events` refuses the log from then on.
- `queue_overwrite`: the test `reclassification_preserves_a_desk_decision`
  (sweep.rs:7128) says of `reconcile_queue` what the sweep does not keep: it reads
  the queue near its start and replaces it at its end, and an approval in between
  is gone.
- `reap_live`: "retain their worktree; retrying the same item reuses that worktree"
  (docs/implementer-binary-cutover.md:69-71). A reaper that looked at the tree
  removes it later, under the run that a dispatch has started in it since.

A pull request that shadows an issue takes the issue's row with it, unless it is
approved, and the issue is remembered as seen (sweep.rs:2437-2447, 2498-2502,
4149-4161, 2599-2615). Closed unmerged it leaves the issue without a row until it
changes, an answer `defer` gone with the row. No line of the repository promises
otherwise, so `AttentionKept` and `AnswerStays` state the exception, and that there
is no other.

The design's own windows are not counted as findings: claim.rs documents
the three-contender one, docs/loops.md:59 the sweep's.

`implement.rs:326` releases the lease whether or not the terminal row was
appended; docs/implementer-binary-cutover.md:72-73 says it is released only
after. `LeaseOutlivesOrder` therefore lets a run release once it has *tried*.
`WorkingInFlight` and `RunKeepsOnlyRow` do not depend on it. Two reapers, or a
reaper and a supervisor, may both append an end for one order: one row per order
is not a property of the code, which promises it for the run's own row
(work_order.rs:676). `claim.rs:15-19` says that its window needs three processes;
the proof of `PairHoldsApart` shows it needs two when the claim that was left is
empty, for then a contender's fresh, still empty claim is the same bytes.
`crates/ostrom-store/assets/prompts/work.md:76` lets only a conflict with
completed green checks be repaired; `repair.rs` also repairs a failed head whose
base is green.

## What is proved

Eight modules hold proofs that TLAPS checks to the last step. None of them bounds
what TLC has to: their theorems are for every number of processes, items, hosts
and steps. Where a theorem assumes something of the surroundings, it is a constant
of the table above, and lifting it makes the property false. A module that proves
things of several components has an instance of each (`Trees`, `Scan`, `Hosts`).

| theorem | of | statement | assumed |
|---|---|---|---|
| `WindowOnly` | `ClaimFile` | `Spec => []DoubleHoldNeedsDisplacement` | |
| `PairHoldsApart` | `ClaimFile` | `Spec => []Exclusive` | `Pair` |
| `PairRefinement` | `ClaimFile` | `Spec => ImplementsExclusion` | `Pair` |
| `HoldersKeep`, `OneHolder` | `LeaseFile` | `Spec => []HolderKeepsLease`, `Spec => []OneInForce` | |
| `Refinement` | `LeaseFile` | `Spec => ImplementsExclusion` | |
| `OneRun` | `Dispatch` | `Spec => []OneRunPerItem` | `Sequential` |
| `Counted` | `Dispatch` | `Spec => []RunsAreCounted` | `Sequential` |
| `OnlyRow` | `Dispatch` | `Spec => []RunKeepsOnlyRow` | `Sequential` |
| `LeaseKept` | `Dispatch` | `Spec => LeaseOutlivesOrder` | `Sequential` |
| `OneUnitPerItem` | `Dispatch` | `Spec => []OneRunPerItem` | `Backend = "systemd"` |
| `OneWorker` | `LoopSupervisor` | `MCSpec => []WorkersApart` | `Apart`, `Prompt`, `~Careless` (fixed in `MCContest`) |
| `EndedOnce` | `PassReap` | `ReapSpec => []OneEndPerHold` | `Watched` |
| `GoneBefore` | `PassReap` | `ReapSpec => EndRecordedOnceGone` | `Watched`, no failing writes |
| `ApartGone` | the same | `MCSpec => EndRecordedGone` | the same |
| `SignalledRecorded`, `StoppedRecorded` | the same | `ReapSpec => []SignalledSaysStalled`, `MCSpec => []StoppedSaysStalled` | `Steady` |
| `Recorded` | `OrderReap` | `Spec => []OrderEndRecorded` | `Apart`, only workers killed from outside |
| `LivesRecorded`, `LivesEndedOnce` | the same | `MCSpec => []OrderEndRecorded`, `MCSpec => []OrderEndedOnce` | the same |
| `LogFollowed` | `EventLog` | `MCSpec => []LogIsFollowed` | `Apart` (fixed in `MCRecords`) |
| `RunEndsOnce` | `PassRun` | `MCSpec => []OneTerminalEvent` | |
| `RecordIsTrue` | the same | `MCSpec => []AnsweredAsRecorded` | `~Pauses` (fixed in `MCRecords`) |
| `Kept` | `Journal` | `Spec => []EventsKept` | `WholeLines`, `OneAtATime` |
| `SweepAttentive` | `Sweep` | `Spec => [](AttentionKept /\ AnswerStays)` | `Sound` |
| `SweepRecords` | `Sweep` | `Spec => []RecordedOnce` | `Sound` |
| `SweepReuse` | `Sweep` | `Spec /\ [](OneRepo \/ ClearHolds) => ReusedIsRecent` | `Sound` |
| `SweepReuseAlone` | `Sweep` | `Spec => ReusedIsRecent` | `Sound`, one repository or one sweeper |
| `RecordsKept`, `RecordsOnce` | `MCRecords` | `MCSpec => []EventsKept`, `MCSpec => []RecordedOnce` | `WholeLines`, `OneAtATime` |
| `RecordsAttentive` | `MCRecords` | `MCSpec => []AttentionKept` | |
| `RecordsReuse` | `MCRecords` | `MCSpec => ReusedIsRecent` | `One` has one member |
| `PublishedIsWhole` | `Publish` | `Spec => []PublishedWhole` | `FirstLands` |
| `UnchangedStands` | `Publish` | `Spec => UnchangedIsPublished` | `FirstLands` |
| `StandsOnListing` | `Repair` | `Spec => RepairStandsOnListing` | `BaseStays`, `BranchStays` |
| `WorkKept` | `Worktrees` | `Spec => []WorkIsKept` | `Apart`, `Quick`, `~LatePush` |
| `TreeKept` | `Worktrees` | `Spec => TreeIsKept` | `Apart`, `Quick` |
| `PassStands` | `Gate`, `DecisionAnswers` | `AnswerSpec => []PassStandsOnItsHead` | `~PushesMidRead`, some condition changes without a commit |
| `OneJudge` | the same | `AnswerSpec => [](DeliveredOnce /\ AuditTells)` | `Alone` |
| `AnswersTold` | the same | `AnswerSpec => [](AnswersAlternate /\ RecordedTookEffect)` | |
| `ExcusedAsked` | the same | `AnswerSpec => []ExcusedWasAsked` | no condition excused by hand |
| `LandingTyped`, `LandingRuns`, `LandingWork`, `LandingTree`, `LandingPassStands`, `LandingRepair`, `LandingOneJudge`, `LandingAnswers`, `LandingExcused`, `LandingPublished` | `MCLanding` | every invariant and property of the `landing` run, of `MCSpec` | `LandingConstants`; for `LandingRuns` `Sequential`; for `LandingOneJudge` one judge |

Each module also proves its typing (`Typing`, or a name that ends so). Two conjunctions of a step's
properties are proved by their parts: `RunsAreCounted` is `WorkingInFlight` with
`RunsWithinCeiling`, `EventsKept` and `OrderEndRecorded` are spelled out below.
`Constants` in a module is the conjunction of its constants' types; the modules
that have an `ASSUME` name it there. `MCSpec` is the specification that a run
checks: `contest`, `reaping`, `lives`, `records` or `landing`. Its theorems are
for the constants that its module fixes for an instance, and for any value of the
others: who takes part, how many of them, and the bounds.

None of the properties is inductive. Each module's `IInv` is what makes it so; TLC
checked each as an invariant of its module before the proof.

### `ClaimFileProofs`

`IInv` says whose a file is: a process has an inode open from its creation to its
release, no two have the same one (`OwnInode`), and until a take-over has moved a
live process's claim, each live claim is in place (`InPlace`). Two claims cannot
be in one place, which is `WindowOnly`: however many contend, fail or are killed.

`Pair` is two contenders, a leftover that is not empty, and writes that do not
fail. There the window closes, and the argument is about what a take-over can have
read: an empty file is one whose creator is about to write it (`EmptyIsFresh`), an
inode names whoever has it open (`NamesOwner`), so what is judged dead is what the
dead process left (`StaleIsGhosts`); and a live claim that is not in place is in
the other contender's hands, on its way back (`InReach`). When the other process is
killed in between, nobody is left to hold the claim twice.

`OneWorker` is about the workers of a loop. What makes `WorkersApart` inductive:
the file of a loop is never behind its last launch (`Ahead`): whatever writes it
later, a worker that ends late included, writes a later slot's record or its own
record of the same slot. One `up` at a time (`OneUp`) looks only at slots
that have begun (`InTime`, `Past`). A worker that has not recorded itself finds its
own launch on file, and one that has is the process on file (`WorkerOK`); so `up`,
which stops or launches by what the file says, launches only where nobody runs
(`NoneOn`, `UpOK`).

### `LeaseFileProofs`

`HolderKeepsLease` (while a lease is in force the file is what its holder last
wrote) is not inductive: a reclaimer about to remove the file may hold a verdict
reached long ago, and nothing in the property says the verdict is still right.
`IInv` adds what makes it so:

- `ClockInv`: a clock reading lags the clock, and the time slept since lags the
  time passed since. With it a lease judged lapsed has lapsed for good
  (`LapseIsFinal`, `DeathIsFinal`): the verdict cannot have become wrong through
  time, sleep or deaths, only through a change of the file.
- `OnlyGuardHolder`: whoever is inside a guarded operation holds the guard, so
  the file cannot be changed by another guarded operation meanwhile.
- `OneWriter`: a file not yet written has one creator, so that an unguarded
  first write cannot replace a record.
- `ReadIsCurrent`: what a guarded operation read is therefore still in the file.
- `OwnRecord`: a process's copy of its lease names itself, which turns "the file
  is what the holder wrote" into "there is one holder".

`Refinement` needs one fact more (`EntryStep`): a lease comes into force for a
process only when it is in force for nobody else, and never comes back into
force for one for which it had lapsed: only a renewal could do that, and it
finds its own name in the file. The assumptions are those the module names:
`LeaseAssumption` (the constants' types) and `SentinelAssumption` (no file, and
an unwritten one, are not records). That the guard excludes is how the model
uses `ClaimFile`, of which `PairHoldsApart` is the proof for a pair.

`Sweep` is the second half of the module, whose lease it lives by. `Sound`: a holder
keeps its lease while it commits (`Window = FALSE`) and no answer crosses a sweep
(`Crosses = FALSE`). Sweepers and repositories are any; crashes and errors come
between any two writes, and edits, merges and pull requests that shadow at any time.

- `Locked`: who commits has the lease, and no answer is under way while a sweep
  reads or is about to write the queue. So what a sweep has read is still so.
- `Attentive` makes `AttentionKept` inductive: what a sweep has drafted, has planned
  and is still to write fits the rows, before its write and after it (`Fits`), so that
  a crash between queue and state does no harm; and a row that it drops, or an item
  without one, is rejected, closed or shadowed (`Covered`, `Kept`).
- `Recording`: what a sweep has in hand is not recorded yet, and a row that it is
  about to show has its request and its fact.
- `Timed`: what has been acquired is no older than its generation says.

`ReusedIsRecent` needs the repairs as well: a revision that a sweep has is no older
than one a repair has invalidated for, or is about to (`Behind`, `Repairs`, `Carries`,
`Recent`). `SweepReuse` assumes one repository, or that a repair that comes to clear
still has the lease. Without either it fails: a repair whose lease has lapsed clears a
generation (sweep.rs:1369-1374), and with two repositories a sweep that read before
carries the old one of them into the next.

### `DispatchProofs`

`Sequential`: the process backend, dispatches that do not overlap, no order
dispatched twice, no dispatcher killed between starting a run and recording it, no
supervisor killed alone. Anything else may be killed anywhere, appends may fail,
leases lapse and orders are reaped as stale meanwhile.

`OneRun` rests on the file of an item: a dispatch under way, and a supervisor that
watches, have their order in it (`Current`), it has one order, and an order has one
dispatch (`OneDispatch`); a worker has its supervisor (`Staged`). `Counted` needs
that a run at work has a `dispatched` row and no terminal one (`Accounted`), which
holds because whoever closes an order from outside does so with its worker gone
(`Closing`), and because a launch finds room that nothing takes meanwhile (`Room`).
`LeaseKept` adds that a run past its launch has its item's lease (`Leased`).

`OneUnitPerItem` needs none of it: the unit's name is the item's, and systemd
refuses a second one, however dispatches overlap and whatever is killed.

`Worktrees` is the second half of the module. `TreeKept` rests on the lease
(`Held`): a run has it, and whoever may remove the tree has seen it free, since
when no run was launched; git's unregistered tree is one that a run was about to
make. `WorkKept` is about who else has a commit (`Kept`): the item's branch on
GitHub is left out, so that it may be deleted at any time, and `Safe` says that
what it has is elsewhere too, and that an open pull request's head is that branch.
A cleaner deletes the branches that were in the head of a pull request that is
over (`Cleared`), and such a head changes no more (`PullsStep`); they are still in
it at the deletion, because no run works meanwhile and a branch that someone makes
is cut from the item's. A run pushes only where no pull request is open
(`Settled`): the dispatch has looked, and only the run opens one. `RootedTypes` adds
to the types that the branch that is checked out is there.

### `PassReapProofs`

`Watched` is three things. A process's identity can be read, as `/proc` gives it
(`Identified`): elsewhere a reaper takes a pass whose lease lapsed for gone, and may
close one that lives. Starts do not overlap (`StartsApart`): two that do share a
name, as `pass_overlap` shows. And every pass has a repository to act on
(`EmptyScope = FALSE`): one that has none writes its row without looking for another
(pass.rs:881). Any number of passes, of reapers and of kills of either; `EndedOnce`
also when stops stay unconfirmed and writes fail.

A pass and a reaper both look for the end in the trace before they append it, and
nothing locks the trace in between. What keeps them apart is who else can be there:

- Passes that started have names of their own (`Named`), because one pass at a
  time is between reading the wake count and writing it.
- So a lease under the name of a pass that started is that pass's (`Leased`), and
  the process that a reaper looks at, and stops, is the pass's (`OwnProcess`).
- A pass about to record its end has read that there is none (`Closing`), and a
  reaper that is about to has read so after the pass was gone (`Jobs`): gone
  passes append nothing.
- Two reapers: one past its claim has the claim as long as the hold has no end
  (`Held`), so that the other one's look at the trace came after.

`GoneBefore` follows: the reaper waited for the process, and for the recorded
harness, before it looked.

`StoppedSaysStalled` needs reapers that finish what they began (`Steady`). Then a
claim is marked as signalled before the signal is sent, and stays so until the end
is written (`Tended`): nobody takes it over, for its reaper lives and has it. A pass
that was told to stop is over or its claim has the mark, and one about to write its
end has read the mark there (`Heeded`).

### `OrderReapProofs`

`OrderEndRecorded` is three things: a run that was signalled before anyone looked
into its end is recorded as stalled; no lease is released while a harness works;
and, when a run can write its row, an order gets one. The proof follows the claim:
it stays from the signal until there is a row (`Signals`), a reaper's claim is its
own and no stale-order reaper works under one (`Claims`); an order is ended from
outside only once the run is gone, with its harness (`Places`, `Stopped`). One row
needs `Once`: no run loses its lease before its row, so that a second look finds
either the run or its row. Any number of reapers and of kills. `LivesRecorded` and
`LivesEndedOnce` say it of the `lives` run, whose two scenes differ in whether a run
can always write its row.

### `JournalProofs`

`Kept` has two halves. For appends that overlap in any way: an event belongs to the
pass whose command appended it, and a run's numbers have no gap. An open pass is
the last one that started in the trace (`Marked`), so a fact's event is attributed
to it (`Owned`); a torn row is the exception, for then the reader gives up and the
event is the `local` run's. `Gapless` speaks of each set of numbers and of its
greatest one, so that no induction over the journal is needed, and `Next1` of a
number that a command is about to write. For appends that do not overlap
(`Apart`): every event has a number of its own and every row its event, because the
command that appends has read everything there is (`Alone`).

`RecordsKept` and `RecordsOnce` are about both journals of the `records` run: the
second is the first with fewer steps (`SerialSame`). Each of the run's three scenes
of the sweep is an instance of `LeaseFileProofs` (`OfContend`, `OfCarry`,
`OfDecide`), with nobody at its lease file (`NoLeases`); that a step of the
composition is one of the scene, or leaves it alone, is `ContendRuns` and its like.

`LogFollowed`, of a run's log. The sink that has the file knows where its append is
(`Drafted`): what a rollback cuts away begins with its own line. So a line that a
sink remembers (`CacheTrue`) or acknowledged (`AckedStay`) stays (`Stays`), and what
a follower has read is there too (`Follows`), unless it read a whole line that a
rollback then cut away (`retracted`).

`RunEndsOnce` and `RecordIsTrue`, of a harness's run, rest on one invariant,
`RunInv`. A finished log has its last event from whoever set the guard, with the
loop over and the harness stopped (`Ends`), so that no later append is tried. For
the answers: a call has its tool_use_id alone, and its two clocks are in step
(`OwnIds`); a receipt says what its call was told (`Told`); what was forwarded is
on record, with the decision it answers (`Asks`); a decision the loop looks at is
open, and by the time the loop has found it expired its call has not run (`Turn`).
Once the loop has answered, there is a receipt, or the deadline is past, or the
channel is gone (`Final`): by none of these can a call be told to run later. So what
the log says stays true (`Records`), unless the channel is lost, as `RecordAgrees`
says. In this instance an append may always fail, and the clause of
`OneTerminalEvent` that a run is finished in the end is left to `RunSettles`.

### `ForgeProofs`

*The gate.* Four invariants, each for one property.

- `StandsInv`: what a run of the gate has found stands for the head that it read
  first (`Stands`): a condition of the diff is read against that head, which the
  pull request still has (`Reads`), and a run that could read no head leaves some
  condition inconclusive. Every record in the journal is one of such findings
  (`Grounded`), and a pass has no other.
- `AskedInv`: from the request that a record makes (`AskedAbout`), through the
  command that reads it back and the exception it writes, to the run that finds the
  exception (`Excusing`), the head and the condition are the same.
- `AuditInv`: with one judge, what it says it has not judged is new to the journal,
  and its record is the last one until it returns (`Fresh`), so that between two
  deliveries of one judgment there is another of the same head (`Told`). A run that
  began before a merge knows of no commit later than its own (`Before`), and a merge
  on a verdict has that verdict's record (`Merged`): this is what the audit finds.
- `AnswerInv`: the ledger is a subsequence of what was delivered, in order
  (`Delivery`, a function from the one to the other), and what is about to be
  recorded is the last of it and no repetition of the ledger (`Answers`). One
  command at a time holds the lock; one that was killed leaves it behind.

`AnswersAlternate` and the judgment that `AlreadyJudged` looks up are said with
"the last one on this decision (of this head)" (`LastAnswer`, `LastJudged`), as the
code's scan in reverse order finds it.

*Publication and repair.* A commit of a snapshot keeps the gate records it says it
preserves, and this goes through every chain of commits, in the destination and in
each host's checkout (`Chains`); what a host is about to commit follows the last
commit it fetched (`Checkout`). So a snapshot is whole although a host without gate
records takes them over from another's. A repair stands on what was listed because
what it fetched is the head whose checks were read (`Listed`), as long as neither
base nor branch has moved (`Stays`).

### `MCLandingProofs`

The theorems of the components, carried to the specification that the `landing` run
checks, where one component moves at a time and the others stay as they were. A
proof module that is instantiated brings its own copy of the definitions it proves
about (`Works!Trees!Next` beside `Trees!Next`); `RunsSame`, `TreesSame`, `ScanSame`,
`HostsSame`, `GatesSame`, `ExcusesSame` and `TripwiresSame` show that the two are one,
by expanding both, and `RunsMove` and its like that a step of the composition is a
step of the component or leaves it alone. The constants the `landing` run fixes for
its instances are fixed here (which kinds of fault, the bounds on heads and
commits); who takes part (`Item`, `Attempt`, `Reaper`, `One`, `Two`) is any set.

### Only model-checked

- Liveness (`WhatBeganEnds`, `EverythingEnds`, `RunSettles`): it rests on fairness,
  out of the prover's reach.
- What folds over data: `TripIsDue` of `Watchdog` compares counters with counts
  over the whole log, which takes an induction the provers cannot do.
- `PassLife` by itself (`LoserYields`): no proof.
- `AllTyped` of the modules that put components together, other than `MCLanding`.
- The properties of `Dispatch` under the systemd backend other than
  `OneRunPerItem`, and those of more than two contenders beyond the window.

No module that is proved about has a recursive operator.

## What is left out of the modules

- A pass's row contents: costs, transcripts, `reconcile_outcome`'s attribution of
  rows by time, the daily cap.
- The reaper's verdict on progress (`quiet`).
- Dispatch's verification: one step, with its three outcomes. Reasons of failure,
  the repeated-failure guard, runner choice. The systemd fixture seam that records
  before it launches (dispatch.rs:727).
- A dispatch creates its lease file and writes it in one step (dispatch.rs:2529). Killed
  in between it leaves a file that refuses the item's later dispatches.
- Where in the gate's journal a line is torn: an answer that the code refuses because
  of a torn line before its judgment is accepted (`HeadRecorded`).
- The changes to workflows that an implementer withholds (implement.rs:1373-1431).
- A pass's harness that was spawned and not recorded when its pass was killed is
  only in `PassReap`'s `EndRecordedOnceGone`, which excuses it (docs/loops.md:173).
- The umwelt's steering and normalisers; the bridge's settings and version probe.
- The rules of the gate's conditions; the sweep's classification by policy. An item
  of `Sweep` is an issue that needs attention whenever it is open; the pull request
  that shadows it needs attention itself, and its own row is left out.

## What is not modelled

| component | why |
|---|---|
| velocity, repository scope | functions over GitHub data; a file of observations that one sweep at a time writes |
| selection | pure functions of a snapshot |
| checks | functions over GitHub data and configuration |
| hooks, paths, clock, environment | rendering and configuration |
| runner availability and budget | planned with the repeated-failure guard |
| policy | parsing and resolution of manifests |
| loop presets and operation dispatch | presets are data; an operation calls the pass and dispatch machinery |
| domain types, ethogram | types, schema and validation; no state |
| npm packaging | distribution |
| credentials | exchanges a key for a token; its failure is a failing step of its callers |
| plan loop | dispatches what a plan names, one command at a time, through dispatch |

## Plan

Proved next: `PassLife` (`LoserYields`).

Modelled next: runner availability and budget with the repeated-failure guard that
counts a run's failures; a policy version's life beside the loops that use it.
