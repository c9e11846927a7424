------------------------------- MODULE LeaseFile -------------------------------
(***************************************************************************)
(* A lease file of crates/ostrom-store/src/lease.rs: acquisition by        *)
(* exclusive create, reclamation of a lapsed lease, renewal and release,   *)
(* one action per file operation.  The mutation guard is the exclusive     *)
(* claim of module ClaimFile, used here by the promise of module Exclusion: *)
(* a dead process's guard is taken over, a live one's refuses.             *)
(*                                                                         *)
(* Each process acquires the lease under an owner name of its own, renews  *)
(* it while it works and releases it.  Any mortal process may be killed    *)
(* between two operations, and the machine may be suspended.               *)
(***************************************************************************)
EXTENDS Integers

CONSTANTS
    Proc,          \* the processes that want the lease
    Mortal,        \* those that may be killed
    NoLease,       \* there is no lease file
    Unreadable,    \* a lease file created but not yet written
    NoProc,        \* nobody holds the mutation guard
    TTL,           \* seconds a lease is granted or renewed for
    MaxTime,       \* bound: the wall clock stops here
    Renewable,     \* LeaseExpiryPolicy: Renewable, else ProcessLifetime
    Identified,    \* leases record their holder's process
    ProcReadable,  \* /proc can be read (never on macOS or Windows)
    WritesFail     \* whether a write may fail

ASSUME LeaseAssumption ==
    /\ Mortal \subseteq Proc
    /\ NoProc \notin Proc
    /\ TTL \in Nat \ {0}
    /\ MaxTime \in Nat
    /\ {Renewable, Identified, ProcReadable, WritesFail} \subseteq BOOLEAN

(* slept is the suspended total at started: it is what suspended_since     *)
(* (started_at) subtracts, and not a field of the file.                    *)
Lease == [owner : Proc, started : Nat, slept : Nat, expires : Nat]

ASSUME SentinelAssumption ==
    NoLease \notin Lease /\ Unreadable \notin Lease /\ NoLease # Unreadable

VARIABLES
    now,      \* the wall clock, in seconds
    slept,    \* seconds of it the machine spent suspended
    lease,    \* the lease file
    guard,    \* the holder of the mutation guard
    pc,       \* where each process is in lease.rs
    after,    \* where a process goes once it has dropped the guard
    t,        \* `now` as the process read it when the operation began
    s,        \* the suspended total it read then
    mine,     \* its own lease record, as a process last wrote or read it
    alive     \* processes still running

vars == <<now, slept, lease, guard, pc, after, t, s, mine, alive>>
--------------------------------------------------------------------------------
(* lease_is_live: what a process that sampled the clock at time, and the   *)
(* suspended total at asleep, concludes about a lease it read.             *)

Suspended(l, asleep) == IF asleep >= l.slept THEN asleep - l.slept ELSE 0

Liveness(p) ==
    IF ~ProcReadable THEN "Unknown" ELSE IF p \in alive THEN "Live" ELSE "NotLive"

Live(l, time, asleep) ==
    IF Renewable
    THEN /\ l.expires + Suspended(l, asleep) > time
         /\ Identified => Liveness(l.owner) # "NotLive"
    ELSE IF Identified /\ Liveness(l.owner) # "Unknown"
         THEN Liveness(l.owner) = "Live"
         ELSE l.expires > time

Readable == lease \notin {NoLease, Unreadable}

Record(p) == [owner |-> p, started |-> t[p], slept |-> s[p], expires |-> t[p] + TTL]

Running(p, label) == p \in alive /\ pc[p] = label

Goto(p, label) == pc' = [pc EXCEPT ![p] = label] /\ UNCHANGED after

(* Drop the guard, then go to label.                                       *)
LeaveTo(p, label) ==
    /\ pc' = [pc EXCEPT ![p] = "leave"]
    /\ after' = [after EXCEPT ![p] = label]

SampleClock(p) == t' = [t EXCEPT ![p] = now] /\ s' = [s EXCEPT ![p] = slept]

Init ==
    /\ now = 0 /\ slept = 0
    /\ lease = NoLease /\ guard = NoProc
    /\ pc = [p \in Proc |-> "idle"]
    /\ after = [p \in Proc |-> "idle"]
    /\ t = [p \in Proc |-> 0] /\ s = [p \in Proc |-> 0]
    /\ mine = [p \in Proc |-> [owner |-> p, started |-> 0, slept |-> 0, expires |-> 0]]
    /\ alive = Proc
--------------------------------------------------------------------------------
(* acquire_lease_record.                                                   *)

BeginAcquire(p) ==
    /\ Running(p, "idle")
    /\ SampleClock(p)
    /\ Goto(p, "install")
    /\ UNCHANGED <<now, slept, lease, guard, mine, alive>>

(* install_exclusive: create_new, then the write.                          *)
Create(p) ==
    /\ lease = NoLease
    /\ lease' = Unreadable
    /\ UNCHANGED <<now, slept, guard, t, s, mine, alive>>

Install(p) ==
    /\ Running(p, "install")
    /\ \/ Create(p) /\ Goto(p, "write")
       \/ /\ lease # NoLease /\ Goto(p, "judge")
          /\ UNCHANGED <<now, slept, lease, guard, t, s, mine, alive>>

WriteRecord(p) ==
    /\ lease' = Record(p)
    /\ mine' = [mine EXCEPT ![p] = Record(p)]
    /\ UNCHANGED <<now, slept, guard, t, s, alive>>

Unwrite(p) ==
    /\ WritesFail
    /\ lease' = NoLease
    /\ UNCHANGED <<now, slept, guard, t, s, mine, alive>>

Write(p) ==
    /\ Running(p, "write")
    /\ \/ WriteRecord(p) /\ Goto(p, "held")
       \/ Unwrite(p) /\ Goto(p, "judge")

(* A lease that cannot be read, has gone or is live refuses.               *)
Judge(p) ==
    /\ Running(p, "judge")
    /\ IF Readable /\ ~Live(lease, t[p], s[p]) THEN Goto(p, "guard") ELSE Goto(p, "idle")
    /\ UNCHANGED <<now, slept, lease, guard, t, s, mine, alive>>

(* Mutant: the guard excludes nobody.                                      *)
TakeGuardAlways(p, label, refused) ==
    /\ guard' = p /\ Goto(p, label)
    /\ UNCHANGED <<now, slept, lease, t, s, mine, alive>>

(* LeaseGuard::acquire, then label; or refused: back to refused.           *)
TakeGuard(p, label, refused) ==
    /\ IF guard = NoProc \/ guard \notin alive
       THEN guard' = p /\ Goto(p, label)
       ELSE guard' = guard /\ Goto(p, refused)
    /\ UNCHANGED <<now, slept, lease, t, s, mine, alive>>

GuardReclaim(p) == Running(p, "guard") /\ TakeGuard(p, "rejudge", "idle")

(* Under the guard the lease is read and judged again before its removal.  *)
Rejudge(p) ==
    /\ Running(p, "rejudge")
    /\ IF Readable /\ ~Live(lease, t[p], s[p]) THEN Goto(p, "remove") ELSE LeaveTo(p, "idle")
    /\ UNCHANGED <<now, slept, lease, guard, t, s, mine, alive>>

RemoveLapsed(p) ==
    /\ Running(p, "remove")
    /\ lease' = NoLease
    /\ Goto(p, "reinstall")
    /\ UNCHANGED <<now, slept, guard, t, s, mine, alive>>

(* A process that found no lease may have created its own in between:      *)
(* AcquiredConcurrently.                                                   *)
Reinstall(p) ==
    /\ Running(p, "reinstall")
    /\ \/ Create(p) /\ Goto(p, "rewrite")
       \/ /\ lease # NoLease /\ LeaveTo(p, "idle")
          /\ UNCHANGED <<now, slept, lease, guard, t, s, mine, alive>>

Rewrite(p) ==
    /\ Running(p, "rewrite")
    /\ \/ WriteRecord(p) /\ LeaveTo(p, "held")
       \/ Unwrite(p) /\ LeaveTo(p, "idle")

(* Drop of LeaseGuard.                                                     *)
LeaveGuard(p) ==
    /\ Running(p, "leave")
    /\ guard' = IF guard = p THEN NoProc ELSE guard
    /\ Goto(p, after[p])
    /\ UNCHANGED <<now, slept, lease, t, s, mine, alive>>
--------------------------------------------------------------------------------
(* renew_lease.  A guard held by a live process defers the renewal.        *)

BeginRenew(p) ==
    /\ Running(p, "held")
    /\ now + TTL <= MaxTime
    /\ SampleClock(p)
    /\ Goto(p, "rguard")
    /\ UNCHANGED <<now, slept, lease, guard, mine, alive>>

GuardRenew(p) == Running(p, "rguard") /\ TakeGuard(p, "rread", "held")

(* Mutant: a lease that is gone is renewed all the same.                   *)
RenewReadGone(p) ==
    /\ Running(p, "rread")
    /\ mine' = [mine EXCEPT ![p] = lease]
    /\ Goto(p, "rwrite")
    /\ UNCHANGED <<now, slept, lease, guard, t, s, alive>>

RenewRead(p) ==
    /\ Running(p, "rread")
    /\ \/ /\ Readable /\ lease.owner = p
          /\ mine' = [mine EXCEPT ![p] = lease]
          /\ Goto(p, "rwrite")
       \/ ~(Readable /\ lease.owner = p) /\ LeaveTo(p, "lost") /\ UNCHANGED mine
    /\ UNCHANGED <<now, slept, lease, guard, t, s, alive>>

Later(x, y) == IF x >= y THEN x ELSE y

RenewWrite(p) ==
    /\ Running(p, "rwrite")
    /\ \/ /\ lease' = [mine[p] EXCEPT !.expires = Later(@, t[p] + TTL)]
          /\ mine' = [mine EXCEPT ![p] = lease']
          /\ LeaveTo(p, "held")
       \/ WritesFail /\ LeaveTo(p, "lost") /\ UNCHANGED <<lease, mine>>
    /\ UNCHANGED <<now, slept, guard, t, s, alive>>
--------------------------------------------------------------------------------
(* release_lease.  A release the guard refuses is tried again when the     *)
(* owner is dropped, or the process exits with the lease in place.         *)

BeginRelease(p) ==
    /\ Running(p, "held") \/ Running(p, "lost")
    /\ Goto(p, "lguard")
    /\ UNCHANGED <<now, slept, lease, guard, t, s, mine, alive>>

GuardRelease(p) ==
    /\ Running(p, "lguard")
    /\ TakeGuard(p, "lread", "lguard") \/ TakeGuard(p, "lread", "done")

(* Mutant: whoever's lease it is, it is released.                          *)
ReleaseReadAny(p) ==
    /\ Running(p, "lread")
    /\ IF Readable THEN Goto(p, "lremove") ELSE LeaveTo(p, "done")
    /\ UNCHANGED <<now, slept, lease, guard, t, s, mine, alive>>

ReleaseRead(p) ==
    /\ Running(p, "lread")
    /\ IF Readable /\ lease.owner = p THEN Goto(p, "lremove") ELSE LeaveTo(p, "done")
    /\ UNCHANGED <<now, slept, lease, guard, t, s, mine, alive>>

ReleaseRemove(p) ==
    /\ Running(p, "lremove")
    /\ lease' = NoLease
    /\ LeaveTo(p, "done")
    /\ UNCHANGED <<now, slept, guard, t, s, mine, alive>>

Exit(p) ==
    /\ Running(p, "done")
    /\ alive' = alive \ {p}
    /\ UNCHANGED <<now, slept, lease, guard, pc, after, t, s, mine>>

Kill(p) ==
    /\ p \in Mortal \cap alive
    /\ alive' = alive \ {p}
    /\ UNCHANGED <<now, slept, lease, guard, pc, after, t, s, mine>>

(* A second passes, awake or suspended.                                    *)
Tick ==
    /\ now < MaxTime
    /\ now' = now + 1
    /\ UNCHANGED <<slept, lease, guard, pc, after, t, s, mine, alive>>

Sleep ==
    /\ now < MaxTime
    /\ now' = now + 1
    /\ slept' = slept + 1
    /\ UNCHANGED <<lease, guard, pc, after, t, s, mine, alive>>

Acquire(p) ==
    \/ BeginAcquire(p) \/ Install(p) \/ Write(p) \/ Judge(p) \/ GuardReclaim(p)
    \/ Rejudge(p) \/ RemoveLapsed(p) \/ Reinstall(p) \/ Rewrite(p)

Renew(p) == BeginRenew(p) \/ GuardRenew(p) \/ RenewRead(p) \/ RenewWrite(p)

Release(p) ==
    BeginRelease(p) \/ GuardRelease(p) \/ ReleaseRead(p) \/ ReleaseRemove(p) \/ Exit(p)

Step(p) == Acquire(p) \/ LeaveGuard(p) \/ Renew(p) \/ Release(p)

Next == (\E p \in Proc : Step(p) \/ Kill(p)) \/ Tick \/ Sleep

Spec == Init /\ [][Next]_vars

(* A process that has begun an operation finishes it unless it is killed,  *)
(* and a process that wants the lease asks again: passes are woken on a    *)
(* cadence, and a sweep waits for its lease in a loop.                     *)
FairSpec == Spec /\ \A p \in Proc : WF_vars(Acquire(p) \/ LeaveGuard(p))
--------------------------------------------------------------------------------
Label == {"idle", "install", "write", "judge", "guard", "rejudge", "remove", "reinstall",
          "rewrite", "leave", "held", "rguard", "rread", "rwrite", "lost", "lguard",
          "lread", "lremove", "done"}

(* Every variable has its type.                                            *)
TypeOK ==
    /\ now \in Nat /\ slept \in Nat
    /\ lease \in Lease \cup {NoLease, Unreadable}
    /\ guard \in Proc \cup {NoProc}
    /\ pc \in [Proc -> Label] /\ after \in [Proc -> {"idle", "held", "lost", "done"}]
    /\ t \in [Proc -> Nat] /\ s \in [Proc -> Nat]
    /\ mine \in [Proc -> Lease]
    /\ alive \in SUBSET Proc

(* A process believes it has the lease from the write that granted it to   *)
(* the renewal that finds it gone, or to its own release.                  *)
Holds(p) ==
    \/ pc[p] \in {"held", "rguard", "rread", "rwrite"}
    \/ pc[p] = "leave" /\ after[p] = "held"

(* Its lease is in force while anyone who read the record it last wrote    *)
(* would judge it live now.                                                *)
InForce(p) == p \in alive /\ Holds(p) /\ Live(mine[p], now, slept)

(* While its lease is in force, the file is what the holder wrote: no      *)
(* reclaimer, with whatever clock reading and however long it has paused,  *)
(* removes, replaces or releases a lease in force.                         *)
HolderKeepsLease == \A p \in Proc : InForce(p) => lease = mine[p]

(* Two processes never hold the lease in force together.                   *)
OneInForce == \A p, q \in Proc : InForce(p) /\ InForce(q) => p = q

(* The lease implements mutual exclusion of the processes it is in force   *)
(* for.                                                                    *)
Promised == INSTANCE Exclusion WITH holders <- {p \in Proc : InForce(p)}

ImplementsExclusion == Promised!Spec

(* A killed holder's lease is taken from the file as long as somebody who  *)
(* cannot be killed keeps asking for it: no guard or record left by a      *)
(* process killed between two operations refuses for ever.                 *)
Asking(p) ==
    /\ p \in alive \ Mortal
    /\ \/ pc[p] \in {"idle", "install", "write", "judge", "guard", "rejudge", "remove",
                     "reinstall", "rewrite"}
       \/ pc[p] = "leave" /\ after[p] = "idle"

DeadLease(p) == Readable /\ lease.owner = p /\ p \notin alive

DeadLeaseCleared ==
    \A p \in Mortal, q \in Proc \ Mortal : DeadLease(p) /\ Asking(q) ~> ~DeadLease(p)

(* "A killed holder therefore clears within one expiry on every platform"  *)
(* (docs/loops.md:53-54): one expiry after a process was killed while it   *)
(* was taking the lease, the file it left does not refuse another.         *)
KilledHolderClears ==
    [][\A p, q \in Proc :
          /\ q \notin alive /\ pc[q] \in {"write", "rewrite"} /\ lease = Unreadable
          /\ Judge(p) /\ t[p] > t[q] + TTL
          => pc'[p] # "idle"]_vars
================================================================================
