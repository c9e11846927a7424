---------------------------- MODULE LeaseFileProofs ----------------------------
(***************************************************************************)
(* Proofs about LeaseFile, for every set of processes, every TTL, either   *)
(* expiry policy, with or without /proc.  The argument: an existing lease  *)
(* file is changed only by the one live process that holds the mutation    *)
(* guard (OnlyGuardHolder) or by the process that created it and has not   *)
(* written it yet (OneWriter); under the guard a reclaimer removes only    *)
(* what it judged lapsed, and a lapse, once true, stays true               *)
(* (LapseIsFinal, DeathIsFinal).                                           *)
(***************************************************************************)
EXTENDS LeaseFile, TLAPS

Guarded == {"rejudge", "remove", "reinstall", "rewrite", "leave", "rread", "rwrite",
            "lread", "lremove"}

Writing(p) == pc[p] \in {"write", "rewrite"}

(* A clock reading is not ahead of the clock, and no more time was slept   *)
(* since than has passed.                                                  *)
ClockInv ==
    \A p \in Proc : t[p] <= now /\ s[p] <= slept /\ slept - s[p] <= now - t[p]

(* Whoever is inside a guarded operation holds the guard.                  *)
OnlyGuardHolder == \A p \in alive : pc[p] \in Guarded => guard = p

(* A lease file not yet written has one creator, who is about to write it. *)
OneWriter ==
    /\ \A p \in Proc : Writing(p) => lease = Unreadable
    /\ \A p, q \in Proc : Writing(p) /\ Writing(q) => p = q

(* What a guarded operation read under the guard is still so.              *)
ReadIsCurrent ==
    \A p \in alive :
        /\ pc[p] = "remove" => Readable /\ ~Live(lease, t[p], s[p])
        /\ pc[p] \in {"rwrite", "lremove"} => Readable /\ lease.owner = p

OwnRecord == \A p \in Proc : mine[p].owner = p

USE LeaseAssumption, SentinelAssumption
--------------------------------------------------------------------------------
(* Every variable keeps its type (TypeOK), from every action.              *)
LEMMA TypeStep == TypeOK /\ [Next]_vars => TypeOK'
<1> SUFFICES ASSUME TypeOK, [Next]_vars PROVE TypeOK'
  OBVIOUS
<1> USE DEF TypeOK, Label, Lease, Goto, LeaveTo, Running
<1>1. ASSUME NEW p \in Proc, Acquire(p) PROVE TypeOK'
  <2> USE <1>1 DEF Create, WriteRecord, Unwrite, TakeGuard, SampleClock, Record
  <2>1. CASE BeginAcquire(p) BY <2>1 DEF BeginAcquire
  <2>2. CASE Install(p) BY <2>2 DEF Install
  <2>3. CASE Write(p)
    <3>1. Record(p) \in Lease OBVIOUS
    <3>2. CASE WriteRecord(p) /\ Goto(p, "held") BY <3>1, <3>2 DEF WriteRecord
    <3>3. CASE Unwrite(p) /\ Goto(p, "judge") BY <3>3
    <3>4. QED BY <2>3, <3>2, <3>3 DEF Write
  <2>4. CASE Judge(p) BY <2>4 DEF Judge
  <2>5. CASE GuardReclaim(p) BY <2>5 DEF GuardReclaim
  <2>6. CASE Rejudge(p) BY <2>6 DEF Rejudge
  <2>7. CASE RemoveLapsed(p) BY <2>7 DEF RemoveLapsed
  <2>8. CASE Reinstall(p) BY <2>8 DEF Reinstall
  <2>9. CASE Rewrite(p)
    <3>1. Record(p) \in Lease OBVIOUS
    <3>2. CASE WriteRecord(p) /\ LeaveTo(p, "held") BY <3>1, <3>2 DEF WriteRecord
    <3>3. CASE Unwrite(p) /\ LeaveTo(p, "idle") BY <3>3
    <3>4. QED BY <2>9, <3>2, <3>3 DEF Rewrite
  <2>10. QED BY <1>1, <2>1, <2>2, <2>3, <2>4, <2>5, <2>6, <2>7, <2>8, <2>9 DEF Acquire
<1>2. ASSUME NEW p \in Proc, LeaveGuard(p) PROVE TypeOK'
  BY <1>2 DEF LeaveGuard
<1>3. ASSUME NEW p \in Proc, Renew(p) PROVE TypeOK'
  <2>1. CASE BeginRenew(p) BY <2>1 DEF BeginRenew, SampleClock
  <2>2. CASE GuardRenew(p) BY <2>2 DEF GuardRenew, TakeGuard
  <2>3. CASE RenewRead(p) BY <2>3 DEF RenewRead, Readable
  <2>4. CASE RenewWrite(p)
    <3>1. t[p] + TTL \in Nat OBVIOUS
    <3>2. Later(mine[p].expires, t[p] + TTL) \in Nat BY <3>1 DEF Later
    <3>3. [mine[p] EXCEPT !.expires = Later(@, t[p] + TTL)] \in Lease
      BY <3>2
    <3>4. lease' \in Lease \cup {NoLease, Unreadable} /\ mine' \in [Proc -> Lease]
      BY <2>4, <3>3 DEF RenewWrite
    <3>5. QED BY <2>4, <3>4 DEF RenewWrite
  <2>5. QED BY <1>3, <2>1, <2>2, <2>3, <2>4 DEF Renew
<1>4. ASSUME NEW p \in Proc, Release(p) PROVE TypeOK'
  <2>1. CASE BeginRelease(p) BY <2>1 DEF BeginRelease
  <2>2. CASE GuardRelease(p) BY <2>2 DEF GuardRelease, TakeGuard
  <2>3. CASE ReleaseRead(p) BY <2>3 DEF ReleaseRead
  <2>4. CASE ReleaseRemove(p) BY <2>4 DEF ReleaseRemove
  <2>5. CASE Exit(p) BY <2>5 DEF Exit
  <2>6. QED BY <1>4, <2>1, <2>2, <2>3, <2>4, <2>5 DEF Release
<1>5. ASSUME NEW p \in Proc, Kill(p) PROVE TypeOK'
  BY <1>5 DEF Kill
<1>6. CASE Tick BY <1>6 DEF Tick
<1>7. CASE Sleep BY <1>7 DEF Sleep
<1>8. CASE UNCHANGED vars BY <1>8 DEF vars
<1>9. QED BY <1>1, <1>2, <1>3, <1>4, <1>5, <1>6, <1>7, <1>8 DEF Next, Step

(* TypeOK holds in every reachable state.                                 *)
THEOREM Typing == Spec => []TypeOK
<1>1. Init => TypeOK
  BY DEF Init, TypeOK, Label, Lease
<1>2. QED BY <1>1, TypeStep, PTL DEF Spec
--------------------------------------------------------------------------------
(* Once a lease has lapsed for a process whose clock reading is old, it    *)
(* has lapsed for everyone: time slept never outruns time passed.          *)
LEMMA LapseIsFinal ==
  ASSUME NEW l \in Lease, NEW time \in Nat, NEW asleep \in Nat,
         NEW later \in Nat, NEW asleepLater \in Nat,
         asleep <= asleepLater, asleepLater - asleep <= later - time,
         ~Live(l, time, asleep)
  PROVE  ~Live(l, later, asleepLater)
<1>1. l.slept \in Nat /\ l.expires \in Nat BY DEF Lease
<1>2. Suspended(l, asleepLater) <= Suspended(l, asleep) + (later - time)
      /\ Suspended(l, asleep) \in Nat /\ Suspended(l, asleepLater) \in Nat
  BY <1>1 DEF Suspended
<1>3. CASE Renewable
  BY <1>1, <1>2, <1>3 DEF Live
<1>4. CASE ~Renewable
  BY <1>1, <1>4 DEF Live
<1>5. QED BY <1>3, <1>4

(* Nobody who is gone comes back: a lease live once processes have ended   *)
(* was live before.                                                        *)
LEMMA DeathIsFinal ==
  ASSUME NEW l \in Lease, NEW time \in Nat, NEW asleep \in Nat,
         alive' \subseteq alive, Live(l, time, asleep)'
  PROVE  Live(l, time, asleep)
BY DEF Live, Liveness, Suspended

(* Clock readings lag the clock, and sleep lags time (ClockInv).           *)
LEMMA ClockStep == TypeOK /\ ClockInv /\ [Next]_vars => ClockInv'
<1> SUFFICES ASSUME TypeOK, ClockInv, [Next]_vars PROVE ClockInv'
  OBVIOUS
<1> USE DEF TypeOK, ClockInv, SampleClock
<1>1. ASSUME NEW p \in Proc, Step(p)
      PROVE  UNCHANGED <<now, slept>> /\ (UNCHANGED <<t, s>> \/ SampleClock(p))
  <2>1. CASE Acquire(p)
    BY <2>1 DEF Acquire, BeginAcquire, Install, Write, Judge, GuardReclaim, Rejudge,
       RemoveLapsed, Reinstall, Rewrite, Create, WriteRecord, Unwrite, TakeGuard
  <2>2. CASE LeaveGuard(p) BY <2>2 DEF LeaveGuard
  <2>3. CASE Renew(p)
    BY <2>3 DEF Renew, BeginRenew, GuardRenew, RenewRead, RenewWrite, TakeGuard
  <2>4. CASE Release(p)
    BY <2>4 DEF Release, BeginRelease, GuardRelease, ReleaseRead, ReleaseRemove, Exit, TakeGuard
  <2>5. QED BY <1>1, <2>1, <2>2, <2>3, <2>4 DEF Step
<1>2. ASSUME NEW p \in Proc, Step(p) PROVE ClockInv'
  BY <1>1, <1>2
<1>3. ASSUME NEW p \in Proc, Kill(p) PROVE ClockInv'
  BY <1>3 DEF Kill
<1>4. CASE Tick BY <1>4 DEF Tick
<1>5. CASE Sleep BY <1>5 DEF Sleep
<1>6. CASE UNCHANGED vars BY <1>6 DEF vars
<1>7. QED BY <1>2, <1>3, <1>4, <1>5, <1>6 DEF Next

(* What a step of p leaves alone: every other process's place and records, *)
(* and who else is alive.                                                  *)
LEMMA OthersUntouched ==
  ASSUME TypeOK, NEW p \in Proc, Step(p)
  PROVE  /\ p \in alive /\ alive' \in {alive, alive \ {p}}
         /\ \A q \in Proc \ {p} :
              /\ pc'[q] = pc[q] /\ after'[q] = after[q] /\ mine'[q] = mine[q]
              /\ t'[q] = t[q] /\ s'[q] = s[q]
<1> USE DEF TypeOK, SampleClock, Goto, LeaveTo, Running
<1>1. CASE Acquire(p)
  BY <1>1 DEF Acquire, BeginAcquire, Install, Write, Judge, GuardReclaim, Rejudge,
     RemoveLapsed, Reinstall, Rewrite, Create, WriteRecord, Unwrite, TakeGuard
<1>2. CASE LeaveGuard(p) BY <1>2 DEF LeaveGuard
<1>3. CASE Renew(p)
  BY <1>3 DEF Renew, BeginRenew, GuardRenew, RenewRead, RenewWrite, TakeGuard
<1>4. CASE Release(p)
  BY <1>4 DEF Release, BeginRelease, GuardRelease, ReleaseRead, ReleaseRemove, Exit, TakeGuard
<1>5. QED BY <1>1, <1>2, <1>3, <1>4 DEF Step

(* The guard is taken only when it is free or its holder is dead, so one   *)
(* live process at a time is inside (OnlyGuardHolder).                     *)
LEMMA GuardStep == TypeOK /\ OnlyGuardHolder /\ [Next]_vars => OnlyGuardHolder'
<1> SUFFICES ASSUME TypeOK, OnlyGuardHolder, [Next]_vars PROVE OnlyGuardHolder'
  OBVIOUS
<1> USE DEF TypeOK, OnlyGuardHolder, Guarded
<1>1. ASSUME NEW p \in Proc, Step(p) PROVE OnlyGuardHolder'
  <2> USE DEF Running, Goto, LeaveTo
  <2>1. alive' \subseteq alive /\ alive \subseteq Proc
    BY <1>1, OthersUntouched
  <2>2. \/ guard' = guard /\ (p \in alive' /\ pc'[p] \in Guarded => guard = p)
        \/ guard' = p /\ (guard = NoProc \/ guard \notin alive)
        \/ guard' = NoProc /\ guard = p /\ pc'[p] \notin Guarded
    <3>1. CASE Acquire(p)
      BY <3>1 DEF Acquire, BeginAcquire, Install, Write, Judge, GuardReclaim, Rejudge,
         RemoveLapsed, Reinstall, Rewrite, Create, WriteRecord, Unwrite, TakeGuard, SampleClock
    <3>2. CASE LeaveGuard(p) BY <3>2 DEF LeaveGuard
    <3>3. CASE Renew(p)
      BY <3>3 DEF Renew, BeginRenew, GuardRenew, RenewRead, RenewWrite, TakeGuard, SampleClock
    <3>4. CASE Release(p)
      BY <3>4 DEF Release, BeginRelease, GuardRelease, ReleaseRead, ReleaseRemove, Exit, TakeGuard
    <3>5. QED BY <1>1, <3>1, <3>2, <3>3, <3>4 DEF Step
  <2>3. QED BY <1>1, <2>1, <2>2, OthersUntouched
<1>2. ASSUME NEW p \in Proc, Kill(p) PROVE OnlyGuardHolder'
  BY <1>2 DEF Kill
<1>3. CASE Tick BY <1>3 DEF Tick
<1>4. CASE Sleep BY <1>4 DEF Sleep
<1>5. CASE UNCHANGED vars BY <1>5 DEF vars
<1>6. QED BY <1>1, <1>2, <1>3, <1>4, <1>5 DEF Next

(* The only ways a step changes the lease file.                            *)
LEMMA LeaseChanges ==
  ASSUME TypeOK, NEW p \in Proc, Step(p)
  PROVE  /\ \/ lease' = lease
            \/ lease = NoLease /\ lease' = Unreadable
            \/ Writing(p) /\ lease' \in {Record(p), NoLease}
            \/ pc[p] \in {"remove", "lremove"} /\ lease' = NoLease
            \/ /\ pc[p] = "rwrite" /\ lease' = mine'[p]
               /\ mine'[p] = [mine[p] EXCEPT !.expires = Later(mine[p].expires, t[p] + TTL)]
         /\ Writing(p) => ~Writing(p)'
         /\ Writing(p)' => lease = NoLease /\ lease' = Unreadable
<1> USE DEF TypeOK, Writing, Goto, LeaveTo, Running
<1>1. CASE Acquire(p)
  BY <1>1 DEF Acquire, BeginAcquire, Install, Write, Judge, GuardReclaim, Rejudge,
     RemoveLapsed, Reinstall, Rewrite, Create, WriteRecord, Unwrite, TakeGuard, SampleClock
<1>2. CASE LeaveGuard(p) BY <1>2 DEF LeaveGuard
<1>3. CASE Renew(p)
  BY <1>3 DEF Renew, BeginRenew, GuardRenew, RenewRead, RenewWrite, TakeGuard, SampleClock
<1>4. CASE Release(p)
  BY <1>4 DEF Release, BeginRelease, GuardRelease, ReleaseRead, ReleaseRemove, Exit, TakeGuard
<1>5. QED BY <1>1, <1>2, <1>3, <1>4 DEF Step

(* An unwritten lease file belongs to the one process that created it      *)
(* (OneWriter): create_new succeeds only when there is no file, and nobody *)
(* removes what cannot be read.                                            *)
LEMMA WriterStep ==
  TypeOK /\ OneWriter /\ ReadIsCurrent /\ [Next]_vars => OneWriter'
<1> SUFFICES ASSUME TypeOK, OneWriter, ReadIsCurrent, [Next]_vars PROVE OneWriter'
  OBVIOUS
<1>1. ASSUME NEW p \in Proc, Step(p) PROVE OneWriter'
  <2>1. \A q \in Proc \ {p} : Writing(q)' <=> Writing(q)
    BY <1>1, OthersUntouched DEF Writing
  <2>2. pc[p] \in {"remove", "lremove", "rwrite"} => Readable
    BY <1>1, OthersUntouched DEF ReadIsCurrent
  <2>3. CASE Writing(p)
    BY <1>1, <2>1, <2>3, LeaseChanges DEF OneWriter
  <2>4. CASE ~Writing(p) /\ Writing(p)'
    BY <1>1, <2>1, <2>4, LeaseChanges DEF OneWriter
  <2>5. CASE ~Writing(p) /\ ~Writing(p)'
    BY <1>1, <2>1, <2>2, <2>5, LeaseChanges DEF OneWriter, Readable
  <2>6. QED BY <2>3, <2>4, <2>5
<1>2. CASE ~ \E p \in Proc : Step(p)
  <2>1. UNCHANGED <<pc, lease>> BY <1>2 DEF Next, Kill, Tick, Sleep, vars
  <2>2. QED BY <2>1 DEF OneWriter, Writing
<1>3. QED BY <1>1, <1>2

(* What a guarded read found stays so until the write that follows it      *)
(* (ReadIsCurrent).                                                        *)
LEMMA CurrentStep ==
  TypeOK /\ OnlyGuardHolder /\ OneWriter /\ ReadIsCurrent /\ [Next]_vars => ReadIsCurrent'
<1> SUFFICES ASSUME TypeOK, OnlyGuardHolder, OneWriter, ReadIsCurrent, [Next]_vars
             PROVE  ReadIsCurrent'
  OBVIOUS
<1>1. ASSUME NEW p \in Proc, Step(p), NEW q \in alive'
      PROVE  /\ pc'[q] = "remove" => Readable' /\ ~Live(lease, t[q], s[q])'
             /\ pc'[q] \in {"rwrite", "lremove"} => Readable' /\ lease'.owner = q
  <2>1. p \in alive /\ q \in alive /\ q \in Proc /\ alive' \subseteq alive
    BY <1>1, OthersUntouched DEF TypeOK
  <2>2. CASE q # p
    <3> USE <2>1, <2>2
    <3>1. pc'[q] = pc[q] /\ t'[q] = t[q] /\ s'[q] = s[q]
      BY <1>1, OthersUntouched
    <3>2. SUFFICES ASSUME pc[q] \in {"remove", "rwrite", "lremove"} PROVE lease' = lease
      <4>1. CASE pc[q] = "remove"
        <5>1. Readable /\ ~Live(lease, t[q], s[q]) /\ lease' = lease
          BY <3>2, <4>1 DEF ReadIsCurrent
        <5>2. lease \in Lease /\ t[q] \in Nat /\ s[q] \in Nat
          BY <5>1 DEF Readable, TypeOK
        <5>3. ~Live(lease, t[q], s[q])' BY <3>1, <5>1, <5>2 DEF Live, Liveness, Suspended
        <5>4. QED BY <3>1, <4>1, <5>1, <5>3 DEF Readable
      <4>2. CASE pc[q] \in {"rwrite", "lremove"}
        BY <3>1, <3>2, <4>2 DEF ReadIsCurrent, Readable
      <4>3. QED BY <3>1, <4>1, <4>2
    <3>3. Readable BY <3>2 DEF ReadIsCurrent
    <3>4. guard = q BY <3>2 DEF OnlyGuardHolder, Guarded
    <3>5. pc[p] \notin {"remove", "rwrite", "lremove"}
      BY <3>4 DEF OnlyGuardHolder, Guarded
    <3>6. ~Writing(p) BY <3>3 DEF OneWriter, Readable
    <3>7. QED BY <1>1, <3>3, <3>5, <3>6, LeaseChanges DEF Readable
  <2>3. CASE q = p
    <3> USE DEF Running, Goto, LeaveTo, TypeOK
    <3>1. CASE Acquire(p)
      BY <2>3, <3>1 DEF Acquire, BeginAcquire, Install, Write, Judge, GuardReclaim, Rejudge,
         RemoveLapsed, Reinstall, Rewrite, Create, WriteRecord, Unwrite, TakeGuard, SampleClock,
         Readable, Live, Liveness, Suspended
    <3>2. CASE LeaveGuard(p) BY <2>3, <3>2 DEF LeaveGuard
    <3>3. CASE Renew(p)
      BY <2>3, <3>3 DEF Renew, BeginRenew, GuardRenew, RenewRead, RenewWrite, TakeGuard,
         SampleClock, Readable
    <3>4. CASE Release(p)
      BY <2>3, <3>4 DEF Release, BeginRelease, GuardRelease, ReleaseRead, ReleaseRemove, Exit,
         TakeGuard, Readable
    <3>5. QED BY <1>1, <3>1, <3>2, <3>3, <3>4 DEF Step
  <2>4. QED BY <2>2, <2>3
<1>2. ASSUME ~ \E p \in Proc : Step(p), NEW q \in alive'
      PROVE  /\ pc'[q] = "remove" => Readable' /\ ~Live(lease, t[q], s[q])'
             /\ pc'[q] \in {"rwrite", "lremove"} => Readable' /\ lease'.owner = q
  <2>1. UNCHANGED <<pc, lease, t, s>> /\ alive' \subseteq alive
    BY <1>2 DEF Next, Kill, Tick, Sleep, vars
  <2>2. q \in alive BY <2>1
  <2>3. QED BY <2>1, <2>2 DEF ReadIsCurrent, Readable, Live, Liveness, Suspended
<1>3. QED BY <1>1, <1>2 DEF ReadIsCurrent
--------------------------------------------------------------------------------
(* A process's record names the process (OwnRecord).                       *)
LEMMA OwnStep == TypeOK /\ OwnRecord /\ [Next]_vars => OwnRecord'
<1> SUFFICES ASSUME TypeOK, OwnRecord, [Next]_vars PROVE OwnRecord'
  OBVIOUS
<1>1. ASSUME NEW p \in Proc, Step(p) PROVE OwnRecord'
  <2> USE DEF TypeOK, OwnRecord, Goto, LeaveTo, Running
  <2>1. mine'[p].owner = p
    <3>1. CASE Acquire(p)
      BY <3>1 DEF Acquire, BeginAcquire, Install, Write, Judge, GuardReclaim, Rejudge,
         RemoveLapsed, Reinstall, Rewrite, Create, WriteRecord, Unwrite, TakeGuard, Record
    <3>2. CASE LeaveGuard(p) BY <3>2 DEF LeaveGuard
    <3>3. CASE Renew(p)
      <4>1. CASE RenewWrite(p)
        <5>1. mine[p] \in Lease /\ mine[p].owner = p OBVIOUS
        <5>2. QED BY <4>1, <5>1 DEF RenewWrite, Lease
      <4>2. CASE RenewRead(p) BY <4>2 DEF RenewRead
      <4>3. CASE BeginRenew(p) \/ GuardRenew(p)
        BY <4>3 DEF BeginRenew, GuardRenew, TakeGuard
      <4>4. QED BY <3>3, <4>1, <4>2, <4>3 DEF Renew
    <3>4. CASE Release(p)
      BY <3>4 DEF Release, BeginRelease, GuardRelease, ReleaseRead, ReleaseRemove, Exit,
         TakeGuard
    <3>5. QED BY <1>1, <3>1, <3>2, <3>3, <3>4 DEF Step
  <2>2. QED BY <1>1, <2>1, OthersUntouched
<1>2. CASE ~ \E p \in Proc : Step(p)
  BY <1>2 DEF Next, Kill, Tick, Sleep, vars, OwnRecord
<1>3. QED BY <1>1, <1>2

(* A process that holds its lease after a step either just put what it     *)
(* wrote in the file, or held it before and left it as it was.             *)
LEMMA HoldsChanges ==
  ASSUME TypeOK, NEW p \in Proc, Step(p), Holds(p)'
  PROVE  \/ lease' = mine'[p]
         \/ Holds(p) /\ mine'[p] = mine[p] /\ lease' = lease
<1> USE DEF TypeOK, Holds, Goto, LeaveTo, Running
<1>1. CASE Acquire(p)
  BY <1>1 DEF Acquire, BeginAcquire, Install, Write, Judge, GuardReclaim, Rejudge,
     RemoveLapsed, Reinstall, Rewrite, Create, WriteRecord, Unwrite, TakeGuard, SampleClock
<1>2. CASE LeaveGuard(p) BY <1>2 DEF LeaveGuard
<1>3. CASE Renew(p)
  BY <1>3 DEF Renew, BeginRenew, GuardRenew, RenewRead, RenewWrite, TakeGuard, SampleClock
<1>4. CASE Release(p)
  BY <1>4 DEF Release, BeginRelease, GuardRelease, ReleaseRead, ReleaseRemove, Exit, TakeGuard
<1>5. QED BY <1>1, <1>2, <1>3, <1>4 DEF Step

(* The inductive invariant.                                                *)
IInv ==
    /\ TypeOK /\ ClockInv /\ OnlyGuardHolder /\ OneWriter /\ ReadIsCurrent /\ OwnRecord
    /\ HolderKeepsLease

(* Nobody disturbs the file of a lease in force (HolderKeepsLease): the    *)
(* creator finds no file, the writer finds its own empty one, a reclaimer  *)
(* holds a verdict that is still true, and a renewal or a release found    *)
(* its own name under the guard.                                           *)
LEMMA KeepStep == IInv /\ [Next]_vars => HolderKeepsLease'
<1> SUFFICES ASSUME IInv, [Next]_vars, NEW q \in Proc, InForce(q)'
             PROVE  lease' = mine'[q]
  BY DEF HolderKeepsLease
<1> USE DEF IInv
<1>1. now \in Nat /\ slept \in Nat /\ mine \in [Proc -> Lease] /\ alive \subseteq Proc
  BY DEF TypeOK
<1>2. ASSUME NEW p \in Proc, Step(p) PROVE lease' = mine'[q]
  <2>1. now' = now /\ slept' = slept /\ alive' \subseteq alive
    <3>1. now' = now /\ slept' = slept
      BY <1>2 DEF Step, Acquire, BeginAcquire, Install, Write, Judge, GuardReclaim, Rejudge,
         RemoveLapsed, Reinstall, Rewrite, Create, WriteRecord, Unwrite, TakeGuard, LeaveGuard,
         Renew, BeginRenew, GuardRenew, RenewRead, RenewWrite,
         Release, BeginRelease, GuardRelease, ReleaseRead, ReleaseRemove, Exit
    <3>2. QED BY <1>2, <3>1, OthersUntouched
  <2>2. SUFFICES ASSUME Holds(q), mine'[q] = mine[q], lease' = lease \/ q # p
                 PROVE  lease' = mine[q]
    <3>1. Holds(q)' BY DEF InForce
    <3>2. CASE q = p BY <1>2, <2>2, <3>1, <3>2, HoldsChanges
    <3>3. CASE q # p BY <1>2, <2>2, <3>1, <3>3, OthersUntouched DEF Holds
    <3>4. QED BY <3>2, <3>3
  <2>3. Live(mine[q], now, slept)
    BY <1>1, <2>1, <2>2, DeathIsFinal DEF InForce, Live, Liveness, Suspended
  <2>4. lease = mine[q] /\ lease \in Lease /\ lease.owner = q
    BY <1>1, <2>1, <2>2, <2>3 DEF InForce, HolderKeepsLease, OwnRecord
  <2>5. SUFFICES ASSUME q # p, lease' # lease PROVE FALSE
    BY <2>2, <2>4
  <2>6. CASE pc[p] = "remove"
    <3>1. ~Live(lease, t[p], s[p]) /\ t[p] \in Nat /\ s[p] \in Nat
      BY <1>2, <2>6, OthersUntouched DEF ReadIsCurrent, TypeOK
    <3>2. s[p] <= slept /\ slept - s[p] <= now - t[p]
      BY DEF ClockInv
    <3>3. ~Live(lease, now, slept)
      BY <1>1, <2>4, <3>1, <3>2, LapseIsFinal
    <3>4. QED BY <2>3, <2>4, <3>3
  <2>7. CASE pc[p] \in {"lremove", "rwrite"}
    BY <1>2, <2>4, <2>5, <2>7, OthersUntouched DEF ReadIsCurrent
  <2>8. CASE Writing(p) \/ lease = NoLease
    BY <2>4, <2>8, SentinelAssumption DEF OneWriter
  <2>9. QED BY <1>2, <2>5, <2>6, <2>7, <2>8, LeaseChanges
<1>3. CASE ~ \E p \in Proc : Step(p)
  <2>1. UNCHANGED <<pc, after, lease, mine>> /\ alive' \subseteq alive
    BY <1>3 DEF Next, Kill, Tick, Sleep, vars
  <2>2. now' \in Nat /\ slept' \in Nat /\ slept <= slept' /\ slept' - slept <= now' - now
    BY <1>1, <1>3 DEF Next, Kill, Tick, Sleep, vars
  <2>3. Live(mine[q], now', slept')
    BY <1>1, <2>1, <2>2, DeathIsFinal DEF InForce, Live, Liveness, Suspended
  <2>4. Live(mine[q], now, slept)
    BY <1>1, <2>2, <2>3, LapseIsFinal
  <2>5. QED BY <2>1, <2>4 DEF InForce, Holds, HolderKeepsLease
<1>4. QED BY <1>2, <1>3

(* The invariant holds in every reachable state.                           *)
THEOREM Invariance == Spec => []IInv
<1>1. Init => IInv
  <2> SUFFICES ASSUME Init PROVE IInv OBVIOUS
  <2>1. TypeOK BY DEF Init, TypeOK, Label, Lease
  <2>2. ClockInv /\ OnlyGuardHolder /\ OneWriter /\ ReadIsCurrent /\ OwnRecord
    BY DEF Init, ClockInv, OnlyGuardHolder, Guarded, OneWriter, Writing, ReadIsCurrent, OwnRecord
  <2>3. HolderKeepsLease BY DEF Init, HolderKeepsLease, InForce, Holds
  <2>4. QED BY <2>1, <2>2, <2>3 DEF IInv
<1>2. IInv /\ [Next]_vars => IInv'
  BY TypeStep, ClockStep, GuardStep, WriterStep, CurrentStep, OwnStep, KeepStep DEF IInv
<1>3. QED BY <1>1, <1>2, PTL DEF Spec

(* HolderKeepsLease: no interleaving of reclaimers, renewals, releases,    *)
(* kills and suspensions takes a lease in force from the file.             *)
THEOREM HoldersKeep == Spec => []HolderKeepsLease
<1>1. IInv => HolderKeepsLease BY DEF IInv
<1>2. QED BY <1>1, Invariance, PTL

(* A lease in force is in force for one process (OneInForce): the file     *)
(* names only one.                                                         *)
LEMMA OneOwner == IInv => OneInForce
BY DEF IInv, OneInForce, HolderKeepsLease, OwnRecord

(* OneInForce: two processes never hold the lease in force together.       *)
THEOREM OneHolder == Spec => []OneInForce
BY OneOwner, Invariance, PTL

(* A lease comes into force for a process only while it is in force for    *)
(* nobody else.                                                            *)
LEMMA EntryStep ==
  ASSUME IInv, IInv', [Next]_vars, NEW p \in Proc, NEW q \in Proc, InForce(p), InForce(q)'
  PROVE  InForce(q)
<1> SUFFICES ASSUME ~InForce(q) PROVE FALSE
  OBVIOUS
<1> USE DEF IInv
<1>1. /\ now \in Nat /\ slept \in Nat /\ mine \in [Proc -> Lease] /\ mine' \in [Proc -> Lease]
      /\ alive \subseteq Proc
  BY DEF TypeOK
<1>2. lease = mine[p] /\ lease \in Lease /\ lease.owner = p /\ p # q
  BY <1>1 DEF HolderKeepsLease, OwnRecord
<1>3. lease' = mine'[q] /\ lease' \in Lease /\ lease'.owner = q
  BY <1>1 DEF HolderKeepsLease, OwnRecord
<1>4. lease' # lease BY <1>2, <1>3
<1>5. PICK r \in Proc : Step(r)
  BY <1>4 DEF Next, Kill, Tick, Sleep, vars
<1>6. CASE pc[r] = "rwrite" /\ lease' = mine'[r]
  <2>1. lease.owner = r /\ lease'.owner = r
    BY <1>5, <1>6, OthersUntouched DEF ReadIsCurrent, OwnRecord
  <2>2. QED BY <1>2, <1>3, <2>1
<1>7. CASE Writing(r) BY <1>2, <1>7 DEF OneWriter
<1>8. QED BY <1>2, <1>3, <1>4, <1>5, <1>6, <1>7, LeaseChanges

(* ImplementsExclusion: a lease file implements mutual exclusion; every    *)
(* step is an entry to an empty section, an exit, or a stutter.            *)
THEOREM Refinement == Spec => ImplementsExclusion
<1> DEFINE inside == {p \in Proc : InForce(p)}
<1>1. Init => Promised!Init
  BY DEF Init, Promised!Init, InForce, Holds
<1>2. ASSUME IInv, IInv', [Next]_vars PROVE [Promised!Next]_inside
  <2>1. \A p, q \in inside : p = q
    BY <1>2, OneOwner DEF OneInForce
  <2>2. \A p, q \in inside' : p = q
    <3>1. OneInForce' BY <1>2, OneOwner, PTL
    <3>2. QED BY <3>1 DEF OneInForce
  <2>3. \A p \in inside, q \in inside' : p = q
    BY <1>2, <2>1, EntryStep
  <2>4. inside \subseteq Proc /\ inside' \subseteq Proc
    OBVIOUS
  <2> HIDE DEF inside
  <2>5. CASE inside' = {}
    <3>1. CASE inside = {} BY <2>5, <3>1
    <3>2. CASE inside # {}
      <4>1. PICK p \in Proc : p \in inside BY <2>4, <3>2
      <4>2. inside' = inside \ {p} BY <2>1, <2>5, <4>1
      <4>3. QED BY <4>1, <4>2 DEF inside, Promised!Next, Promised!Leave
    <3>3. QED BY <3>1, <3>2
  <2>6. CASE inside' # {}
    <3>1. PICK q \in Proc : q \in inside' BY <2>4, <2>6
    <3>2. inside' = {q} BY <2>2, <3>1
    <3>3. CASE inside = {} BY <3>2, <3>3 DEF inside, Promised!Next, Promised!Take
    <3>4. CASE inside # {}
      <4>1. inside = {q} BY <2>3, <3>1, <3>4
      <4>2. QED BY <3>2, <4>1
    <3>5. QED BY <3>3, <3>4
  <2>7. QED BY <2>5, <2>6
<1>3. QED
  BY <1>1, <1>2, Invariance, PTL DEF Spec, ImplementsExclusion, Promised!Spec
--------------------------------------------------------------------------------
(* The sweep of the roster (Sweep), which works under such a lease: for    *)
(* any sweepers, repositories, revisions and faults, when no holder loses  *)
(* its lease while it commits and no answer crosses a sweep.  The          *)
(* argument: who commits has the lease (Locked), so that what a sweep has  *)
(* read of the queue and the state is still so when it writes (Attentive), *)
(* what it has in hand is not recorded yet (Recording), and what it has    *)
(* acquired is no older than its generation (Timed), nor than what a       *)
(* repair has invalidated for or is about to (Repairs, Carries, Recent).   *)
HIDE SentinelAssumption
HIDE LeaseAssumption
CONSTANTS Sweeper, Repo, None, Kinds, Desk, Crosses, Closers, Window, MaxAge, MaxClock, MaxRev,
          MaxFaults
VARIABLES clock, forge, held, queue, snapshot, state, requests, facts, merges, place, job,
          work, desk, decided, shade, invalidated, faults
Sw == INSTANCE Sweep WITH lease <- held, pc <- place

Labels == {"idle", "wait", "decide", "clear", "read", "acquire", "confirm", "emit", "fact",
           "merge", "queue", "snapshot", "state"}
Rev == 1 .. MaxRev
Time == 0 .. MaxClock
Items == [rev : Rev, merged : BOOLEAN, shadowed : BOOLEAN]
Generated == {None} \cup [id : Time, completed : Time]
Known == {None} \cup [rev : Rev, open : BOOLEAN, paused : BOOLEAN]
Mirrored == {None} \cup [rev : Rev, at : Time]
Got == {None} \cup [rev : Rev, merged : BOOLEAN, shadowed : BOOLEAN, at : Time]
States == [gen : Generated, repos : [Repo -> Known]]
Snapshots == [gen : Generated, repos : [Repo -> Mirrored]]
JobOf == [kind : Sw!JobKinds, repos : SUBSET Repo, started : Time, made : 0 .. MaxRev]
Draft == [rows : [Repo -> Sw!Rows], old : States, left : SUBSET Repo, got : [Repo -> Got]]
Plan == [rows : [Repo -> Sw!Rows], state : States, mirror : Snapshots, asks : SUBSET Repo,
         known : SUBSET Repo, fact : Repo \cup {None}, merged : SUBSET Repo]
Planning == {"confirm", "emit", "fact", "merge", "queue"}

(* What each sweeper has at hand, where it is.                             *)
WorkTyped ==
    \A p \in Sweeper :
        /\ place[p] # "idle" => job[p] \in JobOf
        /\ place[p] = "acquire" => work[p] \in Draft
        /\ place[p] \in Planning => work[p] \in Plan
        /\ place[p] = "fact" => work[p].fact \in Repo
        /\ place[p] = "snapshot" => work[p] \in [state : States, mirror : Snapshots]
        /\ place[p] = "state" => work[p] \in [state : States]
Typed ==
    /\ clock \in Time /\ forge \in [Repo -> Items] /\ held \in Sweeper \cup {None}
    /\ queue \in [Repo -> Sw!Rows] /\ snapshot \in Snapshots /\ state \in States
    /\ requests \in [Repo -> Nat] /\ facts \in [Repo -> Nat] /\ merges \in [Repo -> Nat]
    /\ place \in [Sweeper -> Labels] /\ DOMAIN job = Sweeper /\ DOMAIN work = Sweeper
    /\ \A p \in Sweeper : place[p] = "idle" => job[p] = None
    /\ desk \in {None} \cup [rows : [Repo -> Sw!Rows], item : Repo, verb : DOMAIN Sw!Verbs]
    /\ decided \in [Repo -> {"none"} \cup DOMAIN Sw!Verbs]
    /\ shade \in [Repo -> 0 .. MaxRev] /\ invalidated \in [Repo -> 0 .. MaxRev]
    /\ WorkTyped
--------------------------------------------------------------------------------
(* Who commits has the lease.  While a sweep reads or is about to write    *)
(* the queue no answer is under way, and one that is has read the queue as *)
(* it is.                                                                  *)
Locked ==
    /\ \A p \in Sweeper : place[p] \in Sw!Committing => held = p
    /\ \A p \in Sweeper : place[p] \in Sw!Reading => desk = None
    /\ desk # None => desk.rows = queue /\ queue[desk.item] # "none"

(* Shadowed at the revision that is known, or a later one.                 *)
Covered(r, rev) == forge[r].merged \/ forge[r].shadowed \/ rev <= shade[r]

(* What is known of each item fits the rows: one that is closed is merged, *)
(* and one that is open has its row, or was rejected, merged or shadowed.  *)
Fits(known, rows) ==
    \A r \in Repo : known[r] # None =>
        /\ known[r].rev <= forge[r].rev /\ (~known[r].open => forge[r].merged)
        /\ known[r].open /\ rows[r] = "none" => decided[r] = "reject" \/ Covered(r, known[r].rev)

(* The row of an item that is open stays, but for one that is not approved *)
(* and has been shadowed.                                                  *)
Kept(r, row) ==
    \/ row = queue[r] \/ forge[r].merged
    \/ queue[r] # "approved" /\ (forge[r].shadowed \/ shade[r] # 0)

(* A sweep that holds the lease works on the files as they are, and what   *)
(* it has planned fits them before and after it writes.                    *)
DraftedBy(p) ==
    place[p] = "acquire" =>
        /\ work[p].left \subseteq job[p].repos
        /\ \A r \in Repo : work[p].got[r] # None =>
              /\ r \in job[p].repos /\ (work[p].got[r].merged => forge[r].merged)
              /\ work[p].got[r].rev <= forge[r].rev
              /\ work[p].got[r].shadowed => Covered(r, work[p].got[r].rev)
        /\ held = p =>
              /\ work[p].rows = queue /\ work[p].old.repos = state.repos
              /\ \A r \in Repo : work[p].got[r] # None /\ state.repos[r] # None =>
                    state.repos[r].rev <= work[p].got[r].rev
PlannedBy(p) ==
    place[p] \in Planning /\ held = p =>
        /\ Fits(state.repos, work[p].rows) /\ Fits(work[p].state.repos, work[p].rows)
        /\ \A r \in Repo : queue[r] # "none" => Kept(r, work[p].rows[r])
WrittenBy(p) == place[p] \in {"snapshot", "state"} => Fits(work[p].state.repos, queue)
Drafted == \A p \in Sweeper : DraftedBy(p)
Planned == \A p \in Sweeper : PlannedBy(p)
Written == \A p \in Sweeper : WrittenBy(p)
Attentive ==
    Fits(state.repos, queue) /\ Sw!AnswerStays /\ Drafted /\ Planned /\ Written

(* What a row needs before it is shown.                                    *)
Shown(r) == requests[r] = 1 /\ facts[r] = 1

(* A sweep that holds the lease has in hand what is not recorded yet.      *)
Records(p) ==
    /\ \A r \in Repo : work[p].rows[r] # "none" =>
          Shown(r) \/ r \in work[p].asks \/ (place[p] = "fact" /\ r = work[p].fact)
    /\ \A r \in work[p].merged : merges[r] = 0
    /\ place[p] \in {"emit", "fact"} =>
          /\ \A r \in work[p].known : facts[r] = 1
          /\ \A r \in work[p].asks \ work[p].known : facts[r] = 0
    /\ place[p] = "fact" =>
          LET r == work[p].fact IN requests[r] = 1 /\ facts[r] = 0 /\ r \notin work[p].asks
    /\ place[p] \in {"merge", "queue"} => work[p].asks = {}
Recording ==
    /\ Sw!RecordedOnce
    /\ \A p \in Sweeper : place[p] \in Planning /\ held = p => Records(p)

(* A generation is no younger than what it has, and not of the future.     *)
Dated(gen, known) ==
    \A r \in Repo : known[r] # None => gen # None /\ gen.completed <= known[r].at
TimedBy(p) ==
    /\ place[p] # "idle" => job[p].started <= clock
    /\ place[p] = "acquire" =>
          /\ work[p].old.gen # None => work[p].old.gen.completed <= clock
          /\ \A r \in Repo : work[p].got[r] # None =>
                /\ job[p].started <= work[p].got[r].at
                /\ work[p].old.gen # None => work[p].old.gen.completed <= work[p].got[r].at
    /\ place[p] \in Planning \cup {"snapshot"} => Dated(work[p].mirror.gen, work[p].mirror.repos)
    /\ place[p] \in Planning \cup {"snapshot", "state"} /\ work[p].state.gen # None =>
          work[p].state.gen.completed <= clock
Timed ==
    /\ state.gen # None => state.gen.completed <= clock
    /\ Dated(snapshot.gen, snapshot.repos)
    /\ \A p \in Sweeper : TimedBy(p)

(* A revision that a sweep has is no older than those that repairs made    *)
(* and have invalidated for, or are about to, without the lease.           *)
Behind(p, rev, r) ==
    /\ invalidated[r] <= rev
    /\ \A q \in Sweeper \ {p} : place[q] = "clear" /\ r \in job[q].repos => job[q].made <= rev
RepairsBy(p) ==
    /\ place[p] = "clear" => job[p].kind = "repair"
    /\ place[p] # "idle" /\ job[p].kind = "repair" =>
          \A r \in job[p].repos : job[p].made <= forge[r].rev
    /\ place[p] \in {"wait", "decide", "read", "acquire"} => job[p].repos # {} \/ Repo = {}
Repairs ==
    /\ \A r \in Repo : invalidated[r] <= forge[r].rev
    /\ \A p \in Sweeper : RepairsBy(p)
Carries ==
    \A p \in Sweeper : place[p] = "acquire" /\ held = p =>
        Sw!Carried(p) = {} \/ work[p].old.gen = state.gen
RecentBy(p) ==
    held = p => \A r \in Repo :
        /\ place[p] = "acquire" /\ work[p].got[r] # None => Behind(p, work[p].got[r].rev, r)
        /\ place[p] \in Planning \cup {"snapshot"} /\ work[p].mirror.repos[r] # None =>
              Behind(p, work[p].mirror.repos[r].rev, r)
        /\ place[p] = "state" /\ snapshot.repos[r] # None => Behind(p, snapshot.repos[r].rev, r)
Recent ==
    /\ Sw!Matched => \A r \in Repo : snapshot.repos[r] # None
           => invalidated[r] <= snapshot.repos[r].rev
    /\ \A p \in Sweeper : RecentBy(p)
--------------------------------------------------------------------------------
(* What a sweeper does.                                                    *)
Acts(p) == Sw!Step(p) \/ \E j \in Sw!Jobs : Sw!Begin(p, j[1], j[2])

(* A sweeper leaves, and nothing else of it changes.                       *)
LEMMA LeavingTyped ==
  ASSUME Sw!Constants, Typed, NEW p \in Sweeper, Sw!Leave(p)
  PROVE  /\ held' \in Sweeper \cup {None} /\ place' \in [Sweeper -> Labels]
         /\ DOMAIN job' = Sweeper /\ DOMAIN work' = Sweeper /\ WorkTyped'
         /\ \A q \in Sweeper : place'[q] = "idle" => job'[q] = None
<1>1. place' = [place EXCEPT ![p] = "idle"] /\ job' = [job EXCEPT ![p] = None]
      /\ work' = [work EXCEPT ![p] = None]
  BY DEF Sw!Leave, Sw!Goto
<1>2. \A q \in Sweeper : q # p => place'[q] = place[q] /\ job'[q] = job[q] /\ work'[q] = work[q]
  BY <1>1 DEF Typed
<1>3. place'[p] = "idle" /\ job'[p] = None BY <1>1 DEF Typed
<1>4. WorkTyped'
  BY <1>2, <1>3, Zenon DEF Typed, WorkTyped, Planning
<1>5. held' \in Sweeper \cup {None} BY DEF Sw!Leave, Typed
<1>6. QED BY <1>1, <1>2, <1>3, <1>4, <1>5 DEF Typed, Labels

(* A sweeper goes on, with new work.                                       *)
LEMMA GoingTyped ==
  ASSUME Typed, NEW p \in Sweeper, NEW l \in Labels \ {"idle"}, place' = [place EXCEPT ![p] = l],
         DOMAIN job' = Sweeper, DOMAIN work' = Sweeper,
         \A q \in Sweeper \ {p} : job'[q] = job[q] /\ work'[q] = work[q],
         job'[p] \in JobOf,
         l = "acquire" => work'[p] \in Draft,
         l \in Planning => work'[p] \in Plan,
         l = "fact" => work'[p].fact \in Repo,
         l = "snapshot" => work'[p] \in [state : States, mirror : Snapshots],
         l = "state" => work'[p] \in [state : States]
  PROVE  /\ place' \in [Sweeper -> Labels] /\ WorkTyped'
         /\ \A q \in Sweeper : place'[q] = "idle" => job'[q] = None
<1>1. place'[p] = l /\ \A q \in Sweeper \ {p} : place'[q] = place[q] BY DEF Typed
<1>2. ASSUME NEW q \in Sweeper
      PROVE  /\ place'[q] # "idle" => job'[q] \in JobOf
             /\ place'[q] = "acquire" => work'[q] \in Draft
             /\ place'[q] \in Planning => work'[q] \in Plan
             /\ place'[q] = "fact" => work'[q].fact \in Repo
             /\ place'[q] = "snapshot" => work'[q] \in [state : States, mirror : Snapshots]
             /\ place'[q] = "state" => work'[q] \in [state : States]
  <2>1. CASE q = p BY <1>1, <2>1
  <2>2. CASE q # p BY <1>1, <2>2 DEF Typed, WorkTyped
  <2>3. QED BY <2>1, <2>2
<1>3. WorkTyped' BY <1>2 DEF WorkTyped
<1>4. \A q \in Sweeper : place'[q] = "idle" => job'[q] = None BY <1>1 DEF Typed
<1>5. QED BY <1>1, <1>3, <1>4 DEF Typed

(* What a sweep makes of what it has read has the types of the files.      *)
LEMMA AnalyzeTyped ==
  ASSUME Sw!Constants, Typed, NEW p \in Sweeper, place[p] = "acquire", Sw!CanCarry(p)
  PROVE  LET old == work[p].old
             got == work[p].got
             gen == Sw!GenerationOf(p)
         IN  /\ [r \in Repo |-> Sw!Reconciled(p, r)] \in [Repo -> Sw!Rows]
             /\ [gen |-> gen, repos |-> [r \in Repo |->
                    IF got[r] # None THEN Sw!Entry(got[r]) ELSE old.repos[r]]] \in States
             /\ [gen |-> gen, repos |-> [r \in Repo |->
                    IF r \in Sw!Carried(p) THEN snapshot.repos[r]
                    ELSE IF got[r] # None THEN [rev |-> got[r].rev, at |-> got[r].at]
                    ELSE None]] \in Snapshots
<1> DEFINE old == work[p].old
           got == work[p].got
<1>1. work[p] \in Draft /\ job[p] \in JobOf BY DEF Typed, WorkTyped
<1>2. /\ work[p].rows \in [Repo -> Sw!Rows] /\ old \in States /\ got \in [Repo -> Got]
      /\ job[p].started \in Time
  BY <1>1 DEF Draft, JobOf
<1>3. \A r \in Repo : Sw!Reconciled(p, r) \in Sw!Rows
  BY <1>2 DEF Sw!Reconciled, Typed, Sw!Rows
<1>4. Sw!GenerationOf(p) \in Generated
  <2>1. CASE Sw!Carried(p) = {} BY <1>2, <2>1 DEF Sw!GenerationOf, Sw!Gen, Generated
  <2>2. CASE Sw!Carried(p) # {}
    <3>1. old.gen \in [id : Time, completed : Time]
      BY <1>2, <2>2 DEF Sw!CanCarry, States, Generated
    <3>2. QED BY <1>2, <2>2, <3>1 DEF Sw!GenerationOf, Sw!Gen, Generated
  <2>3. QED BY <2>1, <2>2
<1>5. \A r \in Repo : got[r] # None =>
         /\ Sw!Entry(got[r]) \in Known /\ [rev |-> got[r].rev, at |-> got[r].at] \in Mirrored
  BY <1>2 DEF Got, Sw!Entry, Known, Mirrored
<1>6. \A r \in Repo : old.repos[r] \in Known /\ snapshot.repos[r] \in Mirrored
  BY <1>2 DEF Typed, States, Snapshots
<1>7. None \in Mirrored BY DEF Mirrored
<1>8. [r \in Repo |-> IF got[r] # None THEN Sw!Entry(got[r]) ELSE old.repos[r]] \in [Repo -> Known]
  BY <1>5, <1>6
<1>9. [r \in Repo |-> IF r \in Sw!Carried(p) THEN snapshot.repos[r]
                      ELSE IF got[r] # None THEN [rev |-> got[r].rev, at |-> got[r].at]
                      ELSE None] \in [Repo -> Mirrored]
  BY <1>5, <1>6, <1>7
<1>10. QED BY <1>3, <1>4, <1>8, <1>9 DEF States, Snapshots

(* Every variable keeps its type, in every step.                           *)
LEMMA TypedStep ==
  ASSUME Sw!Constants, Typed, [Sw!Next]_(Sw!sweepVars)
  PROVE  Typed'
<1> USE DEF Sw!Goto
<1>1. CASE Sw!Tick
  BY <1>1 DEF Sw!Tick, Typed, WorkTyped, Sw!fileVars, Sw!deskVars, Sw!Constants, Time
<1>2. ASSUME NEW r \in Repo, Sw!Edit(r) PROVE Typed'
  <2>1. forge' \in [Repo -> Items]
    <3>1. forge[r] \in Items BY DEF Typed
    <3>2. [forge[r] EXCEPT !.merged = TRUE, !.shadowed = FALSE] \in Items BY <3>1 DEF Items
    <3>3. forge[r].rev < MaxRev => [forge[r] EXCEPT !.rev = @ + 1] \in Items
      BY <3>1 DEF Items, Rev, Sw!Constants
    <3>4. QED BY <1>2, <3>1, <3>2, <3>3 DEF Sw!Edit, Typed
  <2>2. QED BY <1>2, <2>1 DEF Sw!Edit, Typed, WorkTyped, Sw!fileVars, Sw!deskVars
<1>3. ASSUME NEW p \in Sweeper, NEW j \in Sw!Jobs, Sw!Begin(p, j[1], j[2]) PROVE Typed'
  <2>1. j[1] \in Sw!JobKinds /\ j[2] \in SUBSET Repo BY DEF Sw!Jobs, Sw!JobKinds
  <2>2. forge' \in [Repo -> Items] /\ job' = [job EXCEPT ![p] = job'[p]] /\ job'[p] \in JobOf
    <3>1. CASE j[1] # "repair"
      <4>1. Sw!Job(j[1], j[2], clock, 0) \in JobOf
        BY <2>1 DEF Sw!Job, JobOf, Typed, Sw!Constants
      <4>2. QED BY <1>3, <3>1, <4>1 DEF Sw!Begin, Typed
    <3>2. CASE j[1] = "repair"
      <4>1. PICK r \in j[2] : /\ forge[r].rev < MaxRev
                              /\ forge' = [forge EXCEPT ![r].rev = @ + 1]
                              /\ job' = [job EXCEPT ![p] = Sw!Job(j[1], j[2], clock,
                                     forge[r].rev + 1)]
        BY <1>3, <3>2 DEF Sw!Begin
      <4>2. forge[r] \in Items BY <2>1 DEF Typed
      <4>3. [forge[r] EXCEPT !.rev = @ + 1] \in Items /\ forge[r].rev + 1 \in 0 .. MaxRev
        BY <4>1, <4>2 DEF Items, Rev, Sw!Constants
      <4>4. Sw!Job(j[1], j[2], clock, forge[r].rev + 1) \in JobOf
        BY <2>1, <4>3 DEF Sw!Job, JobOf, Typed
      <4>5. QED BY <2>1, <4>1, <4>3, <4>4 DEF Typed
    <3>3. QED BY <3>1, <3>2
  <2>3. place' = [place EXCEPT ![p] = "wait"] /\ UNCHANGED <<work, held>> BY <1>3 DEF Sw!Begin
  <2>4. /\ place' \in [Sweeper -> Labels] /\ WorkTyped'
        /\ \A q \in Sweeper : place'[q] = "idle" => job'[q] = None
    BY <2>2, <2>3, GoingTyped DEF Typed, Labels, Planning
  <2>5. QED BY <1>3, <2>2, <2>3, <2>4 DEF Sw!Begin, Typed, Sw!fileVars, Sw!deskVars
<1>4. ASSUME NEW p \in Sweeper, Sw!Acquire(p) PROVE Typed'
  <2>1. place[p] = "wait" /\ UNCHANGED <<job, work>> BY <1>4 DEF Sw!Acquire
  <2>2. PICK l \in {"decide", "clear", "read"} : place' = [place EXCEPT ![p] = l]
    BY <1>4 DEF Sw!Acquire
  <2>3. job[p] \in JobOf BY <2>1 DEF Typed, WorkTyped
  <2>4. /\ place' \in [Sweeper -> Labels] /\ WorkTyped'
        /\ \A q \in Sweeper : place'[q] = "idle" => job'[q] = None
    BY <2>1, <2>2, <2>3, GoingTyped DEF Typed, Labels, Planning
  <2>5. QED BY <1>4, <2>1, <2>4 DEF Sw!Acquire, Typed, Sw!fileVars, Sw!deskVars
<1>5. ASSUME NEW p \in Sweeper, Sw!GiveUp(p) \/ Sw!Reuse(p) PROVE Typed'
  BY <1>5, LeavingTyped DEF Sw!GiveUp, Sw!Reuse, Typed, Sw!fileVars, Sw!deskVars
<1>6. ASSUME NEW p \in Sweeper, Sw!SweepAnew(p) PROVE Typed'
  <2>1. job[p] \in JobOf /\ UNCHANGED work BY <1>6 DEF Sw!SweepAnew, Typed, WorkTyped
  <2>2. [job[p] EXCEPT !.kind = "full"] \in JobOf BY <2>1 DEF JobOf, Sw!JobKinds
  <2>3. /\ place' = [place EXCEPT ![p] = "read"] /\ DOMAIN job' = Sweeper /\ job'[p] \in JobOf
        /\ \A q \in Sweeper \ {p} : job'[q] = job[q]
    BY <1>6, <2>2 DEF Sw!SweepAnew, Typed
  <2>4. /\ place' \in [Sweeper -> Labels] /\ WorkTyped'
        /\ \A q \in Sweeper : place'[q] = "idle" => job'[q] = None
    BY <2>1, <2>3, GoingTyped DEF Typed, Labels, Planning
  <2>5. QED BY <1>6, <2>3, <2>4 DEF Sw!SweepAnew, Typed, Sw!fileVars, Sw!deskVars
<1>7. ASSUME NEW p \in Sweeper, Sw!Clear(p) PROVE Typed'
  <2>1. job[p] \in JobOf BY <1>7 DEF Sw!Clear, Typed, WorkTyped
  <2>2. invalidated' \in [Repo -> 0 .. MaxRev] BY <1>7, <2>1 DEF Sw!Clear, JobOf, Typed
  <2>3. state' \in States BY <1>7 DEF Sw!Clear, Typed, States, Generated
  <2>4. QED BY <1>7, <2>2, <2>3, LeavingTyped DEF Sw!Clear, Typed, Sw!fileVars, Sw!deskVars
<1>8. ASSUME NEW p \in Sweeper, Sw!Stop(p) PROVE Typed'
  <2>1. CASE Sw!Leave(p) BY <1>8, <2>1, LeavingTyped DEF Sw!Stop, Typed, Sw!fileVars, Sw!deskVars
  <2>2. CASE Sw!Goto(p, "idle") /\ job' = [job EXCEPT ![p] = None]
             /\ work' = [work EXCEPT ![p] = None] /\ UNCHANGED held
    <3>1. \A q \in Sweeper : q # p => place'[q] = place[q] /\ job'[q] = job[q] /\ work'[q] = work[q]
      BY <2>2 DEF Typed
    <3>2. place'[p] = "idle" /\ job'[p] = None BY <2>2 DEF Typed
    <3>3. WorkTyped' BY <3>1, <3>2, Zenon DEF Typed, WorkTyped, Planning
    <3>4. \A q \in Sweeper : place'[q] = "idle" => job'[q] = None BY <3>1, <3>2 DEF Typed
    <3>5. QED BY <1>8, <2>2, <3>3, <3>4 DEF Sw!Stop, Typed, Sw!fileVars, Sw!deskVars, Labels
  <2>3. QED BY <1>8, <2>1, <2>2 DEF Sw!Stop
<1>9. ASSUME NEW p \in Sweeper, Sw!Read(p) PROVE Typed'
  <2>1. CASE Sw!Leave(p) BY <1>9, <2>1, LeavingTyped DEF Sw!Read, Typed, Sw!fileVars, Sw!deskVars
  <2>2. CASE ~Sw!Leave(p)
    <3>1. /\ work' = [work EXCEPT ![p] = [rows |-> queue, old |-> state, left |-> job[p].repos,
                                          got |-> [r \in Repo |-> None]]]
          /\ place' = [place EXCEPT ![p] = "acquire"] /\ UNCHANGED <<job, held>>
                 /\ place[p] = "read"
      BY <1>9, <2>2 DEF Sw!Read
    <3>2. job[p] \in JobOf BY <3>1 DEF Typed, WorkTyped
    <3>3. work'[p] \in Draft
      BY <3>1, <3>2 DEF Draft, Typed, JobOf, Got
    <3>4. /\ place' \in [Sweeper -> Labels] /\ WorkTyped'
          /\ \A q \in Sweeper : place'[q] = "idle" => job'[q] = None
      BY <3>1, <3>2, <3>3, GoingTyped DEF Typed, Labels, Planning
    <3>5. QED BY <1>9, <3>1, <3>4 DEF Sw!Read, Typed, Sw!fileVars, Sw!deskVars
  <2>3. QED BY <2>1, <2>2
<1>10. ASSUME NEW p \in Sweeper, NEW r \in Repo, Sw!AcquireRepo(p, r) PROVE Typed'
  <2>1. work[p] \in Draft /\ place[p] = "acquire" /\ UNCHANGED <<place, job>>
    BY <1>10 DEF Sw!AcquireRepo, Typed, WorkTyped
  <2>2. [rev |-> forge[r].rev, merged |-> forge[r].merged, shadowed |-> forge[r].shadowed,
         at |-> clock] \in Got
    BY DEF Typed, Items, Got
  <2>3. work'[p] \in Draft /\ DOMAIN work' = Sweeper
        /\ \A q \in Sweeper \ {p} : work'[q] = work[q]
    BY <1>10, <2>1, <2>2 DEF Sw!AcquireRepo, Draft, Typed
  <2>4. WorkTyped'
    <3>1. ASSUME NEW q \in Sweeper, q # p
          PROVE  place'[q] = place[q] /\ job'[q] = job[q] /\ work'[q] = work[q]
      BY <2>1, <2>3, <3>1
    <3>2. QED BY <2>1, <2>3, <3>1 DEF Typed, WorkTyped, Planning
  <2>5. QED BY <1>10, <2>1, <2>3, <2>4 DEF Sw!AcquireRepo, Typed, Sw!fileVars, Sw!deskVars
<1>11. ASSUME NEW p \in Sweeper, Sw!Analyze(p) PROVE Typed'
  <2>1. CASE Sw!Leave(p) BY <1>11, <2>1, LeavingTyped DEF Sw!Analyze, Typed, Sw!fileVars,
                                                          Sw!deskVars
  <2>2. CASE ~Sw!Leave(p)
    <3>1. /\ place[p] = "acquire" /\ Sw!CanCarry(p) /\ UNCHANGED held
          /\ place' = [place EXCEPT ![p] = "confirm"]
          /\ job' = [job EXCEPT ![p] = Sw!Job("sweep", {}, 0, 0)]
          /\ work' = [work EXCEPT ![p] = work'[p]]
      BY <1>11, <2>2 DEF Sw!Analyze, Typed
    <3>2. work'[p] \in Plan
      <4> DEFINE old == work[p].old
                 got == work[p].got
                 rows == [r \in Repo |-> Sw!Reconciled(p, r)]
                 gen == Sw!GenerationOf(p)
                 known == [gen |-> gen, repos |-> [r \in Repo |->
                              IF got[r] # None THEN Sw!Entry(got[r]) ELSE old.repos[r]]]
                 copy == [gen |-> gen, repos |-> [r \in Repo |->
                             IF r \in Sw!Carried(p) THEN snapshot.repos[r]
                             ELSE IF got[r] # None THEN [rev |-> got[r].rev, at |-> got[r].at]
                             ELSE None]]
                 merged == {r \in {q \in Repo : got[q] # None} : got[r].merged /\ merges[r] = 0}
      <4>1. work'[p] = [rows |-> rows, state |-> known, mirror |-> copy,
                        asks |-> {r \in Repo : rows[r] = "pending"}, known |-> {},
                        fact |-> None, merged |-> merged]
        BY <1>11, <2>2 DEF Sw!Analyze, Typed
      <4>2. rows \in [Repo -> Sw!Rows] /\ known \in States /\ copy \in Snapshots
        BY <3>1, AnalyzeTyped
      <4>3. {r \in Repo : rows[r] = "pending"} \in SUBSET Repo /\ merged \in SUBSET Repo
        OBVIOUS
      <4> HIDE DEF rows, known, copy, merged
      <4>4. QED BY <4>1, <4>2, <4>3 DEF Plan
    <3>3. Sw!Job("sweep", {}, 0, 0) \in JobOf
      BY DEF Sw!Job, JobOf, Sw!JobKinds, Time, Sw!Constants
    <3>4. /\ place' \in [Sweeper -> Labels] /\ WorkTyped'
          /\ \A q \in Sweeper : place'[q] = "idle" => job'[q] = None
      BY <3>1, <3>2, <3>3, GoingTyped DEF Typed, Labels, Planning
    <3>5. QED BY <1>11, <3>1, <3>4 DEF Sw!Analyze, Typed, Sw!fileVars, Sw!deskVars
  <2>3. QED BY <2>1, <2>2
<1>12. ASSUME NEW p \in Sweeper, Sw!Commit(p) PROVE Typed'
  <2>1. ASSUME Sw!Confirm(p) PROVE Typed'
    <3>1. CASE held = p
      <4>1. work[p] \in Plan /\ job[p] \in JobOf /\ UNCHANGED <<job, held>>
        BY <2>1, <3>1 DEF Sw!Confirm, Typed, WorkTyped, Planning
      <4>2. PICK k \in SUBSET Repo : k = {r \in Repo : facts[r] > 0} OBVIOUS
      <4>3. work' = [work EXCEPT ![p].known = k] BY <2>1, <3>1, <4>2 DEF Sw!Confirm
      <4>4. \A w \in Plan, ks \in SUBSET Repo : [w EXCEPT !.known = ks] \in Plan BY DEF Plan
      <4>5. /\ place' = [place EXCEPT ![p] = "emit"] /\ work'[p] \in Plan /\ DOMAIN work' = Sweeper
            /\ \A q \in Sweeper \ {p} : work'[q] = work[q]
        BY <2>1, <3>1, <4>1, <4>3, <4>4 DEF Sw!Confirm, Typed
      <4>6. /\ place' \in [Sweeper -> Labels] /\ WorkTyped'
            /\ \A q \in Sweeper : place'[q] = "idle" => job'[q] = None
        BY <4>1, <4>5, GoingTyped DEF Typed, Labels
      <4>7. QED BY <2>1, <4>1, <4>5, <4>6 DEF Sw!Confirm, Typed, Sw!fileVars, Sw!deskVars
    <3>2. CASE Sw!Leave(p)
      BY <2>1, <3>2, LeavingTyped DEF Sw!Confirm, Typed, Sw!fileVars, Sw!deskVars
    <3>3. QED BY <2>1, <3>1, <3>2 DEF Sw!Confirm
  <2>2. ASSUME NEW r \in Repo, Sw!EmitEvent(p, r) PROVE Typed'
    <3>1. work[p] \in Plan /\ job[p] \in JobOf /\ UNCHANGED <<job, held>>
      BY <2>2 DEF Sw!EmitEvent, Typed, WorkTyped, Planning
    <3>2. \A w \in Plan : [w EXCEPT !.asks = @ \ {r}] \in Plan
                           /\ [w EXCEPT !.asks = @ \ {r}, !.fact = r] \in Plan
                           /\ [w EXCEPT !.asks = @ \ {r}, !.fact = r].fact = r
      BY DEF Plan
    <3>3. DOMAIN work' = Sweeper /\ \A q \in Sweeper \ {p} : work'[q] = work[q]
      BY <2>2 DEF Sw!EmitEvent, Typed
    <3>4. PICK l \in {"emit", "fact"} :
             /\ place' = [place EXCEPT ![p] = l] /\ work'[p] \in Plan
             /\ l = "fact" => work'[p].fact \in Repo
      <4>1. CASE r \in work[p].known
        <5>1. work'[p] = [work[p] EXCEPT !.asks = @ \ {r}] /\ place' = [place EXCEPT ![p] = "emit"]
          BY <2>2, <4>1 DEF Sw!EmitEvent, Typed
        <5>2. QED BY <3>1, <3>2, <5>1
      <4>2. CASE r \notin work[p].known
        <5>1. /\ work'[p] = [work[p] EXCEPT !.asks = @ \ {r}, !.fact = r]
              /\ place' = [place EXCEPT ![p] = "fact"]
          BY <2>2, <4>2 DEF Sw!EmitEvent, Typed
        <5>2. QED BY <3>1, <3>2, <5>1
      <4>3. QED BY <4>1, <4>2
    <3>5. /\ place' \in [Sweeper -> Labels] /\ WorkTyped'
          /\ \A q \in Sweeper : place'[q] = "idle" => job'[q] = None
      <4>1. CASE l = "emit" BY <3>1, <3>3, <3>4, <4>1, GoingTyped DEF Typed, Labels
      <4>2. CASE l = "fact" BY <3>1, <3>3, <3>4, <4>2, GoingTyped DEF Typed, Labels
      <4>3. QED BY <3>4, <4>1, <4>2
    <3>6. requests' \in [Repo -> Nat] BY <2>2 DEF Sw!EmitEvent, Typed
    <3>7. QED BY <2>2, <3>1, <3>3, <3>5, <3>6 DEF Sw!EmitEvent, Typed, Sw!deskVars
  <2>3. ASSUME Sw!AppendFact(p) PROVE Typed'
    <3>1. /\ work[p] \in Plan /\ job[p] \in JobOf /\ work[p].fact \in Repo
          /\ UNCHANGED <<job, held>>
      BY <2>3 DEF Sw!AppendFact, Typed, WorkTyped, Planning
    <3>2. \A w \in Plan : [w EXCEPT !.fact = None] \in Plan BY DEF Plan
    <3>3. /\ place' = [place EXCEPT ![p] = "emit"] /\ work'[p] \in Plan /\ DOMAIN work' = Sweeper
          /\ \A q \in Sweeper \ {p} : work'[q] = work[q]
      BY <2>3, <3>1, <3>2 DEF Sw!AppendFact, Typed
    <3>4. /\ place' \in [Sweeper -> Labels] /\ WorkTyped'
          /\ \A q \in Sweeper : place'[q] = "idle" => job'[q] = None
      BY <3>1, <3>3, GoingTyped DEF Typed, Labels
    <3>5. facts' \in [Repo -> Nat] BY <2>3, <3>1 DEF Sw!AppendFact, Typed
    <3>6. QED BY <2>3, <3>1, <3>3, <3>4, <3>5 DEF Sw!AppendFact, Typed, Sw!deskVars
  <2>4. ASSUME Sw!Emitted(p) PROVE Typed'
    <3>1. work[p] \in Plan /\ job[p] \in JobOf BY <2>4 DEF Sw!Emitted, Typed, WorkTyped, Planning
    <3>2. place' = [place EXCEPT ![p] = "merge"] /\ UNCHANGED <<job, work, held>>
      BY <2>4 DEF Sw!Emitted
    <3>3. /\ place' \in [Sweeper -> Labels] /\ WorkTyped'
          /\ \A q \in Sweeper : place'[q] = "idle" => job'[q] = None
      BY <3>1, <3>2, GoingTyped DEF Typed, Labels
    <3>4. QED BY <2>4, <3>2, <3>3 DEF Sw!Emitted, Typed, Sw!fileVars, Sw!deskVars
  <2>5. ASSUME Sw!AppendMerge(p) PROVE Typed'
    <3>1. work[p] \in Plan /\ job[p] \in JobOf /\ UNCHANGED <<job, held>>
      BY <2>5 DEF Sw!AppendMerge, Typed, WorkTyped, Planning
    <3>2. CASE work[p].merged = {}
      <4>1. place' = [place EXCEPT ![p] = "queue"] /\ UNCHANGED <<merges, work>>
        BY <2>5, <3>2 DEF Sw!AppendMerge
      <4>2. /\ place' \in [Sweeper -> Labels] /\ WorkTyped'
            /\ \A q \in Sweeper : place'[q] = "idle" => job'[q] = None
        BY <3>1, <4>1, GoingTyped DEF Typed, Labels
      <4>3. QED BY <2>5, <3>1, <4>1, <4>2 DEF Sw!AppendMerge, Typed, Sw!deskVars
    <3>3. CASE work[p].merged # {}
      <4>1. PICK r \in work[p].merged :
              /\ merges' = [merges EXCEPT ![r] = @ + 1] /\ UNCHANGED place
              /\ work' = [work EXCEPT ![p].merged = @ \ {r}]
        BY <2>5, <3>3 DEF Sw!AppendMerge
      <4>2. \A w \in Plan : [w EXCEPT !.merged = @ \ {r}] \in Plan BY DEF Plan
      <4>3. /\ work'[p] \in Plan /\ DOMAIN work' = Sweeper
            /\ \A q \in Sweeper \ {p} : work'[q] = work[q]
        BY <3>1, <4>1, <4>2 DEF Typed
      <4>4. place' = [place EXCEPT ![p] = "merge"] BY <2>5, <4>1 DEF Sw!AppendMerge, Typed
      <4>5. /\ place' \in [Sweeper -> Labels] /\ WorkTyped'
            /\ \A q \in Sweeper : place'[q] = "idle" => job'[q] = None
        BY <3>1, <4>3, <4>4, GoingTyped DEF Typed, Labels
      <4>6. merges' \in [Repo -> Nat] BY <3>1, <4>1 DEF Typed, Plan
      <4>7. QED BY <2>5, <3>1, <4>3, <4>5, <4>6 DEF Sw!AppendMerge, Typed, Sw!deskVars
    <3>4. QED BY <3>2, <3>3
  <2>6. ASSUME Sw!WriteQueue(p) PROVE Typed'
    <3>1. work[p] \in Plan /\ job[p] \in JobOf /\ UNCHANGED <<job, held>>
      BY <2>6 DEF Sw!WriteQueue, Typed, WorkTyped, Planning
    <3>2. /\ work[p].rows \in [Repo -> Sw!Rows]
          /\ work[p].state \in States /\ work[p].mirror \in Snapshots
      BY <3>1 DEF Plan
    <3>3. /\ place' = [place EXCEPT ![p] = "snapshot"] /\ DOMAIN work' = Sweeper
          /\ work'[p] \in [state : States, mirror : Snapshots]
          /\ \A q \in Sweeper \ {p} : work'[q] = work[q]
      BY <2>6, <3>2 DEF Sw!WriteQueue, Typed
    <3>4. /\ place' \in [Sweeper -> Labels] /\ WorkTyped'
          /\ \A q \in Sweeper : place'[q] = "idle" => job'[q] = None
      BY <3>1, <3>3, GoingTyped DEF Typed, Labels, Planning
    <3>5. QED BY <2>6, <3>1, <3>2, <3>3, <3>4 DEF Sw!WriteQueue, Typed, Sw!deskVars
  <2>7. ASSUME Sw!WriteSnapshot(p) PROVE Typed'
    <3>1. /\ work[p] \in [state : States, mirror : Snapshots] /\ job[p] \in JobOf
          /\ UNCHANGED <<job, held>>
      BY <2>7 DEF Sw!WriteSnapshot, Typed, WorkTyped
    <3>2. /\ place' = [place EXCEPT ![p] = "state"] /\ DOMAIN work' = Sweeper
          /\ work'[p] \in [state : States] /\ \A q \in Sweeper \ {p} : work'[q] = work[q]
      BY <2>7, <3>1 DEF Sw!WriteSnapshot, Typed
    <3>3. /\ place' \in [Sweeper -> Labels] /\ WorkTyped'
          /\ \A q \in Sweeper : place'[q] = "idle" => job'[q] = None
      BY <3>1, <3>2, GoingTyped DEF Typed, Labels, Planning
    <3>4. QED BY <2>7, <3>1, <3>2, <3>3 DEF Sw!WriteSnapshot, Typed, Sw!deskVars
  <2>8. ASSUME Sw!WriteState(p) PROVE Typed'
    <3>1. work[p] \in [state : States] BY <2>8 DEF Sw!WriteState, Typed, WorkTyped
    <3>2. state' \in States BY <2>8, <3>1 DEF Sw!WriteState
    <3>3. QED BY <2>8, <3>2, LeavingTyped DEF Sw!WriteState, Typed, Sw!deskVars
  <2>9. QED BY <1>12, <2>1, <2>2, <2>3, <2>4, <2>5, <2>6, <2>7, <2>8 DEF Sw!Commit
<1>13. ASSUME NEW r \in Repo, NEW verb \in DOMAIN Sw!Verbs, Sw!DeskRead(r, verb) PROVE Typed'
  BY <1>13 DEF Sw!DeskRead, Typed, WorkTyped, Sw!fileVars
<1>14. CASE Sw!DeskWrite
  <2>1. desk.rows \in [Repo -> Sw!Rows] /\ desk.item \in Repo /\ desk.verb \in DOMAIN Sw!Verbs
    BY <1>14 DEF Sw!DeskWrite, Typed
  <2>2. Sw!Verbs[desk.verb] \in Sw!Rows BY <2>1 DEF Sw!Verbs, Sw!Rows
  <2>3. /\ queue' \in [Repo -> Sw!Rows] /\ decided' \in [Repo -> {"none"} \cup DOMAIN Sw!Verbs]
        /\ shade' \in [Repo -> 0 .. MaxRev]
    BY <1>14, <2>1, <2>2 DEF Sw!DeskWrite, Typed, Sw!Constants
  <2>4. QED BY <1>14, <2>3 DEF Sw!DeskWrite, Typed, WorkTyped
<1>15. CASE UNCHANGED Sw!sweepVars
  BY <1>15 DEF Sw!sweepVars, Sw!fileVars, Sw!deskVars, Typed, WorkTyped
<1>16. ASSUME NEW r \in Repo, Sw!Shadow(r) PROVE Typed'
  <2>1. forge[r] \in Items BY DEF Typed
  <2>2. forge[r].rev \in 0 .. MaxRev BY <2>1 DEF Items, Rev
  <2>3. (~forge[r].shadowed) \in BOOLEAN OBVIOUS
  <2>4. [forge[r] EXCEPT !.shadowed = ~@] \in Items
    <3>1. PICK b \in BOOLEAN : b = ~forge[r].shadowed BY <2>3
    <3>2. [forge[r] EXCEPT !.shadowed = b] \in Items BY <2>1 DEF Items
    <3>3. QED BY <3>1, <3>2, Zenon
  <2>5. forge' \in [Repo -> Items] /\ shade' \in [Repo -> 0 .. MaxRev]
    BY <1>16, <2>2, <2>4 DEF Sw!Shadow, Typed
  <2>6. QED BY <1>16, <2>5 DEF Sw!Shadow, Typed, WorkTyped, Sw!fileVars
<1>17. QED
  BY <1>1, <1>2, <1>3, <1>4, <1>5, <1>6, <1>7, <1>8, <1>9, <1>10, <1>11, <1>12, <1>13, <1>14,
     <1>15, <1>16
     DEF Acts, Sw!Next, Sw!Step

(* What a sweep plans from what it has read.                               *)
RowsBy(p) == [r \in Repo |-> Sw!Reconciled(p, r)]
KnownBy(p) ==
    [r \in Repo |-> IF work[p].got[r] # None THEN Sw!Entry(work[p].got[r])
        ELSE work[p].old.repos[r]]
MirrorBy(p) ==
    [r \in Repo |-> IF r \in Sw!Carried(p) THEN snapshot.repos[r]
                    ELSE IF work[p].got[r] # None
                    THEN [rev |-> work[p].got[r].rev, at |-> work[p].got[r].at]
                    ELSE None]
MergedBy(p) ==
    {r \in {q \in Repo : work[p].got[q] # None} : work[p].got[r].merged /\ merges[r] = 0}

(* What is done with it when the sweep goes on.                            *)
LEMMA AnalyzePlans ==
  ASSUME Typed, NEW p \in Sweeper, Sw!Analyze(p), ~Sw!Leave(p)
  PROVE  /\ place[p] = "acquire" /\ place'[p] = "confirm" /\ Sw!CanCarry(p) /\ work[p] \in Draft
         /\ work'[p].rows = RowsBy(p) /\ work'[p].asks = {r \in Repo : RowsBy(p)[r] = "pending"}
         /\ work'[p].merged = MergedBy(p)
         /\ work'[p].state.gen = Sw!GenerationOf(p) /\ work'[p].state.repos = KnownBy(p)
         /\ work'[p].mirror.gen = Sw!GenerationOf(p) /\ work'[p].mirror.repos = MirrorBy(p)
         /\ UNCHANGED <<clock, forge, held, Sw!fileVars, Sw!deskVars, invalidated>>
<1>1. /\ place[p] = "acquire" /\ place'[p] = "confirm" /\ Sw!CanCarry(p)
      /\ UNCHANGED <<clock, forge, held, Sw!fileVars, Sw!deskVars, invalidated>>
  BY DEF Sw!Analyze, Sw!Goto, Typed
<1>2. work[p] \in Draft BY <1>1 DEF Typed, WorkTyped
<1>3. work'[p] = [rows |-> RowsBy(p), state |-> [gen |-> Sw!GenerationOf(p), repos |-> KnownBy(p)],
                  mirror |-> [gen |-> Sw!GenerationOf(p), repos |-> MirrorBy(p)],
                  asks |-> {r \in Repo : RowsBy(p)[r] = "pending"}, known |-> {},
                  fact |-> None, merged |-> MergedBy(p)]
  BY DEF Sw!Analyze, Typed, RowsBy, KnownBy, MirrorBy, MergedBy
<1>4. QED BY <1>1, <1>2, <1>3

(* A sweeper touches nobody else's place, job or work.                     *)
LEMMA OthersStay ==
  ASSUME Typed, NEW p \in Sweeper, Acts(p)
  PROVE  \A q \in Sweeper \ {p} : place'[q] = place[q] /\ job'[q] = job[q] /\ work'[q] = work[q]
<1> USE DEF Sw!Goto, Sw!Leave
<1>1. CASE \E j \in Sw!Jobs : Sw!Begin(p, j[1], j[2]) BY <1>1 DEF Sw!Begin, Typed
<1>2. CASE Sw!Acquire(p) \/ Sw!GiveUp(p) \/ Sw!Reuse(p) \/ Sw!SweepAnew(p) \/ Sw!Clear(p)
          \/ Sw!Stop(p) \/ Sw!Read(p)
  BY <1>2 DEF Sw!Acquire, Sw!GiveUp, Sw!Reuse, Sw!SweepAnew, Sw!Clear, Sw!Stop, Sw!Read, Typed
<1>3. CASE \E r \in Repo : Sw!AcquireRepo(p, r) BY <1>3 DEF Sw!AcquireRepo, Typed
<1>4. CASE Sw!Analyze(p)
  <2>1. (\E w : work' = [work EXCEPT ![p] = w]) /\ (\E j : job' = [job EXCEPT ![p] = j])
        /\ (\E l : place' = [place EXCEPT ![p] = l])
    BY <1>4 DEF Sw!Analyze
  <2>2. QED BY <2>1 DEF Typed
<1>5. CASE Sw!Commit(p)
  <2>1. CASE Sw!Confirm(p)
    <3>1. (\E w : work' = [work EXCEPT ![p] = w]) /\ (\E l : place' = [place EXCEPT ![p] = l])
          /\ (UNCHANGED job \/ \E j : job' = [job EXCEPT ![p] = j])
      BY <2>1 DEF Sw!Confirm
    <3>2. QED BY <3>1 DEF Typed
  <2>2. CASE ~Sw!Confirm(p)
    BY <1>5, <2>2 DEF Sw!Commit, Sw!EmitEvent, Sw!AppendFact, Sw!Emitted, Sw!AppendMerge,
                      Sw!WriteQueue, Sw!WriteSnapshot, Sw!WriteState, Typed
  <2>3. QED BY <2>1, <2>2
<1>6. QED BY <1>1, <1>2, <1>3, <1>4, <1>5 DEF Acts, Sw!Step

(* Only who acquires the lease is named by it anew, and a sweeper is then  *)
(* at none of its reads.                                                   *)
LEMMA LeaseMoves ==
  ASSUME Typed, NEW p \in Sweeper, Acts(p)
  PROVE  \/ Sw!Acquire(p) /\ held' = p /\ place'[p] \in {"decide", "clear", "read"}
         \/ place'[p] = "idle" /\ held' \in {held, None} /\ (held # p => held' = held)
         \/ UNCHANGED held
<1>1. CASE \E j \in Sw!Jobs : Sw!Begin(p, j[1], j[2]) BY <1>1 DEF Sw!Begin
<1>2. CASE Sw!Acquire(p) BY <1>2 DEF Sw!Acquire, Sw!Goto, Typed
<1>3. CASE Sw!GiveUp(p) \/ Sw!Reuse(p) \/ Sw!SweepAnew(p) \/ Sw!Clear(p) \/ Sw!Stop(p) \/ Sw!Read(p)
  BY <1>3 DEF Sw!GiveUp, Sw!Reuse, Sw!SweepAnew, Sw!Clear, Sw!Stop, Sw!Read, Sw!Leave, Sw!Goto,
              Typed
<1>4. CASE (\E r \in Repo : Sw!AcquireRepo(p, r)) \/ Sw!Analyze(p)
  BY <1>4 DEF Sw!AcquireRepo, Sw!Analyze, Sw!Leave, Sw!Goto, Typed
<1>5. CASE Sw!Commit(p)
  BY <1>5 DEF Sw!Commit, Sw!Confirm, Sw!EmitEvent, Sw!AppendFact, Sw!Emitted, Sw!AppendMerge,
              Sw!WriteQueue, Sw!WriteSnapshot, Sw!WriteState, Sw!Leave, Sw!Goto, Typed
<1>6. QED BY <1>1, <1>2, <1>3, <1>4, <1>5 DEF Acts, Sw!Step

(* Where a sweeper may go.                                                 *)
LEMMA PlaceMoves ==
  ASSUME Typed, NEW p \in Sweeper, Acts(p)
  PROVE  /\ place'[p] \in Sw!Committing => place[p] \in Sw!Committing \/ (Sw!Confirm(p) /\ held = p)
         /\ place'[p] \in Sw!Reading => place[p] \in Sw!Reading \/ (Sw!Read(p) /\ ~Sw!Leave(p))
         /\ UNCHANGED queue \/ (Sw!WriteQueue(p) /\ place[p] = "queue")
         /\ UNCHANGED <<desk, decided, shade>>
<1> USE DEF Sw!Goto, Sw!Reading, Sw!Committing
<1>1. CASE \E j \in Sw!Jobs : Sw!Begin(p, j[1], j[2])
  BY <1>1 DEF Sw!Begin, Typed, Sw!fileVars, Sw!deskVars
<1>2. CASE Sw!Acquire(p)
  <2>1. place'[p] \in {"decide", "clear", "read"} BY <1>2 DEF Sw!Acquire, Typed
  <2>2. QED BY <1>2, <2>1 DEF Sw!Acquire, Sw!fileVars, Sw!deskVars
<1>3. CASE Sw!GiveUp(p) \/ Sw!Reuse(p) \/ Sw!SweepAnew(p) \/ Sw!Clear(p) \/ Sw!Stop(p)
  BY <1>3 DEF Sw!GiveUp, Sw!Reuse, Sw!SweepAnew, Sw!Clear, Sw!Stop, Sw!Leave, Typed, Sw!fileVars,
              Sw!deskVars
<1>4. CASE Sw!Read(p)
  <2>1. Sw!Leave(p) => place'[p] = "idle" BY DEF Sw!Leave, Typed
  <2>2. QED BY <1>4, <2>1 DEF Sw!Read, Typed, Sw!fileVars, Sw!deskVars
<1>5. CASE (\E r \in Repo : Sw!AcquireRepo(p, r)) \/ Sw!Analyze(p)
  BY <1>5 DEF Sw!AcquireRepo, Sw!Analyze, Sw!Leave, Typed, Sw!fileVars, Sw!deskVars
<1>6. CASE Sw!Commit(p)
  <2>1. CASE Sw!Confirm(p)
    <3>1. Sw!Leave(p) => place'[p] = "idle" BY DEF Sw!Leave, Typed
    <3>2. QED BY <2>1, <3>1 DEF Sw!Confirm, Typed, Sw!fileVars, Sw!deskVars
  <2>2. CASE Sw!WriteQueue(p) BY <2>2 DEF Sw!WriteQueue, Typed, Sw!deskVars
  <2>3. CASE ~Sw!Confirm(p) /\ ~Sw!WriteQueue(p)
    BY <1>6, <2>3 DEF Sw!Commit, Sw!EmitEvent, Sw!AppendFact, Sw!Emitted, Sw!AppendMerge,
                      Sw!WriteSnapshot, Sw!WriteState, Sw!Leave, Typed, Sw!fileVars, Sw!deskVars
  <2>4. QED BY <2>1, <2>2, <2>3
<1>7. QED BY <1>1, <1>2, <1>3, <1>4, <1>5, <1>6 DEF Acts, Sw!Step

(* No step lets a sweeper commit without the lease, or an answer cross the *)
(* reads and the writes of a sweep.                                        *)
LEMMA LockedStep ==
  ASSUME Sw!Constants, Window = FALSE, Crosses = FALSE, Typed, Locked, [Sw!Next]_(Sw!sweepVars)
  PROVE  Locked'
<1>1. ASSUME NEW p \in Sweeper, Acts(p) PROVE Locked'
  <2>1. \A q \in Sweeper \ {p} : place'[q] = place[q] BY <1>1, OthersStay
  <2>2. \A q \in Sweeper : place'[q] \in Sw!Committing => held' = q
    <3>1. CASE Sw!Acquire(p) /\ held' = p /\ place'[p] \in {"decide", "clear", "read"}
      <4>1. \A q \in Sweeper : place[q] \notin Sw!Committing
        BY <3>1 DEF Sw!Acquire, Locked, Sw!Live, Sw!Committing
      <4>2. QED BY <2>1, <3>1, <4>1 DEF Sw!Committing
    <3>2. CASE place'[p] = "idle" /\ held' \in {held, None} /\ (held # p => held' = held)
      BY <2>1, <3>2 DEF Locked, Sw!Committing
    <3>3. CASE UNCHANGED held
      BY <1>1, <2>1, <3>3, PlaceMoves DEF Locked
    <3>4. QED BY <1>1, <3>1, <3>2, <3>3, LeaseMoves
  <2>3. UNCHANGED <<desk, decided>> BY <1>1, PlaceMoves
  <2>4. \A q \in Sweeper : place'[q] \in Sw!Reading => desk' = None
    <3>1. Sw!Read(p) /\ ~Sw!Leave(p) => desk = None BY DEF Sw!Read
    <3>2. QED BY <1>1, <2>1, <2>3, <3>1, PlaceMoves DEF Locked
  <2>5. desk' # None => desk'.rows = queue' /\ queue'[desk'.item] # "none"
    <3>1. Sw!WriteQueue(p) => desk = None BY DEF Sw!WriteQueue, Locked, Sw!Reading
    <3>2. QED BY <1>1, <2>3, <3>1, PlaceMoves DEF Locked
  <2>6. QED BY <2>2, <2>4, <2>5 DEF Locked
<1>2. ASSUME NEW r \in Repo, NEW verb \in DOMAIN Sw!Verbs, Sw!DeskRead(r, verb) PROVE Locked'
  BY <1>2 DEF Sw!DeskRead, Locked, Sw!fileVars
<1>3. CASE Sw!DeskWrite BY <1>3 DEF Sw!DeskWrite, Locked
<1>4. CASE Sw!Tick \/ (\E r \in Repo : Sw!Edit(r) \/ Sw!Shadow(r)) \/ UNCHANGED Sw!sweepVars
  BY <1>4 DEF Sw!Tick, Sw!Edit, Sw!Shadow, Sw!sweepVars, Sw!fileVars, Sw!deskVars, Locked
<1>5. QED BY <1>1, <1>2, <1>3, <1>4 DEF Acts, Sw!Next

(* Who does not commit writes no file, but for a repair that clears the    *)
(* generation.                                                             *)
LEMMA FilesStay ==
  ASSUME Typed, NEW p \in Sweeper, Acts(p),
         place[p] \notin Sw!Committing
  PROVE  /\ UNCHANGED <<queue, snapshot, requests, facts, merges>> /\ state'.repos = state.repos
         /\ UNCHANGED state \/ Sw!Clear(p)
<1>1. CASE \E j \in Sw!Jobs : Sw!Begin(p, j[1], j[2]) BY <1>1 DEF Sw!Begin, Sw!fileVars
<1>2. CASE Sw!Acquire(p) \/ Sw!GiveUp(p) \/ Sw!Reuse(p) \/ Sw!SweepAnew(p) \/ Sw!Stop(p)
          \/ Sw!Read(p)
           \/ (\E r \in Repo : Sw!AcquireRepo(p, r)) \/ Sw!Analyze(p)
  BY <1>2 DEF Sw!Acquire, Sw!GiveUp, Sw!Reuse, Sw!SweepAnew, Sw!Stop, Sw!Read, Sw!AcquireRepo,
              Sw!Analyze, Sw!fileVars
<1>3. CASE Sw!Clear(p)
  <2>1. state \in States BY DEF Typed
  <2>2. [state EXCEPT !.gen = None].repos = state.repos BY <2>1 DEF States
  <2>3. QED BY <1>3, <2>2 DEF Sw!Clear
<1>4. CASE Sw!Commit(p)
  BY <1>4 DEF Sw!Commit, Sw!Confirm, Sw!EmitEvent, Sw!AppendFact, Sw!Emitted, Sw!AppendMerge,
              Sw!WriteQueue, Sw!WriteSnapshot, Sw!WriteState, Sw!Committing, Sw!fileVars
<1>5. QED BY <1>1, <1>2, <1>3, <1>4 DEF Acts, Sw!Step

(* How an item goes on: what shadows it ends with a merge, or shades the   *)
(* revision it had.                                                        *)
Moves(r) ==
    /\ forge[r].merged => forge'[r].merged
    /\ forge[r].rev <= forge'[r].rev
    /\ forge[r].shadowed => \/ forge'[r].shadowed \/ forge'[r].merged
                            \/ shade'[r] = forge[r].rev

(* Time goes on, and items are edited, merged and shadowed.                *)
LEMMA WorldMoves ==
  ASSUME Sw!Constants, Typed, [Sw!Next]_(Sw!sweepVars)
  PROVE  clock <= clock' /\ \A r \in Repo : Moves(r)
<1>1. /\ clock \in Nat
      /\ \A r \in Repo : forge[r].rev \in Nat /\ DOMAIN forge[r] = {"rev", "merged", "shadowed"}
  BY DEF Typed, Items, Rev, Time, Sw!Constants
<1> USE DEF Moves
<1>2. CASE Sw!Tick BY <1>1, <1>2 DEF Sw!Tick
<1>3. ASSUME NEW q \in Repo, Sw!Edit(q) PROVE clock <= clock' /\ \A r \in Repo : Moves(r)
  BY <1>1, <1>3 DEF Sw!Edit, Typed
<1>4. ASSUME NEW p \in Sweeper, NEW j \in Sw!Jobs, Sw!Begin(p, j[1], j[2])
      PROVE  clock <= clock' /\ \A r \in Repo : Moves(r)
  <2>1. CASE UNCHANGED forge BY <1>1, <1>4, <2>1 DEF Sw!Begin
  <2>2. CASE \E r \in j[2] : forge' = [forge EXCEPT ![r].rev = @ + 1]
    BY <1>1, <1>4, <2>2 DEF Sw!Begin, Typed
  <2>3. QED BY <1>4, <2>1, <2>2 DEF Sw!Begin
<1>5. ASSUME NEW p \in Sweeper, Sw!Step(p) PROVE UNCHANGED <<clock, forge>>
  BY <1>5 DEF Acts, Sw!Step, Sw!Acquire, Sw!GiveUp, Sw!Reuse, Sw!SweepAnew, Sw!Clear, Sw!Stop,
              Sw!Read, Sw!AcquireRepo, Sw!Analyze, Sw!Commit, Sw!Confirm, Sw!EmitEvent,
                  Sw!AppendFact, Sw!Emitted, Sw!AppendMerge, Sw!WriteQueue, Sw!WriteSnapshot,
                      Sw!WriteState
<1>6. CASE Sw!DeskWrite \/ (\E r \in Repo, verb \in DOMAIN Sw!Verbs : Sw!DeskRead(r, verb))
           \/ UNCHANGED Sw!sweepVars
  BY <1>1, <1>6 DEF Sw!DeskWrite, Sw!DeskRead, Sw!sweepVars
<1>7. ASSUME NEW q \in Repo, Sw!Shadow(q) PROVE clock <= clock' /\ \A r \in Repo : Moves(r)
  BY <1>1, <1>7 DEF Sw!Shadow, Typed
<1>8. QED BY <1>1, <1>2, <1>3, <1>4, <1>5, <1>6, <1>7 DEF Acts, Sw!Next

(* A step that decides nothing: the shade stays, or falls on the revision  *)
(* that the item has.                                                      *)
Settles ==
    /\ UNCHANGED decided
    /\ \A r \in Repo : Moves(r) /\ shade'[r] \in {shade[r], forge[r].rev}

(* What is known, and does not change in this step, fits the rows then.    *)
StillFits(known, rows) ==
    \A r \in Repo : known[r] # None =>
        /\ known[r].rev <= forge'[r].rev /\ (~known[r].open => forge'[r].merged)
        /\ known[r].open /\ rows[r] = "none" =>
              \/ decided'[r] = "reject" \/ forge'[r].merged \/ forge'[r].shadowed
              \/ known[r].rev <= shade'[r]

(* What covers an item covers it after a step that decides nothing,        *)
LEMMA SettledCover ==
  ASSUME Sw!Constants, Typed, Typed', Settles, NEW r \in Repo
  PROVE  /\ \A rev \in Rev : rev <= forge[r].rev =>
                /\ rev <= forge'[r].rev
                /\ forge[r].merged \/ forge[r].shadowed \/ rev <= shade[r] =>
                      forge'[r].merged \/ forge'[r].shadowed \/ rev <= shade'[r]
         /\ forge[r].merged => forge'[r].merged
         /\ forge[r].shadowed \/ shade[r] # 0 =>
               forge'[r].merged \/ forge'[r].shadowed \/ shade'[r] # 0
<1>1. /\ forge[r] \in Items /\ forge'[r] \in Items /\ shade[r] \in 0 .. MaxRev
      /\ shade'[r] \in 0 .. MaxRev
  BY DEF Typed
<1>2. /\ forge[r].rev \in Nat /\ forge[r].rev # 0 /\ forge'[r].rev \in Nat
      /\ shade[r] \in Nat /\ shade'[r] \in Nat
  BY <1>1 DEF Items, Rev, Sw!Constants
<1>3. Moves(r) /\ shade'[r] \in {shade[r], forge[r].rev} BY DEF Settles
<1>4. \A rev \in Rev : rev \in Nat BY DEF Rev
<1>5. QED BY <1>2, <1>3, <1>4 DEF Moves

(* and what was known still fits.                                          *)
LEMMA SettledFits ==
  ASSUME Sw!Constants, Typed, Typed', Settles
  PROVE  \A known \in [Repo -> Known] : \A rows : Fits(known, rows) => StillFits(known, rows)
<1> SUFFICES ASSUME NEW known \in [Repo -> Known], NEW rows, Fits(known, rows), NEW r \in Repo,
                    known[r] # None
             PROVE  /\ known[r].rev <= forge'[r].rev /\ (~known[r].open => forge'[r].merged)
                    /\ known[r].open /\ rows[r] = "none" =>
                          \/ decided'[r] = "reject" \/ forge'[r].merged \/ forge'[r].shadowed
                          \/ known[r].rev <= shade'[r]
  BY DEF StillFits
<1>1. known[r].rev \in Rev BY DEF Known
<1>2. /\ known[r].rev <= forge[r].rev /\ (~known[r].open => forge[r].merged)
      /\ known[r].open /\ rows[r] = "none" =>
            \/ decided[r] = "reject" \/ forge[r].merged \/ forge[r].shadowed
            \/ known[r].rev <= shade[r]
  BY DEF Fits, Covered
<1>3. decided'[r] = decided[r] BY DEF Settles
<1>4. QED BY <1>1, <1>2, <1>3, SettledCover

(* Until it writes the queue, a sweep that commits keeps its plan.         *)
LEMMA PlanStays ==
  ASSUME Typed, NEW p \in Sweeper, Sw!Commit(p), place'[p] \in Planning
  PROVE  /\ place[p] \in Planning /\ held' = held /\ work[p] \in Plan
         /\ work'[p].rows = work[p].rows /\ work'[p].state = work[p].state
         /\ work'[p].mirror = work[p].mirror /\ UNCHANGED <<queue, snapshot, state>>
<1> USE DEF Sw!Goto
<1>1. CASE Sw!Confirm(p)
  <2>1. Sw!Leave(p) => place'[p] = "idle" BY DEF Sw!Leave, Typed
  <2>2. held = p /\ UNCHANGED <<held, queue, snapshot, state>> /\ place[p] = "confirm"
    BY <1>1, <2>1 DEF Sw!Confirm, Planning, Sw!fileVars
  <2>3. PICK k \in SUBSET Repo : k = {r \in Repo : facts[r] > 0} OBVIOUS
  <2>4. work' = [work EXCEPT ![p].known = k] BY <1>1, <2>2, <2>3 DEF Sw!Confirm
  <2>5. work[p] \in Plan BY <2>2 DEF Typed, WorkTyped, Planning
  <2>6. QED BY <2>2, <2>4, <2>5 DEF Plan, Typed, Planning
<1>2. CASE ~Sw!Confirm(p)
  <2>1. work[p] \in Plan /\ place[p] \in Planning
    BY <1>2 DEF Sw!Commit, Sw!EmitEvent, Sw!AppendFact, Sw!Emitted, Sw!AppendMerge, Sw!WriteQueue,
                Sw!WriteSnapshot, Sw!WriteState, Sw!Leave, Planning, Typed, WorkTyped
  <2>2. CASE \E r \in Repo : Sw!EmitEvent(p, r)
    BY <2>1, <2>2 DEF Sw!EmitEvent, Typed, Plan
  <2>3. CASE Sw!AppendFact(p) BY <2>1, <2>3 DEF Sw!AppendFact, Typed, Plan
  <2>4. CASE Sw!Emitted(p) BY <2>1, <2>4 DEF Sw!Emitted, Sw!fileVars
  <2>5. CASE Sw!AppendMerge(p) BY <2>1, <2>5 DEF Sw!AppendMerge, Typed, Plan
  <2>6. CASE Sw!WriteQueue(p) \/ Sw!WriteSnapshot(p) \/ Sw!WriteState(p)
    BY <2>6 DEF Sw!WriteQueue, Sw!WriteSnapshot, Sw!WriteState, Sw!Leave, Planning, Typed
  <2>7. QED BY <1>2, <2>2, <2>3, <2>4, <2>5, <2>6 DEF Sw!Commit
<1>3. QED BY <1>1, <1>2

(* A draft fits after a step that leaves it, and decides nothing.          *)
LEMMA DraftStays ==
  ASSUME Sw!Constants, Typed, Typed', Settles, NEW q \in Sweeper, DraftedBy(q),
         place'[q] = place[q], job'[q] = job[q], work'[q] = work[q],
         held' = q => held = q /\ UNCHANGED queue /\ state'.repos = state.repos
  PROVE  DraftedBy(q)'
<1> SUFFICES ASSUME place[q] = "acquire" PROVE DraftedBy(q)' BY DEF DraftedBy
<1>1. work[q] \in Draft BY DEF Typed, WorkTyped
<1>2. \A r \in Repo : work[q].got[r] # None => work[q].got[r].rev \in Rev BY <1>1 DEF Draft, Got
<1>3. \A r \in Repo : work[q].got[r] # None =>
         /\ r \in job[q].repos /\ (work[q].got[r].merged => forge'[r].merged)
         /\ work[q].got[r].rev <= forge'[r].rev
         /\ work[q].got[r].shadowed =>
               forge'[r].merged \/ forge'[r].shadowed \/ work[q].got[r].rev <= shade'[r]
  BY <1>2, SettledCover DEF DraftedBy, Covered
<1>4. QED BY <1>3 DEF DraftedBy, Covered

(* A plan fits after a step that leaves it, and decides nothing.           *)
LEMMA PlanFits ==
  ASSUME Sw!Constants, Typed, Typed', Settles, NEW q \in Sweeper, held = q, place[q] \in Planning,
         PlannedBy(q), UNCHANGED queue, state'.repos = state.repos,
         work'[q].rows = work[q].rows, work'[q].state = work[q].state
  PROVE  PlannedBy(q)'
<1>1. work[q] \in Plan BY DEF Typed, WorkTyped
<1>2. state.repos \in [Repo -> Known] /\ work[q].state.repos \in [Repo -> Known]
  BY <1>1 DEF Plan, Typed, States
<1>3. /\ Fits(state.repos, work[q].rows) /\ Fits(work[q].state.repos, work[q].rows)
      /\ \A r \in Repo : queue[r] # "none" => Kept(r, work[q].rows[r])
  BY DEF PlannedBy
<1>4. StillFits(state.repos, work[q].rows) /\ StillFits(work[q].state.repos, work[q].rows)
  BY <1>2, <1>3, SettledFits
<1>5. Fits(state.repos, work[q].rows)' /\ Fits(work[q].state.repos, work[q].rows)'
  BY <1>4 DEF StillFits, Fits, Covered
<1>6. \A r \in Repo : queue'[r] # "none" => Kept(r, work[q].rows[r])'
  BY <1>3, SettledCover DEF Kept
<1>7. QED BY <1>5, <1>6 DEF PlannedBy

(* So does what is about to be written.                                    *)
LEMMA WriteStays ==
  ASSUME Sw!Constants, Typed, Typed', Settles, NEW q \in Sweeper, WrittenBy(q),
         place[q] \in {"snapshot", "state"}, UNCHANGED queue, work'[q].state = work[q].state
  PROVE  Fits(work[q].state.repos, queue)'
<1>1. work[q].state.repos \in [Repo -> Known] BY DEF Typed, WorkTyped, States
<1>2. StillFits(work[q].state.repos, queue) BY <1>1, SettledFits DEF WrittenBy
<1>3. QED BY <1>2 DEF StillFits, Fits, Covered

(* No sweeper decides.                                                     *)
LEMMA ActsSettle ==
  ASSUME Sw!Constants, Typed, [Sw!Next]_(Sw!sweepVars), NEW p \in Sweeper, Acts(p)
  PROVE  Settles
BY WorldMoves, PlaceMoves DEF Settles

(* What is drafted, planned and written fits as well after a step that is  *)
(* another's.                                                              *)
LEMMA AttentiveOthers ==
  ASSUME Sw!Constants, Typed, Typed', Locked, Attentive, [Sw!Next]_(Sw!sweepVars),
         NEW p \in Sweeper, Acts(p),
         NEW q \in Sweeper \ {p}
  PROVE  DraftedBy(q)' /\ PlannedBy(q)' /\ WrittenBy(q)'
<1>1. place'[q] = place[q] /\ job'[q] = job[q] /\ work'[q] = work[q] BY OthersStay
<1>2. held' = q => held = q BY LeaseMoves DEF Sw!Constants
<1>3. held = q \/ place[q] \in Sw!Committing =>
         UNCHANGED <<queue, snapshot, requests, facts, merges>> /\ state'.repos = state.repos
  BY FilesStay DEF Locked
<1>4. Settles BY ActsSettle
<1>5. DraftedBy(q)' BY <1>1, <1>2, <1>3, <1>4, DraftStays DEF Attentive, Drafted
<1>6. PlannedBy(q)'
  <2> SUFFICES ASSUME place'[q] \in Planning, held' = q PROVE PlannedBy(q)' BY DEF PlannedBy
  <2>1. QED BY <1>1, <1>2, <1>3, <1>4, PlanFits DEF Attentive, Planned
<1>7. WrittenBy(q)'
  <2> SUFFICES ASSUME place'[q] \in {"snapshot", "state"} PROVE Fits(work[q].state.repos, queue)'
    BY DEF WrittenBy
  <2>1. QED BY <1>1, <1>3, <1>4, WriteStays DEF Attentive, Written, Sw!Committing
<1>8. QED BY <1>5, <1>6, <1>7

(* What a sweep plans from files that are as it read them fits them.       *)
LEMMA AnalyzeFits ==
  ASSUME Sw!Constants, Typed, Locked, Attentive, NEW p \in Sweeper, Sw!Analyze(p), ~Sw!Leave(p),
             held = p
  PROVE  PlannedBy(p)'
<1> DEFINE old == work[p].old
           got == work[p].got
           rows == [r \in Repo |-> Sw!Reconciled(p, r)]
           known == [r \in Repo |-> IF got[r] # None THEN Sw!Entry(got[r]) ELSE old.repos[r]]
<1>1. place[p] = "acquire" /\ work[p] \in Draft BY DEF Sw!Analyze, Typed, WorkTyped
<1>2. work'[p].rows = rows /\ work'[p].state.repos = known
      /\ UNCHANGED <<queue, state, forge, decided, shade>>
  BY DEF Sw!Analyze, Typed, Sw!fileVars, Sw!deskVars
<1>3. /\ work[p].rows = queue /\ old.repos = state.repos
      /\ \A r \in Repo : got[r] # None =>
            /\ r \in job[p].repos /\ (got[r].merged => forge[r].merged)
            /\ got[r].rev <= forge[r].rev
            /\ got[r].shadowed => Covered(r, got[r].rev)
            /\ state.repos[r] # None => state.repos[r].rev <= got[r].rev
  BY <1>1 DEF Attentive, Drafted, DraftedBy
<1> DEFINE Excused(r, rev) == decided[r] = "reject" \/ Covered(r, rev)
<1>4. ASSUME NEW r \in Repo
      PROVE  /\ queue[r] # "none" => Kept(r, Sw!Reconciled(p, r))
             /\ state.repos[r] # None /\ state.repos[r].open /\ Sw!Reconciled(p, r) = "none"
                   => Excused(r, state.repos[r].rev)
             /\ got[r] # None /\ ~got[r].merged /\ Sw!Reconciled(p, r) = "none"
                   => Excused(r, got[r].rev)
  <2>1. Fits(state.repos, queue) BY DEF Attentive
  <2>2. CASE r \in Sw!Carried(p)
    <3>1. Sw!Reconciled(p, r) = queue[r] BY <1>3, <2>2 DEF Sw!Reconciled
    <3>2. got[r] = None BY <1>3, <2>2 DEF Sw!Carried
    <3>3. QED BY <2>1, <3>1, <3>2 DEF Fits, Kept
  <2>3. CASE r \notin Sw!Carried(p) /\ got[r] = None
    <3>1. Sw!Reconciled(p, r) = queue[r] BY <1>3, <2>3 DEF Sw!Reconciled
    <3>2. QED BY <2>1, <2>3, <3>1 DEF Fits, Kept
  <2>4. CASE r \notin Sw!Carried(p) /\ got[r] # None /\ got[r].merged
    BY <1>3, <2>4 DEF Kept, Covered
  <2>5. CASE r \notin Sw!Carried(p) /\ got[r] # None /\ ~got[r].merged
    <3>1. /\ got[r].rev \in Nat /\ shade[r] \in Nat /\ got[r].rev # 0
          /\ state.repos[r] # None => state.repos[r].rev \in Nat
      BY <1>1, <2>5 DEF Draft, Got, Rev, Typed, States, Known, Sw!Constants
    <3>2. CASE got[r].shadowed
      <4>1. Covered(r, got[r].rev) BY <1>3, <2>5, <3>2
      <4>2. state.repos[r] # None => Covered(r, state.repos[r].rev)
        BY <1>3, <2>5, <3>1, <4>1 DEF Covered
      <4>3. queue[r] # "none" => Kept(r, Sw!Reconciled(p, r))
        <5>1. CASE queue[r] = "approved"
          <6>1. ~Sw!Dropped(work[p].rows[r], got[r]) BY <1>3, <2>5, <5>1 DEF Sw!Dropped
          <6>2. Sw!Reconciled(p, r) = queue[r] BY <1>3, <2>5, <5>1, <6>1 DEF Sw!Reconciled
          <6>3. QED BY <6>2 DEF Kept
        <5>2. CASE queue[r] # "approved" BY <3>1, <4>1, <5>2 DEF Kept, Covered
        <5>3. QED BY <5>1, <5>2
      <4>4. QED BY <4>1, <4>2, <4>3
    <3>3. CASE ~got[r].shadowed
      <4>1. ~Sw!Dropped(work[p].rows[r], got[r]) BY <2>5, <3>3 DEF Sw!Dropped
      <4>2. CASE queue[r] # "none"
        <5>1. Sw!Reconciled(p, r) = queue[r] BY <1>3, <2>5, <4>1, <4>2 DEF Sw!Reconciled
        <5>2. QED BY <4>2, <5>1 DEF Kept
      <4>3. CASE queue[r] = "none" /\ Sw!Event(state.repos[r], got[r])
        <5>1. Sw!Reconciled(p, r) = "pending" BY <1>3, <2>5, <4>1, <4>3 DEF Sw!Reconciled
        <5>2. QED BY <4>3, <5>1
      <4>4. CASE queue[r] = "none" /\ ~Sw!Event(state.repos[r], got[r])
        <5>1. state.repos[r] # None /\ ~(state.repos[r].rev < got[r].rev)
          BY <2>5, <3>3, <4>4 DEF Sw!Event
        <5>2. /\ state.repos[r] \in [rev : Rev, open : BOOLEAN, paused : BOOLEAN]
              /\ got[r].rev <= state.repos[r].rev
          BY <3>1, <5>1 DEF Typed, States, Known
        <5>3. decided[r] = "reject" \/ Covered(r, state.repos[r].rev)
          BY <2>1, <4>4, <5>1, <5>2 DEF Fits, Covered
        <5>4. Covered(r, state.repos[r].rev) => Covered(r, got[r].rev)
          BY <3>1, <5>1, <5>2 DEF Covered
        <5>5. QED BY <4>4, <5>3, <5>4
      <4>5. QED BY <4>2, <4>3, <4>4
    <3>4. QED BY <3>2, <3>3
  <2>6. QED BY <2>2, <2>3, <2>4, <2>5
<1>5. ASSUME NEW r \in Repo, state.repos[r] # None
      PROVE  /\ state.repos[r].rev <= forge[r].rev /\ (~state.repos[r].open => forge[r].merged)
             /\ state.repos[r].open /\ rows[r] = "none" => Excused(r, state.repos[r].rev)
  BY <1>4, <1>5 DEF Fits, Attentive
<1>6. ASSUME NEW r \in Repo, known[r] # None
      PROVE  /\ known[r].rev <= forge[r].rev /\ (~known[r].open => forge[r].merged)
             /\ known[r].open /\ rows[r] = "none" => Excused(r, known[r].rev)
  <2>1. CASE got[r] # None
    <3>1. known[r].open = ~got[r].merged /\ known[r].rev = got[r].rev BY <2>1 DEF Sw!Entry
    <3>2. got[r].merged \in BOOLEAN BY <1>1, <2>1 DEF Draft, Got
    <3>3. QED BY <1>3, <1>4, <2>1, <3>1, <3>2
  <2>2. CASE got[r] = None
    <3>1. known[r] = state.repos[r] BY <1>3, <2>2
    <3>2. QED BY <1>4, <1>5, <1>6, <3>1
  <2>3. QED BY <2>1, <2>2
<1>7. \A r \in Repo : queue[r] # "none" => Kept(r, rows[r]) BY <1>4
<1> HIDE DEF rows, known
<1>8. Fits(state.repos, work[p].rows)' BY <1>2, <1>5 DEF Fits, Covered
<1>9. Fits(work[p].state.repos, work[p].rows)' BY <1>2, <1>6 DEF Fits, Covered
<1>10. QED BY <1>2, <1>7, <1>8, <1>9 DEF PlannedBy, Kept

(* By which step a sweeper comes to, or stays at, each kind of work.       *)
LEMMA WorkMoves ==
  ASSUME Typed, NEW p \in Sweeper, Acts(p)
  PROVE  /\ place'[p] = "acquire"
                => (Sw!Read(p) /\ ~Sw!Leave(p)) \/ \E r \in Repo : Sw!AcquireRepo(p, r)
         /\ place'[p] \in Planning => (Sw!Analyze(p) /\ ~Sw!Leave(p)) \/ Sw!Commit(p)
         /\ place'[p] \in {"snapshot", "state"} => Sw!WriteQueue(p) \/ Sw!WriteSnapshot(p)
<1> USE DEF Sw!Goto, Planning
<1>1. CASE \E j \in Sw!Jobs : Sw!Begin(p, j[1], j[2]) BY <1>1 DEF Sw!Begin, Typed
<1>2. CASE Sw!Acquire(p)
  <2>1. place'[p] \in {"decide", "clear", "read"} BY <1>2 DEF Sw!Acquire, Typed
  <2>2. QED BY <2>1
<1>3. CASE Sw!GiveUp(p) \/ Sw!Reuse(p) \/ Sw!SweepAnew(p) \/ Sw!Clear(p) \/ Sw!Stop(p)
  BY <1>3 DEF Sw!GiveUp, Sw!Reuse, Sw!SweepAnew, Sw!Clear, Sw!Stop, Sw!Leave, Typed
<1>4. CASE Sw!Read(p)
  <2>1. Sw!Leave(p) => place'[p] = "idle" BY DEF Sw!Leave, Typed
  <2>2. QED BY <1>4, <2>1 DEF Sw!Read, Typed
<1>5. CASE \E r \in Repo : Sw!AcquireRepo(p, r) BY <1>5 DEF Sw!AcquireRepo
<1>6. CASE Sw!Analyze(p)
  <2>1. Sw!Leave(p) => place'[p] = "idle" BY DEF Sw!Leave, Typed
  <2>2. QED BY <1>6, <2>1 DEF Sw!Analyze, Typed
<1>7. CASE Sw!Commit(p)
  <2>1. CASE Sw!Confirm(p)
    <3>1. Sw!Leave(p) => place'[p] = "idle" BY DEF Sw!Leave, Typed
    <3>2. QED BY <1>7, <2>1, <3>1 DEF Sw!Confirm, Typed
  <2>2. CASE ~Sw!Confirm(p)
    BY <1>7, <2>2 DEF Sw!Commit, Sw!EmitEvent, Sw!AppendFact, Sw!Emitted, Sw!AppendMerge,
                      Sw!WriteQueue, Sw!WriteSnapshot, Sw!WriteState, Sw!Leave, Typed
  <2>3. QED BY <2>1, <2>2
<1>8. QED BY <1>1, <1>2, <1>3, <1>4, <1>5, <1>6, <1>7 DEF Acts, Sw!Step

(* What the two last writes leave of the plan.                             *)
LEMMA PlanWritten ==
  ASSUME Typed, NEW p \in Sweeper
  PROVE  /\ Sw!WriteQueue(p) => /\ place[p] = "queue" /\ queue' = work[p].rows
                             /\ work'[p].state = work[p].state /\ work'[p].mirror = work[p].mirror
                             /\ place'[p] = "snapshot"
                             /\ UNCHANGED <<clock, forge, held, snapshot, state, decided,
                                    shade, invalidated>>
         /\ Sw!WriteSnapshot(p) => /\ place[p] = "snapshot" /\ snapshot' = work[p].mirror
                                /\ work'[p].state = work[p].state /\ place'[p] = "state"
                                /\ UNCHANGED <<clock, forge, held, queue, state, decided,
                                       shade, invalidated>>
BY DEF Sw!WriteQueue, Sw!WriteSnapshot, Sw!Goto, Typed, Sw!deskVars

(* What a sweeper drafts fits.                                             *)
LEMMA DraftingFits ==
  ASSUME Sw!Constants, Typed, Typed', Attentive, Settles, NEW p \in Sweeper, Acts(p)
  PROVE  DraftedBy(p)'
<1>1. CASE Sw!Read(p) /\ ~Sw!Leave(p)
  <2>1. job[p] \in JobOf BY <1>1 DEF Sw!Read, Typed, WorkTyped
  <2>2. /\ work'[p].rows = queue /\ work'[p].old = state /\ work'[p].left = job[p].repos
        /\ (\A r \in Repo : work'[p].got[r] = None) /\ UNCHANGED <<queue, state, job>>
    BY <1>1 DEF Sw!Read, Typed, Sw!fileVars
  <2>3. QED BY <2>2 DEF DraftedBy
<1>2. ASSUME NEW r \in Repo, Sw!AcquireRepo(p, r) PROVE DraftedBy(p)'
  <2>1. /\ place[p] = "acquire" /\ r \in work[p].left /\ work[p] \in Draft
        /\ UNCHANGED <<forge, held, job, queue, state, shade>>
    BY <1>2 DEF Sw!AcquireRepo, Typed, WorkTyped, Sw!fileVars, Sw!deskVars
  <2>2. /\ work'[p].rows = work[p].rows /\ work'[p].old = work[p].old
        /\ work'[p].left \subseteq work[p].left
        /\ \/ work'[p].got = work[p].got
           \/ work'[p].got = [work[p].got EXCEPT ![r] =
                 [rev |-> forge[r].rev, merged |-> forge[r].merged,
                  shadowed |-> forge[r].shadowed, at |-> clock]]
    BY <1>2, <2>1 DEF Sw!AcquireRepo, Typed, Draft
  <2>3. r \in job[p].repos BY <2>1 DEF Attentive, Drafted, DraftedBy
  <2>4. \A x \in Repo : \/ work'[p].got[x] = work[p].got[x]
                       \/ /\ x = r /\ work'[p].got[x].merged = forge[x].merged
                          /\ work'[p].got[x].rev = forge[x].rev
                          /\ work'[p].got[x].shadowed = forge[x].shadowed
    BY <2>1, <2>2 DEF Draft
  <2>5. \A x \in Repo : forge[x].rev \in Int BY DEF Typed, Items, Rev
  <2>6. \A x \in Repo : state.repos[x] # None => state.repos[x].rev <= forge[x].rev
    BY DEF Attentive, Fits
  <2>7. ASSUME NEW x \in Repo, work'[p].got[x] # None
        PROVE  /\ x \in job[p].repos /\ (work'[p].got[x].merged => forge[x].merged)
               /\ work'[p].got[x].rev <= forge[x].rev
               /\ work'[p].got[x].shadowed =>
                     forge[x].merged \/ forge[x].shadowed \/ work'[p].got[x].rev <= shade[x]
               /\ held = p /\ state.repos[x] # None => state.repos[x].rev <= work'[p].got[x].rev
    <3>1. CASE work'[p].got[x] = work[p].got[x]
      BY <2>1, <2>7, <3>1 DEF Attentive, Drafted, DraftedBy, Covered
    <3>2. CASE work'[p].got[x] # work[p].got[x] BY <2>3, <2>4, <2>5, <2>6, <3>2
    <3>3. QED BY <3>1, <3>2
  <2>8. /\ work'[p].left \subseteq job[p].repos
        /\ held = p => work'[p].rows = queue /\ work'[p].old.repos = state.repos
    BY <2>1, <2>2 DEF Attentive, Drafted, DraftedBy
  <2>9. QED BY <2>1, <2>7, <2>8 DEF DraftedBy, Covered
<1>3. QED BY <1>1, <1>2, WorkMoves DEF DraftedBy

(* No step loses the row of an item that the state knows, or an answer.    *)
LEMMA AttentiveStep ==
  ASSUME Sw!Constants, Window = FALSE, Crosses = FALSE, Typed, Locked, Attentive,
             [Sw!Next]_(Sw!sweepVars)
  PROVE  Attentive'
<1>0. Typed' BY TypedStep
<1> DEFINE Answered(r, row) == ~forge'[r].merged =>
              /\ decided'[r] = "approve" => row = "approved"
              /\ decided'[r] = "defer" /\ ~forge'[r].shadowed /\ shade'[r] = 0 => row = "deferred"
<1>1. ASSUME NEW p \in Sweeper, Acts(p)
      PROVE  Attentive'
  <2>1. Settles BY <1>1, ActsSettle
  <2>2. DraftedBy(p)' BY <1>0, <1>1, <2>1, DraftingFits
  <2>3. PlannedBy(p)'
    <3>1. CASE Sw!Analyze(p) /\ ~Sw!Leave(p)
      <4>1. held' = p => held = p BY <3>1 DEF Sw!Analyze
      <4>2. QED BY <3>1, <4>1, AnalyzeFits DEF PlannedBy
    <3>2. CASE Sw!Commit(p) /\ place'[p] \in Planning /\ held' = p
      <4>1. /\ place[p] \in Planning /\ held = p /\ UNCHANGED <<queue, state>>
            /\ work'[p].rows = work[p].rows /\ work'[p].state = work[p].state
        BY <3>2, PlanStays
      <4>2. PlannedBy(p) BY DEF Attentive, Planned
      <4>3. QED BY <1>0, <2>1, <4>1, <4>2, PlanFits
    <3>3. QED BY <1>1, <3>1, <3>2, WorkMoves DEF PlannedBy
  <2>4. WrittenBy(p)'
    <3>1. CASE Sw!WriteQueue(p)
      <4>1. Fits(work[p].state.repos, work[p].rows)
        BY <3>1, PlanWritten DEF Attentive, Planned, PlannedBy, Planning, Locked, Sw!Committing
      <4>2. QED BY <3>1, <4>1, PlanWritten DEF WrittenBy, Fits, Covered
    <3>2. CASE Sw!WriteSnapshot(p)
      <4>1. WrittenBy(p) BY DEF Attentive, Written
      <4>2. QED BY <1>0, <2>1, <3>2, <4>1, PlanWritten, WriteStays DEF WrittenBy
    <3>3. QED BY <1>1, <3>1, <3>2, WorkMoves DEF WrittenBy
  <2>5. Drafted' /\ Planned' /\ Written'
    <3>1. \A q \in Sweeper : DraftedBy(q)' /\ PlannedBy(q)' /\ WrittenBy(q)'
      BY <1>0, <1>1, <2>2, <2>3, <2>4, AttentiveOthers
    <3>2. QED BY <3>1 DEF Drafted, Planned, Written, DraftedBy, PlannedBy, WrittenBy
  <2>6. Fits(state.repos, queue)' /\ Sw!AnswerStays'
    <3>1. CASE Sw!WriteQueue(p)
      <4>1. /\ Fits(state.repos, work[p].rows)
            /\ \A r \in Repo : queue[r] # "none" => Kept(r, work[p].rows[r])
        BY <3>1, PlanWritten DEF Attentive, Planned, PlannedBy, Planning, Locked, Sw!Committing
      <4>2. Fits(state.repos, queue)' BY <3>1, <4>1, PlanWritten DEF Fits, Covered
      <4>3. Sw!AnswerStays'
        BY <3>1, <4>1, PlanWritten DEF Attentive, Sw!AnswerStays, Kept
      <4>4. QED BY <4>2, <4>3
    <3>2. CASE Sw!WriteState(p)
      <4>1. /\ state' = work[p].state /\ place[p] = "state"
            /\ UNCHANGED <<forge, queue, decided, shade>>
        BY <3>2 DEF Sw!WriteState, Sw!deskVars
      <4>2. QED BY <4>1 DEF Attentive, Written, WrittenBy, Fits, Covered, Sw!AnswerStays
    <3>3. CASE UNCHANGED queue /\ state'.repos = state.repos
      <4>1. state.repos \in [Repo -> Known] BY DEF Typed, States
      <4>2. StillFits(state.repos, queue) BY <1>0, <2>1, <4>1, SettledFits DEF Attentive
      <4>3. Fits(state.repos, queue)' BY <3>3, <4>2 DEF StillFits, Fits, Covered
      <4>4. \A r \in Repo : Answered(r, queue[r])
        BY <1>0, <2>1, SettledCover DEF Attentive, Sw!AnswerStays, Settles
      <4>5. QED BY <3>3, <4>3, <4>4 DEF Sw!AnswerStays
    <3>4. QED
      <4>1. CASE place[p] \notin Sw!Committing BY <1>1, <3>3, <4>1, FilesStay
      <4>2. CASE place[p] \in Sw!Committing /\ ~Sw!WriteQueue(p) /\ ~Sw!WriteState(p)
        BY <1>1, <3>3, <4>2
           DEF Acts, Sw!Step, Sw!Committing, Sw!Begin, Sw!Acquire, Sw!GiveUp, Sw!Reuse,
               Sw!SweepAnew, Sw!Clear, Sw!Stop, Sw!Read, Sw!Analyze, Sw!AcquireRepo, Sw!Commit,
                   Sw!Confirm, Sw!EmitEvent, Sw!AppendFact, Sw!Emitted, Sw!AppendMerge,
                       Sw!WriteSnapshot, Sw!fileVars
      <4>3. QED BY <3>1, <3>2, <4>1, <4>2
  <2>7. QED BY <2>5, <2>6 DEF Attentive
<1>2. CASE Sw!DeskWrite
  <2>1. /\ desk.rows = queue /\ desk.item \in Repo /\ desk.verb \in DOMAIN Sw!Verbs
        /\ queue[desk.item] # "none" /\ UNCHANGED <<forge, held, state, place, job, work>>
    BY <1>2 DEF Sw!DeskWrite, Locked, Typed
  <2>2. /\ queue' = [queue EXCEPT ![desk.item] = Sw!Verbs[desk.verb]]
        /\ decided' = [decided EXCEPT ![desk.item] = desk.verb]
        /\ shade' = [shade EXCEPT ![desk.item] = 0]
    BY <1>2, <2>1 DEF Sw!DeskWrite
  <2>3. \A p \in Sweeper : place[p] \notin Sw!Reading BY <1>2 DEF Sw!DeskWrite, Locked
  <2>4. \A r \in Repo : IF r = desk.item
                        THEN queue'[r] = Sw!Verbs[desk.verb] /\ decided'[r] = desk.verb
                        ELSE /\ queue'[r] = queue[r] /\ decided'[r] = decided[r]
                             /\ shade'[r] = shade[r]
    BY <2>2 DEF Typed
  <2>5. Sw!Verbs[desk.verb] = "none" => desk.verb = "reject" BY <2>1 DEF Sw!Verbs
  <2>6. \A known : Fits(known, queue) => StillFits(known, queue')
    BY <2>1, <2>4, <2>5 DEF Fits, StillFits, Covered
  <2>7. Fits(state.repos, queue)'
    <3>1. StillFits(state.repos, queue') BY <2>6 DEF Attentive
    <3>2. QED BY <2>1, <3>1 DEF StillFits, Fits, Covered
  <2>8. Sw!AnswerStays' BY <2>1, <2>4 DEF Attentive, Sw!AnswerStays, Sw!Verbs
  <2>9. Planned' BY <2>1, <2>3 DEF Planned, PlannedBy, Sw!Reading, Planning
  <2>10. Drafted' BY <2>1, <2>3 DEF Drafted, DraftedBy, Sw!Reading
  <2>11. Written'
    <3>1. ASSUME NEW p \in Sweeper, place[p] \in {"snapshot", "state"}
          PROVE  Fits(work[p].state.repos, queue)'
      <4>1. Fits(work[p].state.repos, queue) BY <3>1 DEF Attentive, Written, WrittenBy
      <4>2. StillFits(work[p].state.repos, queue') BY <2>6, <4>1
      <4>3. QED BY <2>1, <4>2 DEF StillFits, Fits, Covered
    <3>2. QED BY <2>1, <3>1 DEF Written, WrittenBy
  <2>12. QED BY <2>7, <2>8, <2>9, <2>10, <2>11 DEF Attentive
<1>3. CASE Sw!Tick \/ (\E r \in Repo : Sw!Edit(r) \/ Sw!Shadow(r))
           \/ (\E r \in Repo, verb \in DOMAIN Sw!Verbs : Sw!DeskRead(r, verb))
                  \/ UNCHANGED Sw!sweepVars
  <2>1. UNCHANGED <<held, queue, state, place, job, work, decided>>
    BY <1>3 DEF Sw!Tick, Sw!Edit, Sw!Shadow, Sw!DeskRead, Sw!sweepVars, Sw!fileVars, Sw!deskVars
  <2>2. \A r \in Repo : shade'[r] \in {shade[r], forge[r].rev}
    <3>1. CASE UNCHANGED shade BY <3>1
    <3>2. ASSUME NEW x \in Repo, Sw!Shadow(x)
          PROVE  \A r \in Repo : shade'[r] \in {shade[r], forge[r].rev}
      <4>1. shade' = shade \/ shade' = [shade EXCEPT ![x] = forge[x].rev]
        BY <3>2 DEF Sw!Shadow
      <4>2. QED BY <4>1 DEF Typed
    <3>3. QED
      BY <1>3, <3>1, <3>2 DEF Sw!Tick, Sw!Edit, Sw!DeskRead, Sw!sweepVars, Sw!deskVars
  <2>3. Settles BY <2>1, <2>2, WorldMoves DEF Settles
  <2>4. Fits(state.repos, queue)'
    <3>1. state.repos \in [Repo -> Known] BY DEF Typed, States
    <3>2. StillFits(state.repos, queue) BY <1>0, <2>3, <3>1, SettledFits DEF Attentive
    <3>3. QED BY <2>1, <3>2 DEF StillFits, Fits, Covered
  <2>5. Sw!AnswerStays'
    <3>1. \A r \in Repo : Answered(r, queue[r])
      BY <1>0, <2>3, SettledCover DEF Attentive, Sw!AnswerStays, Settles
    <3>2. QED BY <2>1, <3>1 DEF Sw!AnswerStays
  <2>6. ASSUME NEW q \in Sweeper PROVE DraftedBy(q)' /\ PlannedBy(q)' /\ WrittenBy(q)'
    <3>1. DraftedBy(q) /\ PlannedBy(q) /\ WrittenBy(q)
      BY DEF Attentive, Drafted, Planned, Written
    <3>2. DraftedBy(q)' BY <1>0, <2>1, <2>3, <3>1, DraftStays
    <3>3. PlannedBy(q)' BY <1>0, <2>1, <2>3, <3>1, PlanFits DEF PlannedBy
    <3>4. WrittenBy(q)' BY <1>0, <2>1, <2>3, <3>1, WriteStays DEF WrittenBy
    <3>5. QED BY <3>2, <3>3, <3>4
  <2>7. Drafted' /\ Planned' /\ Written'
    BY <2>6 DEF Drafted, Planned, Written, DraftedBy, PlannedBy, WrittenBy
  <2>8. QED BY <2>4, <2>5, <2>7 DEF Attentive
<1>4. QED BY <1>1, <1>2, <1>3 DEF Acts, Sw!Next

(* A sweep that has planned what to record, from files as they are.        *)
LEMMA AnalyzeRecords ==
  ASSUME Sw!Constants, Typed, Locked, Attentive, Recording, NEW p \in Sweeper, Sw!Analyze(p),
         ~Sw!Leave(p), held = p
  PROVE  Records(p)'
<1>1. place[p] = "acquire" /\ work[p].rows = queue BY DEF Sw!Analyze, Attentive, Drafted, DraftedBy
<1>2. /\ place'[p] = "confirm" /\ UNCHANGED <<requests, facts, merges>>
      /\ work'[p].rows = RowsBy(p) /\ work'[p].merged = MergedBy(p)
      /\ work'[p].asks = {r \in Repo : RowsBy(p)[r] = "pending"}
  BY AnalyzePlans DEF Sw!fileVars
<1>3. \A r \in Repo : RowsBy(p)[r] # "none" => RowsBy(p)[r] = "pending" \/ queue[r] # "none"
  BY <1>1 DEF Sw!Reconciled, RowsBy
<1>4. \A r \in Repo : queue[r] # "none" => Shown(r) BY DEF Recording, Sw!RecordedOnce, Shown
<1>5. \A r \in MergedBy(p) : merges[r] = 0 BY DEF MergedBy
<1>6. QED BY <1>2, <1>3, <1>4, <1>5 DEF Records, Shown

(* No step records anything twice, or shows a row before its request is    *)
(* recorded.                                                               *)
LEMMA RecordingStep ==
  ASSUME Sw!Constants, Window = FALSE, Crosses = FALSE, Typed, Locked, Attentive, Recording,
         [Sw!Next]_(Sw!sweepVars)
  PROVE  Recording'
<1>1. ASSUME NEW p \in Sweeper, Acts(p),
             place[p] \notin Sw!Committing
      PROVE  Recording'
  <2>1. UNCHANGED <<queue, requests, facts, merges>> BY <1>1, FilesStay
  <2>2. ASSUME NEW q \in Sweeper, place'[q] \in Planning, held' = q PROVE Records(q)'
    <3>1. CASE q = p
      <4>1. CASE Sw!Analyze(p) /\ ~Sw!Leave(p)
        <5>1. held = p BY <2>2, <3>1, <4>1 DEF Sw!Analyze
        <5>2. QED BY <3>1, <4>1, <5>1, AnalyzeRecords
      <4>2. CASE Sw!Commit(p)
        <5>1. /\ place[p] \in Planning /\ held = p /\ work[p] \in Plan
              /\ work'[p].rows = work[p].rows
          BY <2>2, <3>1, <4>2, PlanStays
        <5>2. place[p] = "confirm" BY <1>1, <5>1 DEF Planning, Sw!Committing
        <5>3. Sw!Confirm(p)
          BY <4>2, <5>2 DEF Sw!Commit, Sw!EmitEvent, Sw!AppendFact, Sw!Emitted, Sw!AppendMerge,
                            Sw!WriteQueue, Sw!WriteSnapshot, Sw!WriteState
        <5>4. PICK k \in SUBSET Repo : k = {r \in Repo : facts[r] > 0} OBVIOUS
        <5>5. work' = [work EXCEPT ![p].known = k] /\ place'[p] = "emit"
          BY <5>1, <5>3, <5>4 DEF Sw!Confirm, Sw!Goto, Typed
        <5>6. /\ work'[p].known = k /\ work'[p].asks = work[p].asks
              /\ work'[p].merged = work[p].merged
          BY <5>1, <5>5 DEF Plan, Typed
        <5>7. \A r \in Repo : IF r \in k THEN facts[r] = 1 ELSE facts[r] = 0
          BY <5>4 DEF Recording, Sw!RecordedOnce, Typed
        <5>8. Records(p) BY <5>1 DEF Recording
        <5>9. QED BY <2>1, <3>1, <5>1, <5>2, <5>5, <5>6, <5>7, <5>8 DEF Records, Shown, Plan
      <4>3. QED BY <1>1, <2>2, <3>1, <4>1, <4>2, WorkMoves
    <3>2. CASE q # p
      <4>1. place'[q] = place[q] /\ work'[q] = work[q] BY <1>1, <3>2, OthersStay
      <4>2. held = q BY <1>1, <2>2, <3>2, LeaseMoves DEF Sw!Constants
      <4>3. Records(q) BY <2>2, <4>1, <4>2 DEF Recording
      <4>4. QED BY <2>1, <4>1, <4>3 DEF Records, Shown
    <3>3. QED BY <3>1, <3>2
  <2>3. QED BY <2>1, <2>2 DEF Recording, Sw!RecordedOnce
<1>2. ASSUME NEW p \in Sweeper, place[p] \in Sw!Committing, Sw!Commit(p) PROVE Recording'
  <2>1. held = p BY <1>2 DEF Locked
  <2>2. \A q \in Sweeper \ {p} : held' # q
    BY <1>2, <2>1, LeaseMoves DEF Acts, Sw!Step, Sw!Acquire, Sw!Committing, Sw!Constants
  <2> DEFINE Goal == Sw!RecordedOnce' /\ (place'[p] \in Planning /\ held' = p => Records(p)')
  <2>3. SUFFICES Goal BY <2>2 DEF Recording
  <2>4. place[p] \in Planning => Records(p) /\ work[p] \in Plan
    BY <2>1 DEF Recording, Typed, WorkTyped
  <2>5. ASSUME NEW r \in Repo, Sw!EmitEvent(p, r) PROVE Goal
    <3>1. /\ place[p] = "emit" /\ r \in work[p].asks /\ UNCHANGED <<queue, facts, merges>>
          /\ requests' = IF requests[r] = 0 THEN [requests EXCEPT ![r] = 1] ELSE requests
      BY <2>5 DEF Sw!EmitEvent
    <3>2. requests'[r] = 1 /\ \A x \in Repo \ {r} : requests'[x] = requests[x]
      BY <3>1 DEF Recording, Sw!RecordedOnce, Typed
    <3>3. work'[p].asks = work[p].asks \ {r} /\ work'[p].known = work[p].known
          /\ work'[p].rows = work[p].rows /\ work'[p].merged = work[p].merged
          /\ IF r \in work[p].known THEN place'[p] = "emit"
             ELSE place'[p] = "fact" /\ work'[p].fact = r
      BY <2>4, <2>5, <3>1 DEF Sw!EmitEvent, Sw!Goto, Typed, Plan, Planning
    <3>4. Sw!RecordedOnce' BY <3>1, <3>2 DEF Recording, Sw!RecordedOnce
    <3>5. Records(p)'
      BY <2>4, <3>1, <3>2, <3>3 DEF Records, Shown, Planning, Plan
    <3>6. QED BY <3>4, <3>5
  <2>6. ASSUME Sw!AppendFact(p) PROVE Goal
    <3>1. PICK r \in Repo : r = work[p].fact BY <2>6 DEF Sw!AppendFact, Typed, WorkTyped
    <3>2. /\ place[p] = "fact" /\ UNCHANGED <<queue, requests, merges>> /\ place'[p] = "emit"
          /\ facts' = [facts EXCEPT ![r] = @ + 1]
      BY <2>6, <3>1 DEF Sw!AppendFact, Sw!Goto, Typed
    <3>3. /\ work'[p].asks = work[p].asks /\ work'[p].known = work[p].known
          /\ work'[p].rows = work[p].rows /\ work'[p].merged = work[p].merged
      BY <2>4, <2>6, <3>2 DEF Sw!AppendFact, Sw!Goto, Typed, Plan, Planning
    <3>4. facts[r] = 0 /\ requests[r] = 1 /\ r \notin work[p].asks
      BY <2>4, <3>1, <3>2 DEF Records, Planning
    <3>5. facts'[r] = 1 /\ \A x \in Repo \ {r} : facts'[x] = facts[x]
      BY <3>2, <3>4 DEF Typed
    <3>6. Sw!RecordedOnce' BY <3>2, <3>4, <3>5 DEF Recording, Sw!RecordedOnce
    <3>7. Records(p)'
      BY <2>4, <3>1, <3>2, <3>3, <3>4, <3>5 DEF Records, Shown, Planning, Plan
    <3>8. QED BY <3>6, <3>7
  <2>7. ASSUME Sw!Emitted(p) PROVE Goal
    <3>1. /\ place[p] = "emit" /\ work[p].asks = {} /\ place'[p] = "merge"
          /\ UNCHANGED <<queue, requests, facts, merges, work>>
      BY <2>7 DEF Sw!Emitted, Sw!Goto, Typed, Sw!fileVars
    <3>2. Sw!RecordedOnce' BY <3>1 DEF Recording, Sw!RecordedOnce
    <3>3. Records(p)' BY <2>4, <3>1 DEF Records, Shown, Planning
    <3>4. QED BY <3>2, <3>3
  <2>8. ASSUME Sw!AppendMerge(p) PROVE Goal
    <3>1. place[p] = "merge" /\ UNCHANGED <<queue, requests, facts>> BY <2>8 DEF Sw!AppendMerge
    <3>2. CASE work[p].merged = {}
      <4>1. place'[p] = "queue" /\ UNCHANGED <<merges, work>>
        BY <2>8, <3>2 DEF Sw!AppendMerge, Sw!Goto, Typed
      <4>2. Sw!RecordedOnce' BY <3>1, <4>1 DEF Recording, Sw!RecordedOnce
      <4>3. Records(p)' BY <2>4, <3>1, <4>1 DEF Records, Shown, Planning
      <4>4. QED BY <4>2, <4>3
    <3>3. CASE work[p].merged # {}
      <4>1. PICK r \in work[p].merged : /\ merges' = [merges EXCEPT ![r] = @ + 1] /\ UNCHANGED place
                                        /\ work' = [work EXCEPT ![p].merged = @ \ {r}]
        BY <2>8, <3>3 DEF Sw!AppendMerge
      <4>2. r \in Repo /\ merges[r] = 0 BY <2>4, <3>1 DEF Plan, Planning, Records
      <4>3. merges'[r] = 1 /\ \A x \in Repo \ {r} : merges'[x] = merges[x]
        BY <4>1, <4>2 DEF Typed
      <4>4. /\ work'[p].asks = work[p].asks /\ work'[p].rows = work[p].rows
            /\ work'[p].merged = work[p].merged \ {r}
        BY <2>4, <3>1, <4>1 DEF Typed, Plan, Planning
      <4>5. Sw!RecordedOnce' BY <3>1, <4>2, <4>3 DEF Recording, Sw!RecordedOnce
      <4>6. Records(p)'
        BY <2>4, <3>1, <4>1, <4>2, <4>3, <4>4 DEF Records, Shown, Planning, Plan
      <4>7. QED BY <4>5, <4>6
    <3>4. QED BY <3>2, <3>3
  <2>9. ASSUME Sw!WriteQueue(p) PROVE Goal
    <3>1. /\ place[p] = "queue" /\ place'[p] = "snapshot" /\ queue' = work[p].rows
          /\ UNCHANGED <<requests, facts, merges>>
      BY <2>9, PlanWritten DEF Sw!WriteQueue
    <3>2. \A r \in Repo : work[p].rows[r] # "none" => Shown(r)
      BY <2>4, <3>1 DEF Records, Planning
    <3>3. Sw!RecordedOnce' BY <3>1, <3>2 DEF Recording, Sw!RecordedOnce, Shown
    <3>4. QED BY <3>1, <3>3 DEF Planning
  <2>10. ASSUME Sw!WriteSnapshot(p) \/ Sw!WriteState(p) PROVE Goal
    <3>1. place'[p] \in {"state", "idle"} /\ UNCHANGED <<queue, requests, facts, merges>>
      BY <2>10 DEF Sw!WriteSnapshot, Sw!WriteState, Sw!Leave, Sw!Goto, Typed
    <3>2. QED BY <3>1 DEF Recording, Sw!RecordedOnce, Planning
  <2>11. ~Sw!Confirm(p) BY <1>2 DEF Sw!Confirm, Sw!Committing
  <2>12. QED BY <1>2, <2>5, <2>6, <2>7, <2>8, <2>9, <2>10, <2>11 DEF Sw!Commit
<1>3. ASSUME NEW p \in Sweeper, place[p] \in Sw!Committing, ~Sw!Commit(p),
             Acts(p)
      PROVE  Recording'
  <2>1. Sw!Stop(p)
    BY <1>3 DEF Acts, Sw!Step, Sw!Committing, Sw!Begin, Sw!Acquire, Sw!GiveUp, Sw!Reuse,
                Sw!SweepAnew, Sw!Clear, Sw!Read, Sw!Analyze, Sw!AcquireRepo
  <2>2. place'[p] = "idle" /\ UNCHANGED <<queue, requests, facts, merges>>
    BY <2>1 DEF Sw!Stop, Sw!Leave, Sw!Goto, Typed, Sw!fileVars
  <2>3. \A q \in Sweeper \ {p} : held' = q => held = q /\ place'[q] = place[q] /\ work'[q] = work[q]
    BY <1>3, OthersStay, LeaseMoves DEF Sw!Constants
  <2>4. \A q \in Sweeper \ {p} : held' # q BY <1>3, <2>3 DEF Locked
  <2>5. QED BY <2>2, <2>4 DEF Recording, Sw!RecordedOnce, Planning
<1>4. CASE Sw!DeskWrite
  <2>1. \A p \in Sweeper : place'[p] \notin Planning
    BY <1>4 DEF Sw!DeskWrite, Locked, Sw!Reading, Planning
  <2>2. /\ desk.rows = queue /\ desk.item \in Repo /\ queue[desk.item] # "none"
        /\ UNCHANGED <<requests, facts, merges>>
    BY <1>4 DEF Sw!DeskWrite, Locked, Typed
  <2>3. \A r \in Repo : queue'[r] # "none" => queue[r] # "none"
    BY <1>4, <2>2 DEF Sw!DeskWrite, Typed
  <2>4. QED BY <2>1, <2>2, <2>3 DEF Recording, Sw!RecordedOnce
<1>5. CASE Sw!Tick \/ (\E r \in Repo : Sw!Edit(r) \/ Sw!Shadow(r))
           \/ (\E r \in Repo, verb \in DOMAIN Sw!Verbs : Sw!DeskRead(r, verb))
                  \/ UNCHANGED Sw!sweepVars
  <2>1. UNCHANGED <<queue, requests, facts, merges, held, place, work>>
    BY <1>5 DEF Sw!Tick, Sw!Edit, Sw!Shadow, Sw!DeskRead, Sw!sweepVars, Sw!fileVars, Sw!deskVars
  <2>2. QED BY <2>1 DEF Recording, Sw!RecordedOnce, Records, Shown
<1>6. QED BY <1>1, <1>2, <1>3, <1>4, <1>5 DEF Acts, Sw!Next

(* Who writes the state and the snapshot.                                  *)
LEMMA FileMoves ==
  ASSUME Typed, NEW p \in Sweeper, Acts(p)
  PROVE  /\ UNCHANGED state \/ Sw!Clear(p) \/ Sw!WriteState(p)
         /\ UNCHANGED snapshot \/ Sw!WriteSnapshot(p)
         /\ UNCHANGED invalidated \/ Sw!Clear(p)
<1>1. CASE \E j \in Sw!Jobs : Sw!Begin(p, j[1], j[2]) BY <1>1 DEF Sw!Begin, Sw!fileVars
<1>2. CASE Sw!Acquire(p) \/ Sw!GiveUp(p) \/ Sw!Reuse(p) \/ Sw!SweepAnew(p) \/ Sw!Stop(p)
          \/ Sw!Read(p)
           \/ (\E r \in Repo : Sw!AcquireRepo(p, r)) \/ Sw!Analyze(p)
  BY <1>2 DEF Sw!Acquire, Sw!GiveUp, Sw!Reuse, Sw!SweepAnew, Sw!Stop, Sw!Read, Sw!AcquireRepo,
              Sw!Analyze, Sw!fileVars
<1>3. CASE Sw!Clear(p) BY <1>3 DEF Sw!Clear
<1>4. CASE Sw!Commit(p)
  BY <1>4 DEF Sw!Commit, Sw!Confirm, Sw!EmitEvent, Sw!AppendFact, Sw!Emitted, Sw!AppendMerge,
              Sw!WriteQueue, Sw!WriteSnapshot, Sw!WriteState, Sw!fileVars
<1>5. QED BY <1>1, <1>2, <1>3, <1>4 DEF Acts, Sw!Step

(* A sweeper keeps its job, but that it sweeps anew.                       *)
LEMMA JobMoves ==
  ASSUME Sw!Constants, Typed, NEW p \in Sweeper, Acts(p),
         place'[p] # "idle"
  PROVE  \/ job'[p] = job[p] /\ place[p] # "idle"
         \/ (\E j \in Sw!Jobs : Sw!Begin(p, j[1], j[2])) /\ job'[p].started = clock
         \/ Sw!SweepAnew(p) /\ job[p] \in JobOf /\ job'[p].started = job[p].started
                         /\ job'[p].repos = job[p].repos /\ job'[p].kind = "full"
         \/ Sw!Analyze(p) /\ ~Sw!Leave(p) /\ job'[p] = Sw!Job("sweep", {}, 0, 0)
<1>1. Sw!Leave(p) => place'[p] = "idle" BY DEF Sw!Leave, Sw!Goto, Typed
<1>2. CASE \E j \in Sw!Jobs : Sw!Begin(p, j[1], j[2]) BY <1>2 DEF Sw!Begin, Sw!Job, Typed
<1>3. CASE Sw!SweepAnew(p)
  <2>1. job[p] \in JobOf BY <1>3 DEF Sw!SweepAnew, Typed, WorkTyped
  <2>2. QED BY <1>3, <2>1 DEF Sw!SweepAnew, JobOf, Typed
<1>4. CASE Sw!Analyze(p) BY <1>1, <1>4 DEF Sw!Analyze, Typed
<1>5. CASE Sw!Acquire(p) \/ Sw!GiveUp(p) \/ Sw!Reuse(p) \/ Sw!Clear(p) \/ Sw!Stop(p) \/ Sw!Read(p)
           \/ (\E r \in Repo : Sw!AcquireRepo(p, r))
  BY <1>1, <1>5 DEF Sw!Acquire, Sw!GiveUp, Sw!Reuse, Sw!Clear, Sw!Stop, Sw!Read, Sw!AcquireRepo,
                    Sw!Goto, Typed
<1>6. CASE Sw!Commit(p)
  BY <1>1, <1>6 DEF Sw!Commit, Sw!Confirm, Sw!EmitEvent, Sw!AppendFact, Sw!Emitted, Sw!AppendMerge,
                    Sw!WriteQueue, Sw!WriteSnapshot, Sw!WriteState
<1>7. QED BY <1>2, <1>3, <1>4, <1>5, <1>6 DEF Acts, Sw!Step

(* What a sweep has in hand when it plans is no older than its generation. *)
LEMMA AnalyzeDated ==
  ASSUME Sw!Constants, Typed, Drafted, Timed, NEW p \in Sweeper, Sw!Analyze(p), ~Sw!Leave(p)
  PROVE  TimedBy(p)'
<1>1. /\ work[p] \in Draft /\ place[p] = "acquire" /\ Sw!CanCarry(p) /\ job[p] \in JobOf
      /\ work'[p].state.gen = Sw!GenerationOf(p)
      /\ work'[p].mirror.gen = Sw!GenerationOf(p) /\ work'[p].mirror.repos = MirrorBy(p)
      /\ place'[p] = "confirm" /\ UNCHANGED clock
  BY AnalyzePlans DEF Typed, WorkTyped
<1>2. TimedBy(p) BY DEF Timed, TimedBy
<1>3. /\ job[p].started \in Nat /\ clock \in Nat
      /\ work[p].old.gen # None => work[p].old.gen \in [id : Time, completed : Time]
      /\ \A r \in Repo : work[p].got[r] # None => work[p].got[r].at \in Nat
  BY <1>1 DEF JobOf, Draft, States, Generated, Got, Time, Typed
<1>4. Sw!GenerationOf(p) # None /\ Sw!GenerationOf(p).completed <= clock
  <2>1. CASE Sw!Carried(p) = {}
    BY <1>1, <1>2, <1>3, <2>1 DEF Sw!GenerationOf, Sw!Gen, TimedBy, Sw!Constants
  <2>2. CASE Sw!Carried(p) # {}
    BY <1>1, <1>2, <1>3, <2>2 DEF Sw!GenerationOf, Sw!Gen, TimedBy, Sw!CanCarry, Sw!Constants, Time
  <2>3. QED BY <2>1, <2>2
<1>5. ASSUME NEW r \in Repo, MirrorBy(p)[r] # None
      PROVE  Sw!GenerationOf(p).completed <= MirrorBy(p)[r].at
  <2>1. CASE r \in Sw!Carried(p)
    <3>1. /\ work[p].old.gen # None /\ snapshot.gen = work[p].old.gen
          /\ MirrorBy(p)[r] = snapshot.repos[r]
          /\ Sw!GenerationOf(p).completed = work[p].old.gen.completed
      BY <1>1, <2>1 DEF Sw!CanCarry, Sw!GenerationOf, Sw!Gen, MirrorBy
    <3>2. QED BY <1>5, <3>1 DEF Timed, TimedBy, Dated
  <2>2. CASE r \notin Sw!Carried(p)
    <3>1. work[p].got[r] # None /\ MirrorBy(p)[r].at = work[p].got[r].at
      BY <1>5, <2>2 DEF MirrorBy
    <3>2. CASE Sw!Carried(p) = {} BY <1>1, <1>2, <3>1, <3>2 DEF Sw!GenerationOf, Sw!Gen, TimedBy
    <3>3. CASE Sw!Carried(p) # {}
      BY <1>1, <1>2, <3>1, <3>3 DEF Sw!GenerationOf, Sw!Gen, TimedBy, Sw!CanCarry
    <3>4. QED BY <3>2, <3>3
  <2>3. QED BY <2>1, <2>2
<1>6. job'[p].started = 0 BY DEF Sw!Analyze, Sw!Job, Typed
<1>7. Dated(work[p].mirror.gen, work[p].mirror.repos)' BY <1>1, <1>4, <1>5 DEF Dated
<1>8. QED BY <1>1, <1>3, <1>4, <1>6, <1>7 DEF TimedBy, Planning

(* No step makes a generation younger than what it has.                    *)
LEMMA TimedStep ==
  ASSUME Sw!Constants, Typed, Drafted, Timed, [Sw!Next]_(Sw!sweepVars)
  PROVE  Timed'
<1>1. clock \in Nat /\ clock' \in Nat /\ clock <= clock'
  BY TypedStep, WorldMoves DEF Typed, Time, Sw!Constants
<1>2. ASSUME NEW q \in Sweeper, place'[q] = place[q], job'[q] = job[q], work'[q] = work[q]
      PROVE  TimedBy(q)'
  <2>1. /\ place[q] # "idle" => job[q].started \in Nat
        /\ place[q] = "acquire" /\ work[q].old.gen # None => work[q].old.gen.completed \in Nat
        /\ place[q] \in Planning \cup {"snapshot", "state"} /\ work[q].state.gen # None =>
              work[q].state.gen.completed \in Nat
    BY DEF Typed, WorkTyped, JobOf, Draft, Plan, States, Generated, Time
  <2>2. TimedBy(q) BY DEF Timed, TimedBy
  <2>3. QED BY <1>1, <1>2, <2>1, <2>2 DEF TimedBy, Dated
<1>3. ASSUME NEW p \in Sweeper, Acts(p)
      PROVE  Timed'
  <2>1. TimedBy(p) BY DEF Timed, TimedBy
  <2>2. (place[p] # "idle" => job[p] \in JobOf) /\ (place[p] = "acquire" => work[p] \in Draft)
    BY DEF Typed, WorkTyped
  <2>3. state'.gen # None => state'.gen.completed <= clock'
    <3>1. CASE UNCHANGED state
      BY <1>1, <3>1 DEF Timed, TimedBy, Typed, States, Generated, Time
    <3>2. CASE Sw!Clear(p) BY <3>2 DEF Sw!Clear, Typed, States
    <3>3. CASE Sw!WriteState(p)
      <4>1. state' = work[p].state /\ place[p] = "state" /\ UNCHANGED clock
        BY <3>3 DEF Sw!WriteState
      <4>2. QED BY <2>1, <4>1 DEF TimedBy
    <3>4. QED BY <1>3, <3>1, <3>2, <3>3, FileMoves
  <2>4. Dated(snapshot.gen, snapshot.repos)'
    <3>1. CASE UNCHANGED snapshot BY <3>1 DEF Timed, TimedBy, Dated
    <3>2. CASE Sw!WriteSnapshot(p)
      BY <2>1, <3>2, PlanWritten DEF TimedBy, Dated
    <3>3. QED BY <1>3, <3>1, <3>2, FileMoves
  <2>5. TimedBy(p)'
    <3>1. place'[p] # "idle" => job'[p].started <= clock'
      <4> SUFFICES ASSUME place'[p] # "idle" PROVE job'[p].started <= clock' OBVIOUS
      <4>1. place[p] # "idle" => job[p].started \in Nat /\ job[p].started <= clock
        BY <2>1, <2>2 DEF TimedBy, JobOf, Time
      <4>2. CASE job'[p].started = clock BY <1>1, <4>2
      <4>3. CASE place[p] # "idle" /\ job'[p].started = job[p].started BY <1>1, <4>1, <4>3
      <4>4. CASE job'[p] = Sw!Job("sweep", {}, 0, 0) BY <1>1, <4>4 DEF Sw!Job
      <4>5. Sw!SweepAnew(p) => place[p] # "idle" BY DEF Sw!SweepAnew
      <4>6. QED BY <1>3, <4>2, <4>3, <4>4, <4>5, JobMoves
    <3>2. CASE place'[p] = "acquire"
      <4>1. CASE Sw!Read(p) /\ ~Sw!Leave(p)
        <5>1. work'[p].old = state /\ (\A r \in Repo : work'[p].got[r] = None) /\ UNCHANGED clock
          BY <4>1 DEF Sw!Read, Typed
        <5>2. QED BY <3>1, <3>2, <5>1 DEF TimedBy, Timed, Planning
      <4>2. ASSUME NEW r \in Repo, Sw!AcquireRepo(p, r) PROVE TimedBy(p)'
        <5>1. place[p] = "acquire" /\ work[p] \in Draft /\ UNCHANGED <<job, clock>>
          BY <2>2, <4>2 DEF Sw!AcquireRepo
        <5>2. /\ work'[p].old = work[p].old
              /\ \/ work'[p].got = work[p].got
                 \/ work'[p].got = [work[p].got EXCEPT ![r] =
                       [rev |-> forge[r].rev, merged |-> forge[r].merged,
                        shadowed |-> forge[r].shadowed, at |-> clock]]
          BY <4>2, <5>1 DEF Sw!AcquireRepo, Typed, Draft
        <5>3. \A x \in Repo : work'[p].got[x] = work[p].got[x] \/ work'[p].got[x].at = clock
          BY <5>1, <5>2 DEF Draft
        <5>4. QED BY <2>1, <3>1, <3>2, <5>1, <5>2, <5>3 DEF TimedBy, Planning
      <4>3. QED BY <1>3, <3>2, <4>1, <4>2, WorkMoves
    <3>3. CASE place'[p] \in Planning
      <4>1. CASE Sw!Analyze(p) /\ ~Sw!Leave(p) BY <4>1, AnalyzeDated
      <4>2. CASE Sw!Commit(p)
        <5>1. /\ place[p] \in Planning /\ work'[p].state = work[p].state
              /\ work'[p].mirror = work[p].mirror /\ work[p] \in Plan
          BY <3>3, <4>2, PlanStays
        <5>2. work[p].state.gen # None => work[p].state.gen.completed \in Nat
          BY <5>1 DEF Plan, States, Generated, Time
        <5>3. QED BY <1>1, <2>1, <3>1, <3>3, <5>1, <5>2 DEF TimedBy, Planning, Dated
      <4>3. QED BY <1>3, <3>3, <4>1, <4>2, WorkMoves
    <3>4. CASE place'[p] \in {"snapshot", "state"}
      <4>1. CASE Sw!WriteQueue(p)
        BY <2>1, <3>1, <4>1, PlanWritten DEF TimedBy, Planning, Dated
      <4>2. CASE Sw!WriteSnapshot(p)
        BY <2>1, <3>1, <4>2, PlanWritten DEF TimedBy, Planning, Dated
      <4>3. QED BY <1>3, <3>4, <4>1, <4>2, WorkMoves
    <3>5. QED BY <3>1, <3>2, <3>3, <3>4 DEF TimedBy
  <2>6. \A q \in Sweeper : TimedBy(q)' BY <1>2, <1>3, <2>5, OthersStay
  <2>7. QED BY <2>3, <2>4, <2>6 DEF Timed, TimedBy
<1>4. CASE UNCHANGED <<place, job, work, state, snapshot>>
  <2>1. \A q \in Sweeper : TimedBy(q)' BY <1>2, <1>4
  <2>2. state.gen # None => state.gen.completed <= clock'
    BY <1>1 DEF Timed, TimedBy, Typed, States, Generated, Time
  <2>3. QED BY <1>4, <2>1, <2>2 DEF Timed, TimedBy, Dated
<1>5. QED
  BY <1>3, <1>4 DEF Acts, Sw!Next, Sw!Tick, Sw!Edit, Sw!Shadow, Sw!DeskRead, Sw!DeskWrite,
                    Sw!sweepVars, Sw!fileVars, Sw!deskVars

(* A repair waits, or clears, with what it has made of its repository; the *)
(* others have repositories to acquire.                                    *)

(* No step lets a repair get ahead of its repository.                      *)
LEMMA RepairsStep ==
  ASSUME Sw!Constants, Typed, Repairs, [Sw!Next]_(Sw!sweepVars)
  PROVE  Repairs'
<1>1. \A r \in Repo : /\ forge[r].rev \in Nat /\ forge'[r].rev \in Nat
                      /\ forge[r].rev <= forge'[r].rev /\ invalidated[r] \in Nat
  BY TypedStep, WorldMoves DEF Moves, Typed, Items, Rev, Sw!Constants
<1>2. ASSUME NEW q \in Sweeper PROVE place[q] # "idle" => job[q] \in JobOf
  BY DEF Typed, WorkTyped
<1>3. ASSUME NEW q \in Sweeper, place'[q] = place[q], job'[q] = job[q] PROVE RepairsBy(q)'
  <2>1. RepairsBy(q) BY DEF Repairs, RepairsBy
  <2>2. QED BY <1>1, <1>2, <1>3, <2>1 DEF RepairsBy, JobOf
<1>4. ASSUME NEW p \in Sweeper, Acts(p)
      PROVE  Repairs'
  <2>1. RepairsBy(p) BY DEF Repairs, RepairsBy
  <2>2. \A r \in Repo : invalidated'[r] <= forge'[r].rev
    <3>1. CASE UNCHANGED invalidated BY <1>1, <3>1 DEF Repairs, RepairsBy
    <3>2. CASE Sw!Clear(p)
      <4>1. job[p].kind = "repair" /\ job[p] \in JobOf BY <1>2, <2>1, <3>2 DEF Sw!Clear, RepairsBy
      <4>2. \A r \in Repo : invalidated'[r] = invalidated[r]
                                \/ (r \in job[p].repos /\ invalidated'[r] = job[p].made)
        BY <3>2 DEF Sw!Clear
      <4>3. \A r \in job[p].repos : job[p].made <= forge[r].rev
        BY <2>1, <3>2, <4>1 DEF Sw!Clear, RepairsBy
      <4>4. UNCHANGED forge BY <3>2 DEF Sw!Clear
      <4>5. QED BY <4>2, <4>3, <4>4 DEF Repairs, RepairsBy
    <3>3. QED BY <1>4, <3>1, <3>2, FileMoves
  <2>3. RepairsBy(p)'
    <3>1. CASE place'[p] = "idle" BY <3>1 DEF RepairsBy
    <3>2. ASSUME NEW j \in Sw!Jobs, Sw!Begin(p, j[1], j[2]) PROVE RepairsBy(p)'
      <4>1. place'[p] = "wait" BY <3>2 DEF Sw!Begin, Sw!Goto, Typed
      <4>2. j[2] \subseteq Repo /\ (j[2] # {} \/ Repo = {}) BY DEF Sw!Jobs
      <4>3. job'[p].kind = j[1] /\ job'[p].repos = j[2] BY <3>2 DEF Sw!Begin, Sw!Job, Typed
      <4>4. ASSUME j[1] = "repair" PROVE \A r \in j[2] : job'[p].made <= forge'[r].rev
        <5>1. \E x \in Repo : j[2] = {x} BY <4>4 DEF Sw!Jobs
        <5>2. PICK x \in Repo : /\ j[2] = {x} /\ job'[p].made = forge[x].rev + 1
                                /\ forge' = [forge EXCEPT ![x].rev = @ + 1]
          BY <3>2, <4>4, <5>1 DEF Sw!Begin, Sw!Job, Typed
        <5>3. forge'[x].rev = forge[x].rev + 1 BY <5>2 DEF Typed, Items
        <5>4. QED BY <1>1, <5>2, <5>3
      <4>5. QED BY <4>1, <4>2, <4>3, <4>4 DEF RepairsBy
    <3>3. CASE Sw!SweepAnew(p)
      <4>1. place[p] = "decide" /\ place'[p] = "read" BY <3>3 DEF Sw!SweepAnew, Sw!Goto, Typed
      <4>2. job'[p].kind = "full" /\ job'[p].repos = job[p].repos
        BY <1>2, <3>3, <4>1 DEF Sw!SweepAnew, JobOf, Typed
      <4>3. QED BY <2>1, <4>1, <4>2 DEF RepairsBy
    <3>4. CASE Sw!Analyze(p) /\ ~Sw!Leave(p)
      <4>1. place'[p] = "confirm" BY <3>4, AnalyzePlans
      <4>2. job'[p].kind = "sweep" BY <3>4 DEF Sw!Analyze, Sw!Job, Typed
      <4>3. QED BY <4>1, <4>2 DEF RepairsBy
    <3>5. CASE place'[p] # "idle" /\ place[p] # "idle" /\ job'[p] = job[p]
      <4>1. place'[p] = "clear" => place[p] = "clear" \/ job[p].kind = "repair"
        <5>1. CASE Sw!Acquire(p)
          BY <5>1 DEF Sw!Acquire, Sw!Goto, Typed
        <5>2. CASE ~Sw!Acquire(p)
          BY <1>4, <5>2 DEF Acts, Sw!Step, Sw!Begin, Sw!GiveUp, Sw!Reuse, Sw!SweepAnew, Sw!Clear,
                            Sw!Stop, Sw!Read, Sw!Analyze, Sw!AcquireRepo, Sw!Commit, Sw!Confirm,
                                Sw!EmitEvent, Sw!AppendFact, Sw!Emitted, Sw!AppendMerge,
                                    Sw!WriteQueue, Sw!WriteSnapshot, Sw!WriteState, Sw!Leave,
                                        Sw!Goto, Typed
        <5>3. QED BY <5>1, <5>2
      <4>2. place'[p] \in {"wait", "decide", "read", "acquire"}
                => place[p] \in {"wait", "decide", "read", "acquire"}
        <5>1. CASE Sw!Acquire(p) BY <5>1 DEF Sw!Acquire
        <5>2. CASE Sw!Commit(p)
          BY <5>2 DEF Sw!Commit, Sw!Confirm, Sw!EmitEvent, Sw!AppendFact, Sw!Emitted,
                      Sw!AppendMerge, Sw!WriteQueue, Sw!WriteSnapshot, Sw!WriteState, Sw!Leave,
                          Sw!Goto, Typed
        <5>3. CASE ~Sw!Acquire(p) /\ ~Sw!Commit(p)
          BY <1>4, <3>5, <5>3 DEF Acts, Sw!Step, Sw!Begin, Sw!GiveUp, Sw!Reuse, Sw!SweepAnew,
                                  Sw!Clear, Sw!Stop, Sw!Read, Sw!Analyze, Sw!AcquireRepo,
                                      Sw!Leave, Sw!Goto, Typed
        <5>4. QED BY <5>1, <5>2, <5>3
      <4>3. QED BY <1>1, <1>2, <2>1, <3>5, <4>1, <4>2 DEF RepairsBy, JobOf
    <3>6. QED BY <1>4, <3>1, <3>2, <3>3, <3>4, <3>5, JobMoves
  <2>4. \A q \in Sweeper : RepairsBy(q)' BY <1>3, <1>4, <2>3, OthersStay
  <2>5. QED BY <2>2, <2>4 DEF Repairs, RepairsBy
<1>5. CASE UNCHANGED <<place, job, invalidated>>
  <2>1. \A q \in Sweeper : RepairsBy(q)' BY <1>3, <1>5
  <2>2. \A r \in Repo : invalidated[r] <= forge'[r].rev BY <1>1 DEF Repairs, RepairsBy
  <2>3. QED BY <1>5, <2>1, <2>2 DEF Repairs, RepairsBy
<1>6. QED
  BY <1>4, <1>5 DEF Acts, Sw!Next, Sw!Tick, Sw!Edit, Sw!Shadow, Sw!DeskRead, Sw!DeskWrite,
                    Sw!sweepVars, Sw!fileVars, Sw!deskVars

(* One repository, or a lease that is still its own when a repair clears.  *)
OneRepo == \A r, x \in Repo : r = x
ClearHolds == \A p \in Sweeper : place[p] = "clear" => held = p

(* Who comes to clear has just acquired the lease; who was there has the   *)
(* job it had.                                                             *)
LEMMA ClearMoves ==
  ASSUME Typed, NEW p \in Sweeper, Acts(p),
         place'[p] = "clear"
  PROVE  Sw!Acquire(p) /\ held' = p
<1> USE DEF Sw!Goto
<1>1. CASE Sw!Acquire(p) BY <1>1 DEF Sw!Acquire
<1>2. CASE \E j \in Sw!Jobs : Sw!Begin(p, j[1], j[2]) BY <1>2 DEF Sw!Begin, Typed
<1>3. CASE Sw!GiveUp(p) \/ Sw!Reuse(p) \/ Sw!SweepAnew(p) \/ Sw!Clear(p) \/ Sw!Stop(p) \/ Sw!Read(p)
  BY <1>3 DEF Sw!GiveUp, Sw!Reuse, Sw!SweepAnew, Sw!Clear, Sw!Stop, Sw!Read, Sw!Leave, Typed
<1>4. CASE (\E r \in Repo : Sw!AcquireRepo(p, r)) \/ Sw!Analyze(p)
  BY <1>4 DEF Sw!AcquireRepo, Sw!Analyze, Sw!Leave, Typed
<1>5. CASE Sw!Commit(p)
  BY <1>5 DEF Sw!Commit, Sw!Confirm, Sw!EmitEvent, Sw!AppendFact, Sw!Emitted, Sw!AppendMerge,
              Sw!WriteQueue, Sw!WriteSnapshot, Sw!WriteState, Sw!Leave, Typed
<1>6. QED BY <1>1, <1>2, <1>3, <1>4, <1>5 DEF Acts, Sw!Step

(* Where there is one repository a sweep that acquires carries none.       *)
LEMMA CarriesNone ==
  ASSUME Typed, Repairs, OneRepo, NEW p \in Sweeper, place[p] = "acquire"
  PROVE  Sw!Carried(p) = {}
<1>1. job[p].repos \subseteq Repo BY DEF Typed, WorkTyped, JobOf
<1>2. job[p].repos # {} \/ Repo = {} BY DEF Repairs, RepairsBy
<1>3. QED BY <1>1, <1>2 DEF OneRepo, Sw!Carried

(* A sweep that carries repositories has read the state that is there.     *)
LEMMA CarriesStep ==
  ASSUME Sw!Constants, Window = FALSE, Crosses = FALSE, Typed, Locked, Drafted, Repairs, Carries,
         OneRepo \/ ClearHolds, [Sw!Next]_(Sw!sweepVars)
  PROVE  Carries'
<1>1. ASSUME NEW p \in Sweeper, Acts(p)
      PROVE  Carries'
  <2>1. ASSUME NEW q \in Sweeper, place'[q] = "acquire", held' = q
        PROVE  Sw!Carried(q)' = {} \/ work'[q].old.gen = state'.gen
    <3>1. CASE q # p
      <4>1. place'[q] = place[q] /\ job'[q] = job[q] /\ work'[q] = work[q] BY <1>1, <3>1, OthersStay
      <4>2. held = q BY <1>1, <2>1, <3>1, LeaseMoves DEF Sw!Constants
      <4>3. Sw!Carried(q)' = Sw!Carried(q) BY <4>1 DEF Sw!Carried
      <4>4. CASE OneRepo BY <2>1, <4>1, <4>3, <4>4, CarriesNone
      <4>5. CASE ClearHolds
        <5>1. ~Sw!Clear(p) BY <3>1, <4>2, <4>5 DEF Sw!Clear, ClearHolds
        <5>2. ~Sw!WriteState(p) BY <3>1, <4>2 DEF Sw!WriteState, Locked, Sw!Committing
        <5>3. UNCHANGED state BY <1>1, <5>1, <5>2, FileMoves
        <5>4. QED BY <2>1, <4>1, <4>2, <4>3, <5>3 DEF Carries
      <4>6. QED BY <4>4, <4>5
    <3>2. CASE q = p /\ Sw!Read(p) /\ ~Sw!Leave(p)
      BY <3>2 DEF Sw!Read, Typed, Sw!fileVars
    <3>3. ASSUME q = p, NEW r \in Repo, Sw!AcquireRepo(p, r)
          PROVE  Sw!Carried(q)' = {} \/ work'[q].old.gen = state'.gen
      <4>1. place[p] = "acquire" /\ UNCHANGED <<held, job, state>> /\ work[p] \in Draft
        BY <3>3 DEF Sw!AcquireRepo, Sw!fileVars, Typed, WorkTyped
      <4>2. work'[p].old = work[p].old BY <3>3, <4>1 DEF Sw!AcquireRepo, Typed, Draft
      <4>3. QED BY <2>1, <3>3, <4>1, <4>2 DEF Carries, Sw!Carried
    <3>4. QED BY <1>1, <2>1, <3>1, <3>2, <3>3, WorkMoves
  <2>2. QED BY <2>1 DEF Carries
<1>2. CASE UNCHANGED <<place, job, work, held, state>> BY <1>2 DEF Carries, Sw!Carried
<1>3. QED
  BY <1>1, <1>2 DEF Acts, Sw!Next, Sw!Tick, Sw!Edit, Sw!Shadow, Sw!DeskRead, Sw!DeskWrite,
                    Sw!sweepVars, Sw!fileVars, Sw!deskVars

(* What a sweep has stays behind no repair: who comes to clear takes the   *)
(* lease, and one that clears was already to.                              *)
LEMMA BehindStays ==
  ASSUME Sw!Constants, Typed, NEW p \in Sweeper, Acts(p),
         NEW q \in Sweeper, held' = q, q = p => ~Sw!Acquire(p) /\ place[p] # "clear",
         NEW r \in Repo, NEW rev \in Rev, Behind(q, rev, r)
  PROVE  /\ invalidated'[r] <= rev
         /\ \A x \in Sweeper \ {q} :
               place'[x] = "clear" /\ r \in job'[x].repos => job'[x].made <= rev
<1>1. \A x \in Sweeper \ {p} : place'[x] = place[x] /\ job'[x] = job[x] BY OthersStay
<1>2. place'[p] = "clear" => q = p BY ClearMoves
<1>3. invalidated'[r] <= rev
  <2>1. CASE UNCHANGED invalidated BY <2>1 DEF Behind
  <2>2. CASE Sw!Clear(p)
    <3>1. place[p] = "clear" BY <2>2 DEF Sw!Clear
    <3>2. invalidated'[r] = invalidated[r]
            \/ (r \in job[p].repos /\ invalidated'[r] = job[p].made)
      BY <2>2 DEF Sw!Clear
    <3>3. QED BY <3>1, <3>2 DEF Behind
  <2>3. QED BY <2>1, <2>2, FileMoves
<1>4. QED BY <1>1, <1>2, <1>3 DEF Behind

(* What a repository was acquired at is behind no repair.                  *)
LEMMA AcquiredRecent ==
  ASSUME Sw!Constants, Typed, Repairs, NEW p \in Sweeper, NEW r \in Repo
  PROVE  Behind(p, forge[r].rev, r)
BY DEF Repairs, RepairsBy, Behind, Typed, Labels

(* What a sweep plans for a snapshot is behind no repair: what it acquired *)
(* is not, and what it carries is from a generation that still stood.      *)
LEMMA AnalyzeRecent ==
  ASSUME Sw!Constants, Typed, Repairs, Carries, Recent, OneRepo \/ ClearHolds,
         NEW p \in Sweeper, Sw!Analyze(p), ~Sw!Leave(p), held = p, NEW r \in Repo,
         MirrorBy(p)[r] # None
  PROVE  Behind(p, MirrorBy(p)[r].rev, r)
<1>1. place[p] = "acquire" /\ Sw!CanCarry(p) /\ work[p] \in Draft BY AnalyzePlans
<1>2. CASE r \in Sw!Carried(p)
  <2>1. work[p].old.gen # None /\ snapshot.gen = work[p].old.gen
            /\ MirrorBy(p)[r] = snapshot.repos[r]
    BY <1>1, <1>2 DEF Sw!CanCarry, MirrorBy
  <2>2. work[p].old.gen = state.gen BY <1>1, <1>2 DEF Carries
  <2>3. invalidated[r] <= snapshot.repos[r].rev BY <2>1, <2>2 DEF Recent, RecentBy, Sw!Matched
  <2>4. ClearHolds BY <1>1, <1>2, CarriesNone
  <2>5. QED BY <2>1, <2>3, <2>4 DEF ClearHolds, Behind
<1>3. CASE r \notin Sw!Carried(p)
  <2>1. work[p].got[r] # None /\ MirrorBy(p)[r].rev = work[p].got[r].rev
    BY <1>3 DEF MirrorBy
  <2>2. QED BY <1>1, <2>1 DEF Recent, RecentBy
<1>4. QED BY <1>2, <1>3

(* No sweep, and no snapshot with its state, is behind a repair.           *)
LEMMA RecentStep ==
  ASSUME Sw!Constants, Window = FALSE, Crosses = FALSE, Typed, Locked, Drafted, Repairs, Carries,
         Recent, OneRepo \/ ClearHolds, [Sw!Next]_(Sw!sweepVars)
  PROVE  Recent'
<1>1. ASSUME NEW p \in Sweeper, Acts(p)
      PROVE  Recent'
  <2>1. Sw!Matched' => \A r \in Repo : snapshot'.repos[r] # None =>
            invalidated'[r] <= snapshot'.repos[r].rev
    <3>1. CASE Sw!Clear(p)
      BY <3>1 DEF Sw!Clear, Typed, States, Sw!Matched
    <3>2. CASE Sw!WriteSnapshot(p)
      <4>1. /\ place[p] = "snapshot" /\ snapshot' = work[p].mirror /\ held = p
            /\ UNCHANGED invalidated
        BY <3>2, PlanWritten DEF Locked, Sw!Committing
      <4>2. QED BY <4>1 DEF Recent, RecentBy, Behind
    <3>3. CASE Sw!WriteState(p)
      <4>1. place[p] = "state" /\ held = p /\ UNCHANGED <<snapshot, invalidated>>
        BY <3>3 DEF Sw!WriteState, Locked, Sw!Committing
      <4>2. QED BY <4>1 DEF Recent, RecentBy, Behind
    <3>4. CASE UNCHANGED <<snapshot, state, invalidated>> BY <3>4 DEF Recent, RecentBy, Sw!Matched
    <3>5. QED BY <1>1, <3>1, <3>2, <3>3, <3>4, FileMoves
  <2>2. ASSUME NEW q \in Sweeper, q # p PROVE RecentBy(q)'
    <3> SUFFICES ASSUME held' = q PROVE RecentBy(q)' BY DEF RecentBy
    <3>1. place'[q] = place[q] /\ job'[q] = job[q] /\ work'[q] = work[q] BY <1>1, <2>2, OthersStay
    <3>2. held = q BY <1>1, <2>2, LeaseMoves DEF Sw!Constants
    <3>3. place[q] = "state" => UNCHANGED snapshot
      <4>1. ~Sw!WriteSnapshot(p) BY <2>2, <3>2 DEF Sw!WriteSnapshot, Locked, Sw!Committing
      <4>2. QED BY <1>1, <4>1, FileMoves
    <3>4. ASSUME NEW r \in Repo, NEW rev \in Rev, Behind(q, rev, r)
          PROVE  /\ invalidated'[r] <= rev
                 /\ \A x \in Sweeper \ {q} :
                       place'[x] = "clear" /\ r \in job'[x].repos => job'[x].made <= rev
      BY <1>1, <2>2, <3>4, BehindStays
    <3>5. ASSUME NEW r \in Repo, place[q] = "acquire", work[q].got[r] # None
          PROVE  Behind(q, work[q].got[r].rev, r)'
      <4>1. PICK rev \in Rev : rev = work[q].got[r].rev
        BY <3>5 DEF Typed, WorkTyped, Draft, Got
      <4>2. Behind(q, rev, r) BY <3>2, <3>5, <4>1 DEF Recent, RecentBy
      <4>3. QED BY <3>1, <3>4, <4>1, <4>2 DEF Behind
    <3>6. ASSUME NEW r \in Repo, place[q] \in Planning \cup {"snapshot"},
                 work[q].mirror.repos[r] # None
          PROVE  Behind(q, work[q].mirror.repos[r].rev, r)'
      <4>1. work[q].mirror \in Snapshots BY <3>6 DEF Typed, WorkTyped, Plan
      <4>2. PICK rev \in Rev : rev = work[q].mirror.repos[r].rev
        BY <3>6, <4>1 DEF Snapshots, Mirrored
      <4>3. Behind(q, rev, r) BY <3>2, <3>6, <4>2 DEF Recent, RecentBy
      <4>4. QED BY <3>1, <3>4, <4>2, <4>3 DEF Behind
    <3>7. ASSUME NEW r \in Repo, place[q] = "state", snapshot.repos[r] # None
          PROVE  Behind(q, snapshot.repos[r].rev, r)'
      <4>1. PICK rev \in Rev : rev = snapshot.repos[r].rev
        BY <3>7 DEF Typed, Snapshots, Mirrored
      <4>2. Behind(q, rev, r) BY <3>2, <3>7, <4>1 DEF Recent, RecentBy
      <4>3. QED BY <3>3, <3>4, <3>7, <4>1, <4>2 DEF Behind
    <3>8. QED BY <3>1, <3>3, <3>5, <3>6, <3>7 DEF RecentBy, Planning
  <2>3. RecentBy(p)'
    <3> SUFFICES ASSUME held' = p PROVE RecentBy(p)' BY DEF RecentBy
    <3>1. CASE place'[p] \in {"idle", "wait", "decide", "clear", "read"}
      BY <3>1 DEF RecentBy, Planning
    <3> SUFFICES ASSUME place'[p] \notin {"idle", "wait", "decide", "clear", "read"}
                 PROVE  RecentBy(p)'
      BY <3>1
    <3>2. held = p /\ ~Sw!Acquire(p)
      BY <1>1, LeaseMoves DEF Sw!Acquire, Sw!Goto, Typed
    <3>3. place[p] # "clear"
      BY <1>1, <3>2 DEF Acts, Sw!Step, Sw!Begin, Sw!GiveUp, Sw!Reuse, Sw!SweepAnew, Sw!Clear,
                        Sw!Stop, Sw!Read, Sw!Analyze, Sw!AcquireRepo, Sw!Commit, Sw!Confirm,
                            Sw!EmitEvent, Sw!AppendFact, Sw!Emitted, Sw!AppendMerge,
                                Sw!WriteQueue, Sw!WriteSnapshot, Sw!WriteState, Sw!Leave,
                                    Sw!Goto, Typed
    <3>4. ASSUME NEW r \in Repo, NEW rev \in Rev, Behind(p, rev, r)
          PROVE  /\ invalidated'[r] <= rev
                 /\ \A x \in Sweeper \ {p} :
                       place'[x] = "clear" /\ r \in job'[x].repos => job'[x].made <= rev
      BY <1>1, <3>2, <3>3, <3>4, BehindStays
    <3>5. CASE place'[p] = "acquire"
      <4> SUFFICES ASSUME NEW r \in Repo, work'[p].got[r] # None
                   PROVE  Behind(p, work[p].got[r].rev, r)'
        BY <3>5 DEF RecentBy, Planning
      <4>1. CASE Sw!Read(p) /\ ~Sw!Leave(p) BY <4>1 DEF Sw!Read, Typed
      <4>2. ASSUME NEW x \in Repo, Sw!AcquireRepo(p, x)
            PROVE  Behind(p, work[p].got[r].rev, r)'
        <5>1. place[p] = "acquire" /\ work[p] \in Draft BY <4>2 DEF Sw!AcquireRepo, Typed, WorkTyped
        <5>2. \/ work'[p].got = work[p].got
              \/ work'[p].got = [work[p].got EXCEPT ![x] =
                     [rev |-> forge[x].rev, merged |-> forge[x].merged,
                      shadowed |-> forge[x].shadowed, at |-> clock]]
          BY <4>2, <5>1 DEF Sw!AcquireRepo, Typed, Draft
        <5>3. work'[p].got[r] = work[p].got[r] \/ work'[p].got[r].rev = forge[r].rev
          BY <5>1, <5>2 DEF Draft
        <5>4. PICK rev \in Rev : rev = work'[p].got[r].rev /\ Behind(p, rev, r)
          <6>1. CASE work'[p].got[r] = work[p].got[r]
            <7>1. Behind(p, work[p].got[r].rev, r) BY <3>2, <5>1, <6>1 DEF Recent, RecentBy
            <7>2. work[p].got[r].rev \in Rev BY <5>1, <6>1 DEF Draft, Got
            <7>3. QED BY <6>1, <7>1, <7>2
          <6>2. CASE work'[p].got[r].rev = forge[r].rev
            BY <6>2, AcquiredRecent DEF Typed, Items
          <6>3. QED BY <5>3, <6>1, <6>2
        <5>5. QED BY <3>4, <5>4 DEF Behind
      <4>3. QED BY <1>1, <3>5, <4>1, <4>2, WorkMoves
    <3>6. CASE place'[p] \in Planning \cup {"snapshot"}
      <4> SUFFICES ASSUME NEW r \in Repo, work'[p].mirror.repos[r] # None
                   PROVE  Behind(p, work[p].mirror.repos[r].rev, r)'
        BY <3>6 DEF RecentBy, Planning
      <4>1. Typed' BY <1>1, TypedStep DEF Acts, Sw!Next
      <4>2. PICK rev \in Rev : rev = work'[p].mirror.repos[r].rev
        <5>1. work'[p].mirror \in Snapshots BY <3>6, <4>1 DEF Typed, WorkTyped, Plan
        <5>2. QED BY <5>1 DEF Snapshots, Mirrored
      <4>3. Behind(p, rev, r)
        <5>1. CASE Sw!Analyze(p) /\ ~Sw!Leave(p)
          BY <3>2, <4>2, <5>1, AnalyzePlans, AnalyzeRecent
        <5>2. CASE place[p] \in Planning /\ work'[p].mirror = work[p].mirror
          BY <3>2, <4>2, <5>2 DEF Recent, RecentBy
        <5>3. Sw!Commit(p) /\ place'[p] \in Planning
                  => place[p] \in Planning /\ work'[p].mirror = work[p].mirror
          BY PlanStays
        <5>4. Sw!WriteQueue(p) => place[p] \in Planning /\ work'[p].mirror = work[p].mirror
          BY PlanWritten DEF Planning
        <5>5. ~Sw!WriteSnapshot(p) \/ place'[p] = "state" BY PlanWritten
        <5>6. QED BY <1>1, <3>6, <5>1, <5>2, <5>3, <5>4, <5>5, WorkMoves DEF Planning
      <4>4. QED BY <3>4, <4>2, <4>3 DEF Behind
    <3>7. CASE place'[p] = "state"
      <4> SUFFICES ASSUME NEW r \in Repo, snapshot'.repos[r] # None
                   PROVE  Behind(p, snapshot.repos[r].rev, r)'
        BY <3>7 DEF RecentBy, Planning
      <4>1. Sw!WriteSnapshot(p)
        <5>1. Sw!WriteQueue(p) => place'[p] = "snapshot" BY PlanWritten
        <5>2. QED BY <1>1, <3>7, <5>1, WorkMoves
      <4>2. place[p] = "snapshot" /\ snapshot' = work[p].mirror /\ work[p].mirror \in Snapshots
        BY <4>1, PlanWritten DEF Typed, WorkTyped
      <4>3. PICK rev \in Rev : rev = snapshot'.repos[r].rev BY <4>2 DEF Snapshots, Mirrored
      <4>4. Behind(p, rev, r) BY <3>2, <4>2, <4>3 DEF Recent, RecentBy
      <4>5. QED BY <3>4, <4>3, <4>4 DEF Behind
    <3>8. place'[p] \in Labels BY <1>1, TypedStep DEF Acts, Sw!Next, Typed
    <3>9. QED BY <3>5, <3>6, <3>7, <3>8 DEF Labels, Planning
  <2>4. QED BY <2>1, <2>2, <2>3 DEF Recent, RecentBy
<1>2. CASE UNCHANGED <<place, job, work, held, state, snapshot, invalidated>>
  BY <1>2 DEF Recent, RecentBy, Sw!Matched, Behind
<1>3. QED
  BY <1>1, <1>2 DEF Acts, Sw!Next, Sw!Tick, Sw!Edit, Sw!Shadow, Sw!DeskRead, Sw!DeskWrite,
                    Sw!sweepVars, Sw!fileVars, Sw!deskVars

(* What all the steps keep.                                                *)
SweepInv == Typed /\ Locked /\ Attentive /\ Recording /\ Timed /\ Repairs

(* All of it holds at first,                                               *)
LEMMA SweepInit == Sw!Constants /\ Sw!Init => SweepInv /\ Carries /\ Recent
<1> SUFFICES ASSUME Sw!Constants, Sw!Init PROVE SweepInv /\ Carries /\ Recent OBVIOUS
<1> USE DEF Sw!Init, Sw!Constants
<1>1. Typed
  BY DEF Typed, WorkTyped, Time, Rev, Items, Sw!Rows, Snapshots, States, Generated, Mirrored,
         Known, Labels, Planning
<1>2. Locked BY DEF Locked, Sw!Committing, Sw!Reading
<1>3. Attentive
  BY DEF Attentive, Fits, Sw!AnswerStays, Drafted, DraftedBy, Planned, PlannedBy, Written,
         WrittenBy, Planning
<1>4. Recording BY DEF Recording, Sw!RecordedOnce, Planning
<1>5. Timed BY DEF Timed, TimedBy, Dated, Planning
<1>6. Repairs BY DEF Repairs, RepairsBy
<1>7. Carries /\ Recent BY DEF Carries, Recent, RecentBy, Sw!Matched, Planning
<1>8. QED BY <1>1, <1>2, <1>3, <1>4, <1>5, <1>6, <1>7 DEF SweepInv

(* No lease is lost in a commit and no answer crosses a sweep.             *)
Sound == Sw!Constants /\ Window = FALSE /\ Crosses = FALSE

(* every step keeps it,                                                    *)
LEMMA SweepStep ==
  ASSUME Sound, SweepInv, [Sw!Next]_(Sw!sweepVars)
  PROVE  SweepInv'
<1> USE DEF Sound, SweepInv
<1>1. Typed' BY TypedStep
<1>2. Locked' BY LockedStep
<1>3. Attentive' BY AttentiveStep
<1>4. Recording' BY RecordingStep
<1>5. Timed' BY TimedStep DEF Attentive
<1>6. Repairs' BY RepairsStep
<1>7. QED BY <1>1, <1>2, <1>3, <1>4, <1>5, <1>6

(* and so it always holds.                                                 *)
LEMMA SweepInvariance == Sound => (Sw!Spec => []SweepInv)
<1> SUFFICES ASSUME Sound PROVE Sw!Spec => []SweepInv OBVIOUS
<1>1. Sw!Init => SweepInv BY SweepInit DEF Sound
<1>2. SweepInv /\ [Sw!Next]_(Sw!sweepVars) => SweepInv' BY SweepStep
<1>3. QED BY <1>1, <1>2, PTL DEF Sw!Spec

(* Every variable of the sweep has its type.                               *)
THEOREM SweepTyping == Sound => (Sw!Spec => []Sw!TypeOK)
<1> SUFFICES ASSUME Sound PROVE Sw!Spec => []Sw!TypeOK OBVIOUS
<1>1. SweepInv => Sw!TypeOK
  <2> SUFFICES ASSUME Sw!Constants, Typed PROVE Sw!TypeOK BY DEF SweepInv, Sound
  <2>1. \A p \in Sweeper : place[p] = "idle" <=> job[p] = None
    <3>1. None \notin JobOf
      <4> SUFFICES ASSUME None \in JobOf PROVE FALSE OBVIOUS
      <4>1. Time \subseteq Nat /\ 0 .. MaxRev \subseteq Nat BY DEF Time, Sw!Constants
      <4>2. PICK j \in JobOf : j = None OBVIOUS
      <4>3. j \in [kind : Sw!JobKinds, repos : SUBSET Repo, started : Nat, made : Nat]
        BY <4>1 DEF JobOf
      <4>4. QED BY <4>2, <4>3 DEF Sw!Constants
    <3>2. QED BY <3>1 DEF Typed, WorkTyped
  <2>2. state.gen \in Sw!Generations /\ snapshot.gen \in Sw!Generations
    BY DEF Typed, States, Snapshots, Generated, Sw!Generations, Time
  <2>3. QED BY <2>1, <2>2 DEF Typed, Sw!TypeOK, States, Snapshots, Known, Mirrored, Rev, Time
<1>2. QED BY <1>1, SweepInvariance, PTL

(* The state never knows an item the queue has lost, however sweeps crash, *)
(* fail or lose their lease, but for one that was shadowed as it is known; *)
(* an approval stays until its item is closed, and a deferral until it is  *)
(* closed or shadowed, while no answer crosses a sweep (sweep.rs,          *)
(* queue.rs).                                                              *)
THEOREM SweepAttentive == Sound => (Sw!Spec => [](Sw!AttentionKept /\ Sw!AnswerStays))
<1>1. SweepInv => Sw!AttentionKept /\ Sw!AnswerStays
  BY DEF SweepInv, Attentive, Sw!AttentionKept, Fits, Covered
<1>2. QED BY <1>1, SweepInvariance, PTL

(* However often a generation is retried after a crash or an error, a      *)
(* decision is requested once, before its row is shown, and a merge is     *)
(* recorded once (sweep.rs emit_decision_requests).                        *)
THEOREM SweepRecords == Sound => (Sw!Spec => []Sw!RecordedOnce)
<1>1. SweepInv => Sw!RecordedOnce BY DEF SweepInv, Recording
<1>2. QED BY <1>1, SweepInvariance, PTL

(* Where a repair that comes to clear has the lease, or there is one       *)
(* repository, a generation that is reused is fresh.                       *)
LEMMA ReuseIsFresh ==
  ASSUME Sound, SweepInv, Recent
  PROVE  Sw!FreshReuse
<1> SUFFICES ASSUME NEW p \in Sweeper, Sw!Reuse(p), Sw!Matched, NEW r \in Repo,
                        snapshot.repos[r] # None
             PROVE  /\ clock - snapshot.repos[r].at < MaxAge
                    /\ snapshot.repos[r].rev >= invalidated[r]
  BY DEF Sw!FreshReuse
<1>1. clock - state.gen.completed \in 0 .. MaxAge - 1 BY DEF Sw!Reuse, Sw!Reusable, Sw!Fresh
<1>2. state.gen = snapshot.gen /\ state.gen # None BY DEF Sw!Matched
<1>3. snapshot.gen.completed <= snapshot.repos[r].at BY DEF SweepInv, Timed, TimedBy, Dated
<1>4. /\ clock \in Nat /\ snapshot.repos[r].at \in Nat /\ snapshot.gen.completed \in Nat
      /\ snapshot.repos[r].rev \in Nat /\ invalidated[r] \in Nat /\ MaxAge \in Nat
  BY <1>2 DEF SweepInv, Typed, Snapshots, Mirrored, Generated, Rev, Time, Sound, Sw!Constants
<1>5. invalidated[r] <= snapshot.repos[r].rev BY DEF Recent, RecentBy
<1>6. QED BY <1>1, <1>2, <1>3, <1>4, <1>5

(* A gatekeeper reuses no generation that has a repository older than its  *)
(* age, or than a repair that invalidated it, as long as a repair that     *)
(* comes to invalidate still has its lease or the roster is one repository *)
(* (pass.rs prepare_sweep, repair.rs).                                     *)
THEOREM SweepReuse ==
  Sound => (Sw!Spec /\ [](OneRepo \/ ClearHolds) => Sw!ReusedIsRecent)
<1> SUFFICES ASSUME Sound PROVE Sw!Spec /\ [](OneRepo \/ ClearHolds) => Sw!ReusedIsRecent OBVIOUS
<1> DEFINE K == OneRepo \/ ClearHolds
           I == SweepInv /\ Carries /\ Recent
<1>1. Sw!Init => I BY SweepInit DEF Sound
<1>2. I /\ K /\ [Sw!Next]_(Sw!sweepVars) => I'
  <2> SUFFICES ASSUME I, K, [Sw!Next]_(Sw!sweepVars) PROVE I' OBVIOUS
  <2>1. SweepInv' BY SweepStep
  <2>2. Carries' BY CarriesStep DEF SweepInv, Sound, Attentive
  <2>3. Recent' BY RecentStep DEF SweepInv, Sound, Attentive
  <2>4. QED BY <2>1, <2>2, <2>3
<1>3. I /\ [Sw!Next]_(Sw!sweepVars) => [Sw!FreshReuse]_(Sw!sweepVars) BY ReuseIsFresh
<1> HIDE DEF K, I
<1>4. Sw!Spec /\ []K => [][Sw!FreshReuse]_(Sw!sweepVars) BY <1>1, <1>2, <1>3, PTL DEF Sw!Spec
<1>5. QED BY <1>4 DEF K, Sw!ReusedIsRecent

(* A sweeper that is alone has the lease while it is at work.              *)
OneSweeper == \A p, q \in Sweeper : p = q
Works == \A p \in Sweeper : place[p] \notin {"idle", "wait"} => held = p

(* No step takes its lease away.                                           *)
LEMMA WorksStep ==
  ASSUME Sw!Constants, Typed, OneSweeper, Works, [Sw!Next]_(Sw!sweepVars)
  PROVE  Works'
<1>1. ASSUME NEW p \in Sweeper, Acts(p)
      PROVE  Works'
  <2>1. place'[p] \notin {"idle", "wait"} => place[p] \notin {"idle", "wait"} \/ Sw!Acquire(p)
    BY <1>1 DEF Acts, Sw!Step, Sw!Begin, Sw!GiveUp, Sw!Reuse, Sw!SweepAnew, Sw!Clear, Sw!Stop,
                Sw!Read, Sw!Analyze, Sw!AcquireRepo, Sw!Commit, Sw!Confirm, Sw!EmitEvent,
                    Sw!AppendFact, Sw!Emitted, Sw!AppendMerge, Sw!WriteQueue, Sw!WriteSnapshot,
                        Sw!WriteState, Sw!Leave, Sw!Goto, Typed
  <2>2. Sw!Acquire(p) => held' = p BY DEF Sw!Acquire
  <2>3. QED BY <1>1, <2>1, <2>2, LeaseMoves DEF Works, OneSweeper
<1>2. CASE UNCHANGED <<place, held>> BY <1>2 DEF Works
<1>3. QED
  BY <1>1, <1>2 DEF Acts, Sw!Next, Sw!Tick, Sw!Edit, Sw!Shadow, Sw!DeskRead, Sw!DeskWrite,
                    Sw!sweepVars, Sw!fileVars, Sw!deskVars

(* So it is when one sweeper is alone, whatever the roster, and when the   *)
(* roster is one repository, whoever sweeps.                               *)
THEOREM SweepReuseAlone ==
  Sound /\ (OneRepo \/ OneSweeper) => (Sw!Spec => Sw!ReusedIsRecent)
<1>1. CASE Sound /\ OneRepo BY <1>1, SweepReuse, PTL
<1>2. CASE Sound /\ OneSweeper
  <2>1. Sw!Init => Works BY DEF Sw!Init, Works
  <2>2. SweepInv /\ Works /\ [Sw!Next]_(Sw!sweepVars) => Works'
    BY <1>2, WorksStep DEF SweepInv, Sound
  <2>3. Works => OneRepo \/ ClearHolds BY DEF Works, ClearHolds
  <2>4. Sound BY <1>2
  <2>5. QED BY <2>1, <2>2, <2>3, <2>4, SweepInvariance, SweepReuse, PTL DEF Sw!Spec
<1>3. QED BY <1>1, <1>2
================================================================================
