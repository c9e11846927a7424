----------------------------- MODULE DispatchProofs ----------------------------
(* Theorems about module Dispatch, for any number of dispatches, items,    *)
(* orders and reaping dispatches; and about module Worktrees.              *)
EXTENDS Dispatch, FiniteSetTheorems, SequenceTheorems, WellFoundedInduction, NaturalsInduction,
        TLAPS

(* Orders are kept where the actions look for them.                        *)
Placed ==
    /\ \A i \in Item : file[i] # 0 => issued[file[i]] = i
    /\ \A o \in DOMAIN issued : file[issued[o]] # 0
    /\ \A a \in Attempt : dpc[a] = "idle" <=> order[a] = 0
    /\ \A a \in Attempt : wpc[a] # "none" \/ spc[a] # "none" => order[a] # 0
    /\ \A a \in Attempt : wpc[a] \in {"work", "check", "append", "release"} => served[a] # 0
    /\ \A a \in Attempt : job[a] # NoJob => order[a] # 0
    /\ \A x \in Actor : job[x] = NoJob \/ (job[x].order # 0 /\ job[x].at # "none")

(* Dispatches that follow one another, by the process backend, each of an  *)
(* order of its own, with no kill that parts a run from its record or from *)
(* its supervisor.                                                         *)
Sequential ==
    /\ Backend = "process" /\ Overlap = FALSE /\ Again = FALSE /\ WholeLaunches = TRUE
    /\ "supervisor" \notin Killable

Prepared(a) == dpc[a] \in {"verify", "reap", "look", "remove", "create", "recheck", "launch"}

Launching(a) == dpc[a] \in {"bind", "grace", "record", "stop"}

Unended(a) == Prepared(a) \/ wpc[a] \in {"start", "work", "check", "append"}

(* An order has one dispatch, and one dispatch is under way at a time.     *)
OneDispatch ==
    /\ \A a, b \in Attempt : order[a] = order[b] /\ order[a] # 0 => a = b
    /\ \A a, b \in Attempt : Dispatching(a) /\ Dispatching(b) => a = b

(* A run begins at its launch, and its supervisor stays with its worker.   *)
Staged ==
    \A a \in Attempt :
        /\ dpc[a] = "idle" \/ Prepared(a) => wpc[a] = "none" /\ spc[a] = "none"
        /\ spc[a] # "none" => wpc[a] # "none"
        /\ WAlive(a) => spc[a] = "watch"
        /\ SAlive(a) => Launching(a) \/ dpc[a] = "done"
        /\ spc[a] = "close" => dpc[a] = "done"
        /\ job[a] # NoJob => dpc[a] \in {"reap", "recheck"} \/ spc[a] = "close"

(* The item's order file names the order that is dispatched or served.     *)
Current ==
    /\ \A a \in Attempt : Dispatching(a) \/ SAlive(a) => file[ItemOf(a)] = order[a]
    /\ \A a \in Attempt : wpc[a] \in {"work", "check", "append", "release"} => served[a] = order[a]
    /\ \A o \in InFlight : file[issued[o]] = o

(* Whose rows there are.                                                   *)
Accounted ==
    /\ \A row \in Rows : \E a \in Attempt : order[a] = row.order
    /\ \A row \in Rows : row.kind = "dispatched" =>
           row.run \in Attempt /\ order[row.run] = row.order /\ dpc[row.run] = "done"
    /\ \A a \in Attempt : Unended(a) => ~Terminal(order[a])
    /\ \A a \in Attempt : dpc[a] = "done" /\ WAlive(a) => Dispatched(order[a])

(* A run that is no longer being launched has its item's lease.            *)
Leased ==
    /\ \A i \in Item : lease[i] # NoLease /\ lease[i].run # NoRun => ItemOf(lease[i].run) = i
    /\ \A a \in Attempt : WAlive(a) /\ dpc[a] \in {"grace", "record", "done"} =>
           lease[ItemOf(a)] # NoLease /\ lease[ItemOf(a)].run = a

(* An order is closed only once its worker is gone, by whoever holds its   *)
(* item's order file, and with no row of the run's own.                    *)
Closable(o) ==
    Dispatched(o) /\ file[issued[o]] = o /\ \A a \in Attempt : order[a] = o => ~WAlive(a)

RunWrote(o) == \E row \in Rows : row.kind = "terminal" /\ row.by = "run" /\ row.order = o

Closing ==
    \A x \in Actor : job[x] # NoJob =>
        /\ Closable(job[x].order)
        /\ JobAt(x, "unlease") => Terminal(job[x].order)
        /\ JobAt(x, "write") => ~RunWrote(job[x].order)

(* The ceiling leaves room for what is launched.                           *)
Room ==
    /\ Cardinality(InFlight) <= MaxInFlight
    /\ \A a \in Attempt : dpc[a] = "launch" \/ Launching(a) => Cardinality(InFlight) < MaxInFlight

IInv == /\ TypeOK /\ Placed /\ OneDispatch /\ Staged /\ Current /\ Accounted /\ Leased /\ Closing
        /\ Room /\ RunKeepsOnlyRow
--------------------------------------------------------------------------------
(* Types.                                                                  *)

(* A row appended to the trace is one of its rows.                         *)
LEMMA RowsGrow ==
  ASSUME NEW S, trace \in Seq(S), NEW row \in S, trace' = Append(trace, row)
  PROVE  trace' \in Seq(S) /\ Rows' = Rows \cup {row}
<1>1. /\ trace' \in Seq(S) /\ Len(trace') = Len(trace) + 1 /\ trace'[Len(trace) + 1] = row
      /\ \A k \in 1 .. Len(trace) : trace'[k] = trace[k]
      /\ DOMAIN trace = 1 .. Len(trace) /\ DOMAIN trace' = 1 .. Len(trace')
      /\ Len(trace) \in Nat
  OBVIOUS
<1>2. QED BY <1>1 DEF Rows

(* What a row may be.                                                      *)
RowSet == [kind : {"dispatched", "terminal"}, order : DOMAIN issued, run : Attempt \cup {NoRun},
           by : {"dispatch", "run", "supervisor", "reaper"}]

(* The rows that dispatches, runs and reapers append.                      *)
LEMMA RowTyped ==
  ASSUME TypeOK, NEW row \in RowSet, trace' = Append(trace, row)
  PROVE  trace' \in Seq(RowSet) /\ Rows' = Rows \cup {row}
BY RowsGrow DEF TypeOK, RowSet

(* Orders are numbered, and each is of an item.                            *)
LEMMA OrderTyped ==
  ASSUME TypeOK
  PROVE  /\ Len(issued) \in Nat /\ DOMAIN issued = 1 .. Len(issued)
         /\ \A o \in DOMAIN issued : issued[o] \in Item
         /\ \A a \in Attempt : order[a] # 0 => order[a] \in DOMAIN issued /\ ItemOf(a) \in Item
         /\ \A i \in Item : file[i] # 0 => file[i] \in DOMAIN issued
BY DEF TypeOK, ItemOf

(* What the types say, in parts.                                           *)
LeaseOK == lease \in [Item -> [run : Attempt \cup {NoRun}, lapsed : BOOLEAN] \cup {NoLease}]

DLabel == {"idle", "verify", "reap", "look", "remove", "create", "recheck", "launch", "bind",
           "grace", "record", "stop", "failed", "release", "done", "killed"}

WLabel == {"none", "start", "work", "check", "append", "release", "gone"}

SLabel == {"none", "watch", "close", "gone"}

StageOK == dpc \in [Attempt -> DLabel] /\ wpc \in [Attempt -> WLabel] /\ spc \in [Attempt -> SLabel]

LeaseSet == [run : Attempt \cup {NoRun}, lapsed : BOOLEAN]

OrderOK == order \in [Attempt -> 0 .. Len(issued)] /\ served \in [Attempt -> 0 .. Len(issued)]

JobSet == [order : 0 .. Len(issued), at : {"none", "check", "write", "unlease"}]

JobOK == job \in [Actor -> JobSet]

(* Types part by part.                                                     *)
LEMMA Parts ==
  TypeOK <=> /\ issued \in Seq(Item) /\ Len(issued) <= MaxOrders /\ file \in [Item -> 0 .. Len(issued)]
             /\ trace \in Seq(RowSet) /\ old \subseteq DOMAIN issued
             /\ LeaseOK /\ StageOK /\ OrderOK /\ JobOK
BY DEF TypeOK, LeaseOK, StageOK, DLabel, WLabel, SLabel, OrderOK, JobOK, JobSet, RowSet

(* Steps that create no order keep the types part by part.                 *)
LEMMA PartsKept ==
  ASSUME TypeOK, UNCHANGED <<issued, file>>, trace' \in Seq(RowSet), old' \subseteq DOMAIN issued,
         LeaseOK', StageOK', OrderOK', JobOK'
  PROVE  TypeOK'
<1>1. RowSet' = RowSet BY DEF RowSet
<1>2. /\ issued' \in Seq(Item) /\ Len(issued') <= MaxOrders /\ file' \in [Item -> 0 .. Len(issued')]
      /\ old' \subseteq DOMAIN issued'
  BY Parts
<1>3. QED BY <1>1, <1>2 DEF TypeOK, LeaseOK, StageOK, DLabel, WLabel, SLabel, OrderOK, JobOK,
   JobSet, RowSet

(* Every step keeps the types, and orders where the actions look for them. *)
LEMMA TypeStep == ASSUME Constants PROVE TypeOK /\ Placed /\ [Next]_vars => TypeOK' /\ Placed'
<1> SUFFICES ASSUME TypeOK, Placed, Next PROVE TypeOK' /\ Placed'
  <2>1. CASE UNCHANGED vars
    BY <2>1 DEF vars, TypeOK, Placed
  <2>2. QED BY <2>1
<1> USE OrderTyped
<1>0. /\ issued \in Seq(Item) /\ Len(issued) <= MaxOrders /\ file \in [Item -> 0 .. Len(issued)]
      /\ trace \in Seq(RowSet) /\ old \subseteq DOMAIN issued
      /\ LeaseOK /\ StageOK /\ OrderOK /\ JobOK
  BY Parts
<1> UNCHANGED <<DLabel, WLabel, SLabel>> BY DEF DLabel, WLabel, SLabel
<1>1. ASSUME NEW i \in Item, CreateOrder(i) PROVE TypeOK' /\ Placed'
  <2>1. /\ Len(issued') = Len(issued) + 1 /\ DOMAIN issued' = 1 .. Len(issued')
        /\ issued' \in Seq(Item) /\ issued'[Len(issued) + 1] = i
        /\ \A o \in DOMAIN issued : issued'[o] = issued[o]
    BY <1>0, <1>1 DEF CreateOrder
  <2>2. Len(issued') <= MaxOrders
    BY <1>0, <1>1, <2>1 DEF CreateOrder, Constants
  <2>3. file' \in [Item -> 0 .. Len(issued')]
    BY <1>0, <1>1, <2>1 DEF CreateOrder
  <2>4. trace' \in Seq(RowSet)'
    <3>1. RowSet \subseteq RowSet' BY <2>1 DEF RowSet
    <3>2. trace' = trace BY <1>1 DEF CreateOrder
    <3>3. QED BY <1>0, <3>1, <3>2, SeqMonotonic
  <2>5. LeaseOK' BY <1>0, <1>1 DEF CreateOrder, LeaseOK
  <2>6. OrderOK' /\ JobOK' /\ StageOK' /\ old' \subseteq DOMAIN issued'
    BY <1>0, <1>1, <2>1 DEF CreateOrder, OrderOK, JobOK, JobSet, StageOK, DLabel, WLabel, SLabel
  <2>7. Placed'
    BY <1>0, <1>1, <2>1 DEF CreateOrder, Placed, OrderOK, JobOK, JobSet
  <2>8. QED BY <2>1, <2>2, <2>3, <2>4, <2>5, <2>6, <2>7 DEF TypeOK, LeaseOK, StageOK, DLabel,
     WLabel, SLabel, OrderOK, JobOK, JobSet, RowSet
<1>2. ASSUME NEW a \in Attempt, NEW i \in Item, Begin(a, i) PROVE TypeOK' /\ Placed'
  <2>1. UNCHANGED <<issued, file, trace, old>> /\ LeaseOK' /\ StageOK' /\ OrderOK' /\ JobOK' /\ Placed'
    BY <1>0, <1>2 DEF Begin, LeaseOK, StageOK, DLabel, WLabel, SLabel, OrderOK, JobOK, JobSet,
       Placed, DAt, DGoto
  <2>2. QED BY <1>0, <2>1, PartsKept
<1>3. ASSUME NEW a \in Attempt, Verify(a) PROVE TypeOK' /\ Placed'
  <2>1. trace' = trace \/ \E row \in RowSet : trace' = Append(trace, row)
    BY <1>0, <1>3 DEF Verify, Placed, StageOK, DLabel, WLabel, SLabel, OrderOK, JobOK, JobSet, Row,
       RowSet, DAt
  <2>2. trace' \in Seq(RowSet)
    BY <1>0, <2>1, RowTyped
  <2>3. UNCHANGED <<issued, file, old>> /\ LeaseOK' /\ StageOK' /\ OrderOK' /\ JobOK'
    BY <1>0, <1>3 DEF Verify, Placed, LeaseOK, StageOK, DLabel, WLabel, SLabel, OrderOK, JobOK,
       JobSet, DAt, DGoto, NoJob
  <2>4. Placed'
    BY <1>0, <1>3 DEF Verify, Placed, StageOK, DLabel, WLabel, SLabel, OrderOK, JobOK, JobSet, DAt,
       DGoto, WAlive, SAlive, Dispatching
  <2>5. QED BY <1>0, <2>2, <2>3, <2>4, PartsKept
<1>4. ASSUME NEW a \in Attempt, Reaped(a) PROVE TypeOK' /\ Placed'
  <2>1. UNCHANGED <<issued, file, trace, old>> /\ LeaseOK' /\ StageOK' /\ OrderOK' /\ JobOK'
    BY <1>0, <1>4 DEF Reaped, Placed, LeaseOK, StageOK, DLabel, WLabel, SLabel, OrderOK, JobOK,
       JobSet, DAt, DGoto, NoJob
  <2>2. Placed'
    BY <1>0, <1>4 DEF Reaped, Placed, StageOK, DLabel, WLabel, SLabel, OrderOK, JobOK, JobSet, DAt,
       DGoto, WAlive, SAlive, Dispatching
  <2>3. QED BY <1>0, <2>1, <2>2, PartsKept
<1>5. ASSUME NEW a \in Attempt, LookAtLease(a) PROVE TypeOK' /\ Placed'
  <2>1. UNCHANGED <<issued, file, trace, old>> /\ LeaseOK' /\ StageOK' /\ OrderOK' /\ JobOK'
    BY <1>0, <1>5 DEF LookAtLease, Placed, LeaseOK, StageOK, DLabel, WLabel, SLabel, OrderOK,
       JobOK, JobSet, DAt, DGoto, NoJob
  <2>2. Placed'
    BY <1>0, <1>5 DEF LookAtLease, Placed, StageOK, DLabel, WLabel, SLabel, OrderOK, JobOK, JobSet,
       DAt, DGoto, WAlive, SAlive, Dispatching
  <2>3. QED BY <1>0, <2>1, <2>2, PartsKept
<1>6. ASSUME NEW a \in Attempt, RemoveLease(a) PROVE TypeOK' /\ Placed'
  <2>1. UNCHANGED <<issued, file, trace, old>> /\ LeaseOK' /\ StageOK' /\ OrderOK' /\ JobOK'
    BY <1>0, <1>6 DEF RemoveLease, Placed, LeaseOK, StageOK, DLabel, WLabel, SLabel, OrderOK,
       JobOK, JobSet, DAt, DGoto, NoJob
  <2>2. Placed'
    BY <1>0, <1>6 DEF RemoveLease, Placed, StageOK, DLabel, WLabel, SLabel, OrderOK, JobOK, JobSet,
       DAt, DGoto, WAlive, SAlive, Dispatching
  <2>3. QED BY <1>0, <2>1, <2>2, PartsKept
<1>7. ASSUME NEW a \in Attempt, CreateLease(a) PROVE TypeOK' /\ Placed'
  <2>1. UNCHANGED <<issued, file, trace, old>> /\ OrderOK' /\ JobOK'
    BY <1>0, <1>7 DEF CreateLease, OrderOK, JobOK, JobSet
  <2>2. LeaseOK'
    <3>1. \/ lease' = lease
          \/ lease' = [lease EXCEPT ![ItemOf(a)] = [run |-> NoRun, lapsed |-> FALSE]]
      BY <1>7 DEF CreateLease
    <3>2. [run |-> NoRun, lapsed |-> FALSE] \in [run : Attempt \cup {NoRun}, lapsed : BOOLEAN]
      OBVIOUS
    <3>3. QED BY <1>0, <3>1, <3>2 DEF LeaseOK
  <2>3. StageOK' /\ Placed'
    <3>1. CASE lease[ItemOf(a)] = NoLease
      BY ZenonT(60), <1>0, <1>7, <3>1
          DEF CreateLease, DAt, DGoto, StageOK, DLabel, WLabel, SLabel, Placed
    <3>2. CASE lease[ItemOf(a)] # NoLease
      BY <1>0, <1>7, <3>2 DEF CreateLease, DAt, DGoto, StageOK, DLabel, WLabel, SLabel, Placed
    <3>3. QED BY <3>1, <3>2
  <2>4. QED BY <1>0, <2>1, <2>2, <2>3, PartsKept
<1>8. ASSUME NEW a \in Attempt, Recheck(a) PROVE TypeOK' /\ Placed'
  <2>1. UNCHANGED <<issued, file, trace, old>> /\ LeaseOK' /\ StageOK' /\ OrderOK' /\ JobOK'
    BY <1>0, <1>8 DEF Recheck, Placed, LeaseOK, StageOK, DLabel, WLabel, SLabel, OrderOK, JobOK,
       JobSet, DAt, DGoto, NoJob
  <2>2. Placed'
    BY <1>0, <1>8 DEF Recheck, Placed, StageOK, DLabel, WLabel, SLabel, OrderOK, JobOK, JobSet,
       DAt, DGoto, WAlive, SAlive, Dispatching
  <2>3. QED BY <1>0, <2>1, <2>2, PartsKept
<1>9. ASSUME NEW a \in Attempt, Launch(a) PROVE TypeOK' /\ Placed'
  <2>1. UNCHANGED <<issued, file, trace, old>> /\ LeaseOK' /\ StageOK' /\ OrderOK' /\ JobOK'
    BY ZenonT(60), <1>0, <1>9
        DEF Launch, Placed, LeaseOK, StageOK, DLabel, WLabel, SLabel, OrderOK, JobOK,
       JobSet, DAt, DGoto, NoJob
  <2>2. Placed'
    BY <1>0, <1>9 DEF Launch, Placed, StageOK, DLabel, WLabel, SLabel, OrderOK, JobOK, JobSet, DAt,
       DGoto, WAlive, SAlive, Dispatching
  <2>3. QED BY <1>0, <2>1, <2>2, PartsKept
<1>10. ASSUME NEW a \in Attempt, Bind(a) PROVE TypeOK' /\ Placed'
  <2>1. UNCHANGED <<issued, file, trace, old>> /\ OrderOK' /\ JobOK' /\ StageOK' /\ Placed'
    BY ZenonT(60), <1>0, <1>10
        DEF Bind, OrderOK, JobOK, JobSet, DAt, DGoto, StageOK, DLabel, WLabel, SLabel,
       Placed
  <2>2. LeaseOK'
    <3>1. CASE lease' = lease BY <1>0, <3>1 DEF LeaseOK
    <3>2. CASE lease[ItemOf(a)] # NoLease /\ lease' = [lease EXCEPT ![ItemOf(a)].run = a]
      <4>1. ItemOf(a) \in Item BY <1>0, <1>10 DEF Bind, DAt, Placed
      <4>2. lease[ItemOf(a)] \in [run : Attempt \cup {NoRun}, lapsed : BOOLEAN]
        BY <1>0, <3>2, <4>1 DEF LeaseOK
      <4>3. [lease[ItemOf(a)] EXCEPT !.run = a] \in [run : Attempt \cup {NoRun}, lapsed : BOOLEAN]
        BY <4>2
      <4>4. lease' = [lease EXCEPT ![ItemOf(a)] = [lease[ItemOf(a)] EXCEPT !.run = a]]
        BY <3>2
      <4>5. QED BY <1>0, <4>3, <4>4 DEF LeaseOK
    <3>3. QED BY <1>10, <3>1, <3>2 DEF Bind
  <2>3. QED BY <1>0, <2>1, <2>2, PartsKept
<1>11. ASSUME NEW a \in Attempt, StartupGrace(a) PROVE TypeOK' /\ Placed'
  <2>1. UNCHANGED <<issued, file, trace, old>> /\ LeaseOK' /\ StageOK' /\ OrderOK' /\ JobOK'
    BY <1>0, <1>11 DEF StartupGrace, Placed, LeaseOK, StageOK, DLabel, WLabel, SLabel, OrderOK,
       JobOK, JobSet, DAt, DGoto, NoJob
  <2>2. Placed'
    BY <1>0, <1>11 DEF StartupGrace, Placed, StageOK, DLabel, WLabel, SLabel, OrderOK, JobOK,
       JobSet, DAt, DGoto, WAlive, SAlive, Dispatching
  <2>3. QED BY <1>0, <2>1, <2>2, PartsKept
<1>12. ASSUME NEW a \in Attempt, Record(a) PROVE TypeOK' /\ Placed'
  <2>1. trace' = trace \/ \E row \in RowSet : trace' = Append(trace, row)
    BY <1>0, <1>12 DEF Record, Placed, StageOK, DLabel, WLabel, SLabel, OrderOK, JobOK, JobSet,
       Row, RowSet, DAt
  <2>2. trace' \in Seq(RowSet)
    BY <1>0, <2>1, RowTyped
  <2>3. UNCHANGED <<issued, file, old>> /\ LeaseOK' /\ StageOK' /\ OrderOK' /\ JobOK'
    <3>1. UNCHANGED <<issued, file, old, lease, order, served, job>>
      BY <1>12 DEF Record
    <3>2. StageOK' BY <1>0, <1>12 DEF Record, StageOK, DLabel, WLabel, SLabel, DAt, DGoto
    <3>3. QED BY <1>0, <3>1, <3>2 DEF LeaseOK, OrderOK, JobOK, JobSet
  <2>4. Placed'
    BY <1>0, <1>12 DEF Record, Placed, StageOK, DLabel, WLabel, SLabel, OrderOK, JobOK, JobSet,
       DAt, DGoto, WAlive, SAlive, Dispatching
  <2>5. QED BY <1>0, <2>2, <2>3, <2>4, PartsKept
<1>13. ASSUME NEW a \in Attempt, StopChild(a) PROVE TypeOK' /\ Placed'
  <2>1. UNCHANGED <<issued, file, trace, old>> /\ LeaseOK' /\ StageOK' /\ OrderOK' /\ JobOK'
    BY <1>0, <1>13 DEF StopChild, Placed, LeaseOK, StageOK, DLabel, WLabel, SLabel, OrderOK, JobOK,
       JobSet, DAt, DGoto, NoJob
  <2>2. Placed'
    BY <1>0, <1>13 DEF StopChild, Placed, StageOK, DLabel, WLabel, SLabel, OrderOK, JobOK, JobSet,
       DAt, DGoto, WAlive, SAlive, Dispatching
  <2>3. QED BY <1>0, <2>1, <2>2, PartsKept
<1>14. ASSUME NEW a \in Attempt, LaunchFailed(a) PROVE TypeOK' /\ Placed'
  <2>1. trace' = trace \/ \E row \in RowSet : trace' = Append(trace, row)
    BY <1>0, <1>14 DEF LaunchFailed, Placed, StageOK, DLabel, WLabel, SLabel, OrderOK, JobOK,
       JobSet, Row, RowSet, DAt
  <2>2. trace' \in Seq(RowSet)
    BY <1>0, <2>1, RowTyped
  <2>3. UNCHANGED <<issued, file, old>> /\ LeaseOK' /\ StageOK' /\ OrderOK' /\ JobOK'
    BY <1>0, <1>14 DEF LaunchFailed, Placed, LeaseOK, StageOK, DLabel, WLabel, SLabel, OrderOK,
       JobOK, JobSet, DAt, DGoto, NoJob
  <2>4. Placed'
    BY <1>0, <1>14 DEF LaunchFailed, Placed, StageOK, DLabel, WLabel, SLabel, OrderOK, JobOK,
       JobSet, DAt, DGoto, WAlive, SAlive, Dispatching
  <2>5. QED BY <1>0, <2>2, <2>3, <2>4, PartsKept
<1>15. ASSUME NEW a \in Attempt, ReleaseDispatch(a) PROVE TypeOK' /\ Placed'
  <2>1. UNCHANGED <<issued, file, trace, old>> /\ LeaseOK' /\ StageOK' /\ OrderOK' /\ JobOK'
    BY <1>0, <1>15 DEF ReleaseDispatch, Placed, LeaseOK, StageOK, DLabel, WLabel, SLabel, OrderOK,
       JobOK, JobSet, DAt, DGoto, NoJob
  <2>2. Placed'
    BY <1>0, <1>15 DEF ReleaseDispatch, Placed, StageOK, DLabel, WLabel, SLabel, OrderOK, JobOK,
       JobSet, DAt, DGoto, WAlive, SAlive, Dispatching
  <2>3. QED BY <1>0, <2>1, <2>2, PartsKept
<1>16. ASSUME NEW a \in Attempt, Adopt(a) PROVE TypeOK' /\ Placed'
  <2>1. UNCHANGED <<issued, file, trace, old, lease, job, order, dpc, spc>> /\ wpc[a] = "start"
    BY <1>16 DEF Adopt
  <2>2. order[a] # 0 /\ file[ItemOf(a)] # 0 /\ file[ItemOf(a)] \in 0 .. Len(issued)
    <3>1. order[a] # 0 BY <1>0, <2>1 DEF Placed
    <3>2. QED BY <1>0, <3>1 DEF Placed, ItemOf
  <2>3. \/ wpc' = [wpc EXCEPT ![a] = "gone"] /\ UNCHANGED served
        \/ wpc' = [wpc EXCEPT ![a] = "work"] /\ served' = [served EXCEPT ![a] = file[ItemOf(a)]]
    BY <1>16 DEF Adopt
  <2>4. LeaseOK' /\ StageOK' /\ OrderOK' /\ JobOK'
    <3>1. StageOK' BY <1>0, <2>1, <2>3 DEF StageOK, DLabel, WLabel, SLabel
    <3>2. OrderOK' BY <1>0, <2>1, <2>2, <2>3 DEF OrderOK
    <3>3. QED BY <1>0, <2>1, <3>1, <3>2 DEF LeaseOK, JobOK, JobSet
  <2>5. Placed'
    BY <1>0, <2>1, <2>2, <2>3 DEF Placed, StageOK, DLabel, WLabel, SLabel, OrderOK
  <2>6. QED BY <1>0, <2>1, <2>4, <2>5, PartsKept
<1>17. ASSUME NEW a \in Attempt, EndWork(a) PROVE TypeOK' /\ Placed'
  <2>1. UNCHANGED <<issued, file, trace, old>> /\ LeaseOK' /\ StageOK' /\ OrderOK' /\ JobOK'
    BY <1>0, <1>17 DEF EndWork, Placed, LeaseOK, StageOK, DLabel, WLabel, SLabel, OrderOK, JobOK,
       JobSet, DAt, DGoto, NoJob
  <2>2. Placed'
    BY <1>0, <1>17 DEF EndWork, Placed, StageOK, DLabel, WLabel, SLabel, OrderOK, JobOK, JobSet,
       DAt, DGoto, WAlive, SAlive, Dispatching
  <2>3. QED BY <1>0, <2>1, <2>2, PartsKept
<1>18. ASSUME NEW a \in Attempt, CheckTerminal(a) PROVE TypeOK' /\ Placed'
  <2>1. UNCHANGED <<issued, file, trace, old>> /\ LeaseOK' /\ StageOK' /\ OrderOK' /\ JobOK'
    BY <1>0, <1>18 DEF CheckTerminal, Placed, LeaseOK, StageOK, DLabel, WLabel, SLabel, OrderOK,
       JobOK, JobSet, DAt, DGoto, NoJob
  <2>2. Placed'
    BY <1>0, <1>18 DEF CheckTerminal, Placed, StageOK, DLabel, WLabel, SLabel, OrderOK, JobOK,
       JobSet, DAt, DGoto, WAlive, SAlive, Dispatching
  <2>3. QED BY <1>0, <2>1, <2>2, PartsKept
<1>19. ASSUME NEW a \in Attempt, AppendTerminal(a) PROVE TypeOK' /\ Placed'
  <2>1. trace' = trace \/ \E row \in RowSet : trace' = Append(trace, row)
    BY <1>0, <1>19 DEF AppendTerminal, Placed, StageOK, DLabel, WLabel, SLabel, OrderOK, JobOK,
       JobSet, Row, RowSet, DAt
  <2>2. trace' \in Seq(RowSet)
    BY <1>0, <2>1, RowTyped
  <2>3. UNCHANGED <<issued, file, old>> /\ LeaseOK' /\ StageOK' /\ OrderOK' /\ JobOK'
    BY <1>0, <1>19 DEF AppendTerminal, Placed, LeaseOK, StageOK, DLabel, WLabel, SLabel, OrderOK,
       JobOK, JobSet, DAt, DGoto, NoJob
  <2>4. Placed'
    BY <1>0, <1>19 DEF AppendTerminal, Placed, StageOK, DLabel, WLabel, SLabel, OrderOK, JobOK,
       JobSet, DAt, DGoto, WAlive, SAlive, Dispatching
  <2>5. QED BY <1>0, <2>2, <2>3, <2>4, PartsKept
<1>20. ASSUME NEW a \in Attempt, ReleaseRun(a) PROVE TypeOK' /\ Placed'
  <2>1. UNCHANGED <<issued, file, trace, old>> /\ LeaseOK' /\ StageOK' /\ OrderOK' /\ JobOK'
    BY <1>0, <1>20 DEF ReleaseRun, Placed, LeaseOK, StageOK, DLabel, WLabel, SLabel, OrderOK,
       JobOK, JobSet, DAt, DGoto, NoJob
  <2>2. Placed'
    BY <1>0, <1>20 DEF ReleaseRun, Placed, StageOK, DLabel, WLabel, SLabel, OrderOK, JobOK, JobSet,
       DAt, DGoto, WAlive, SAlive, Dispatching
  <2>3. QED BY <1>0, <2>1, <2>2, PartsKept
<1>21. ASSUME NEW a \in Attempt, Finalize(a) PROVE TypeOK' /\ Placed'
  <2>1. UNCHANGED <<issued, file, trace, old, lease, order, served, dpc, wpc>> /\ spc[a] = "watch"
    BY <1>21 DEF Finalize
  <2>2. order[a] # 0 /\ file[ItemOf(a)] # 0 /\ file[ItemOf(a)] \in 0 .. Len(issued)
    <3>1. order[a] # 0 BY <1>0, <2>1 DEF Placed
    <3>2. QED BY <1>0, <3>1 DEF Placed, ItemOf
  <2>3. \/ spc' = [spc EXCEPT ![a] = "gone"] /\ UNCHANGED job
        \/ /\ spc' = [spc EXCEPT ![a] = "close"]
           /\ job' = [job EXCEPT ![a] = [order |-> file[ItemOf(a)], at |-> "check"]]
    BY <1>21 DEF Finalize
  <2>4. StageOK'
    <3>1. spc' \in [Attempt -> SLabel]
      BY <1>0, <2>3 DEF StageOK, DLabel, WLabel, SLabel
    <3>2. QED BY <1>0, <2>1, <3>1 DEF StageOK
  <2>5. JobOK'
    <3>1. [order |-> file[ItemOf(a)], at |-> "check"] \in JobSet BY <2>2 DEF JobSet
    <3>2. job' \in [Actor -> JobSet] BY <1>0, <2>3, <3>1 DEF JobOK
    <3>3. JobSet' = JobSet BY <2>1 DEF JobSet
    <3>4. QED BY <3>2, <3>3 DEF JobOK
  <2>6. LeaseOK' /\ OrderOK' BY <1>0, <2>1 DEF LeaseOK, OrderOK
  <2>7. Placed'
    <3>1. \A x \in Actor : job'[x] = job[x] \/ (x = a /\ job'[x] = [order |-> file[ItemOf(a)], at |-> "check"])
      BY <1>0, <2>3 DEF JobOK, JobSet, Actor
    <3>2. \A b \in Attempt : spc'[b] # "none" => spc[b] # "none"
      BY <1>0, <2>1, <2>3 DEF StageOK, DLabel, WLabel, SLabel
    <3>3. Attempt \subseteq Actor /\ NoJob.order = 0 BY DEF Actor, NoJob
    <3>4. QED BY <2>1, <2>2, <3>1, <3>2, <3>3 DEF Placed
  <2>8. QED BY <1>0, <2>1, <2>4, <2>5, <2>6, <2>7, PartsKept
<1>22. ASSUME NEW a \in Attempt, KillDispatcher(a) PROVE TypeOK' /\ Placed'
  <2>1. UNCHANGED <<issued, file, trace, old, lease, order, served, wpc, spc>>
        /\ Dispatching(a) /\ dpc' = [dpc EXCEPT ![a] = "killed"]
        /\ (job' = job \/ job' = [job EXCEPT ![a] = NoJob])
    BY <1>22 DEF KillDispatcher, DGoto
  <2>2. StageOK' BY <1>0, <2>1 DEF StageOK, DLabel, WLabel, SLabel
  <2>3. JobOK'
    <3>1. NoJob \in JobSet BY DEF NoJob, JobSet
    <3>2. job' \in [Actor -> JobSet] BY <1>0, <2>1, <3>1 DEF JobOK
    <3>3. JobSet' = JobSet BY <2>1 DEF JobSet
    <3>4. QED BY <3>2, <3>3 DEF JobOK
  <2>4. LeaseOK' /\ OrderOK' BY <1>0, <2>1 DEF LeaseOK, OrderOK
  <2>5. Placed'
    <3>1. Attempt \subseteq Actor /\ \A y \in Actor : job'[y] = job[y] \/ job'[y] = NoJob
      BY <1>0, <2>1 DEF Actor, JobOK
    <3>2. \A b \in Attempt : /\ (dpc'[b] = "idle" <=> dpc[b] = "idle")
                             /\ (wpc'[b] = wpc[b] \/ (wpc[b] # "none" /\ wpc'[b] = "gone"))
                             /\ (spc'[b] # "none" => spc[b] # "none" \/ wpc[b] # "none")
      BY <1>0, <2>1 DEF StageOK, Placed, Dispatching
    <3>3. QED BY <2>1, <3>1, <3>2 DEF Placed
  <2>6. QED BY <1>0, <2>1, <2>2, <2>3, <2>4, <2>5, PartsKept
<1>23. ASSUME NEW a \in Attempt, KillRun(a) PROVE TypeOK' /\ Placed'
  <2>1. UNCHANGED <<issued, file, trace, old, lease, order, served, dpc>>
        /\ (wpc' = wpc \/ (wpc[a] # "none" /\ wpc' = [wpc EXCEPT ![a] = "gone"]))
        /\ (spc' = spc \/ spc' = [spc EXCEPT ![a] = "gone"])
        /\ (job' = job \/ job' = [job EXCEPT ![a] = NoJob])
        /\ (wpc[a] # "none" \/ spc[a] # "none")
    BY <1>23 DEF KillRun, WAlive, SAlive
  <2>2. StageOK'
    <3>1. spc' \in [Attempt -> SLabel]
      BY <1>0, <2>1 DEF StageOK, DLabel, WLabel, SLabel
    <3>2. wpc' \in [Attempt -> WLabel]
      BY <1>0, <2>1 DEF StageOK, DLabel, WLabel, SLabel
    <3>3. QED BY <1>0, <2>1, <3>1, <3>2 DEF StageOK
  <2>3. JobOK'
    <3>1. NoJob \in JobSet BY DEF NoJob, JobSet
    <3>2. job' \in [Actor -> JobSet] BY <1>0, <2>1, <3>1 DEF JobOK
    <3>3. JobSet' = JobSet BY <2>1 DEF JobSet
    <3>4. QED BY <3>2, <3>3 DEF JobOK
  <2>4. LeaseOK' /\ OrderOK' BY <1>0, <2>1 DEF LeaseOK, OrderOK
  <2>5. Placed'
    <3>1. Attempt \subseteq Actor /\ \A y \in Actor : job'[y] = job[y] \/ job'[y] = NoJob
      BY <1>0, <2>1 DEF Actor, JobOK
    <3>2. \A b \in Attempt : /\ (dpc'[b] = "idle" <=> dpc[b] = "idle")
                             /\ (wpc'[b] = wpc[b] \/ (wpc[b] # "none" /\ wpc'[b] = "gone"))
                             /\ (spc'[b] # "none" => spc[b] # "none" \/ wpc[b] # "none")
      BY <1>0, <2>1 DEF StageOK, Placed
    <3>3. QED BY <2>1, <3>1, <3>2 DEF Placed
  <2>6. QED BY <1>0, <2>1, <2>2, <2>3, <2>4, <2>5, PartsKept
<1>24. ASSUME NEW x \in Actor, CheckInFlight(x) PROVE TypeOK' /\ Placed'
  <2>1. UNCHANGED <<issued, file, trace, old, lease, order, served, dpc, wpc, spc>>
        /\ job[x].at = "check" /\ \E l \in {"write", "unlease"} : job' = [job EXCEPT ![x].at = l]
    BY <1>24 DEF CheckInFlight, JobAt, JobGoto
  <2>2. JobOK' BY <1>0, <2>1 DEF JobOK, JobSet
  <2>3. LeaseOK' /\ OrderOK' /\ StageOK' BY <1>0, <2>1 DEF LeaseOK, OrderOK, StageOK, DLabel,
     WLabel, SLabel
  <2>4. Placed' BY <1>0, <2>1 DEF Placed, JobOK, JobSet, NoJob
  <2>5. QED BY <1>0, <2>1, <2>2, <2>3, <2>4, PartsKept
<1>25. ASSUME NEW x \in Actor, WriteTerminal(x) PROVE TypeOK' /\ Placed'
  <2>1. trace' = trace \/ \E row \in RowSet : trace' = Append(trace, row)
    <3>1. job[x].order # 0 /\ job[x].order \in 0 .. Len(issued)
      BY <1>0, <1>25 DEF WriteTerminal, JobAt, NoJob, Placed, JobOK, JobSet
    <3>2. By(x) \in {"supervisor", "reaper"} BY DEF By
    <3>3. Row("terminal", job[x].order, NoRun, By(x)) \in RowSet BY <3>1, <3>2 DEF Row, RowSet
    <3>4. QED BY <1>25, <3>3 DEF WriteTerminal
  <2>2. trace' \in Seq(RowSet)
    BY <1>0, <2>1, RowTyped
  <2>3. UNCHANGED <<issued, file, old>> /\ LeaseOK' /\ StageOK' /\ OrderOK' /\ JobOK'
    BY <1>0, <1>25 DEF WriteTerminal, By, JobAt, JobGoto, NoJob, Actor, Placed, LeaseOK, StageOK,
       DLabel, WLabel, SLabel, OrderOK, JobOK, JobSet, DAt, DGoto, NoJob
  <2>4. Placed'
    BY <1>0, <1>25 DEF WriteTerminal, By, JobAt, JobGoto, NoJob, Actor, Placed, StageOK, DLabel,
       WLabel, SLabel, OrderOK, JobOK, JobSet, DAt, DGoto, WAlive, SAlive, Dispatching
  <2>5. QED BY <1>0, <2>2, <2>3, <2>4, PartsKept
<1>26. ASSUME NEW x \in Actor, WriteTerminalFails(x) PROVE TypeOK' /\ Placed'
  <2>1. UNCHANGED <<issued, file, trace, old, lease, order, served, wpc>>
        /\ job' = [job EXCEPT ![x] = NoJob]
        /\ \/ UNCHANGED <<spc, dpc>>
           \/ /\ x \in Attempt /\ spc[x] = "close" /\ spc' = [spc EXCEPT ![x] = "gone"]
              /\ UNCHANGED dpc
           \/ /\ x \in Attempt /\ spc[x] # "close" /\ UNCHANGED spc
              /\ dpc' = [dpc EXCEPT ![x] = IF DAt(x, "reap") THEN "done" ELSE "release"]
    BY <1>26 DEF WriteTerminalFails, By, DGoto
  <2>2. JobOK' BY <1>0, <2>1 DEF JobOK, JobSet, NoJob
  <2>3. LeaseOK' /\ OrderOK' BY <1>0, <2>1 DEF LeaseOK, OrderOK
  <2>4. StageOK'
    <3>1. spc' \in [Attempt -> SLabel]
      BY <1>0, <2>1 DEF StageOK, DLabel, WLabel, SLabel
    <3>2. dpc' \in [Attempt -> DLabel]
      <4>1. "done" \in DLabel /\ "release" \in DLabel BY DEF DLabel
      <4>2. QED BY <1>0, <2>1, <4>1 DEF StageOK
    <3>3. QED BY <1>0, <2>1, <3>1, <3>2 DEF StageOK
  <2>5. job[x] # NoJob BY <1>26 DEF WriteTerminalFails, JobAt, NoJob
  <2>6. Placed'
    <3>1. Attempt \subseteq Actor /\ \A y \in Actor : job'[y] = job[y] \/ job'[y] = NoJob
      BY <1>0, <2>1 DEF Actor, JobOK
    <3>2. \A b \in Attempt : /\ (dpc'[b] = "idle" <=> dpc[b] = "idle")
                             /\ (wpc'[b] = wpc[b] \/ (wpc[b] # "none" /\ wpc'[b] = "gone"))
                             /\ (spc'[b] # "none" => spc[b] # "none" \/ wpc[b] # "none")
      BY <1>0, <2>1, <2>5 DEF StageOK, Placed
    <3>3. QED BY <2>1, <3>1, <3>2 DEF Placed
  <2>7. QED BY <1>0, <2>1, <2>2, <2>3, <2>4, <2>6, PartsKept
<1>27. ASSUME NEW x \in Actor, Unlease(x) PROVE TypeOK' /\ Placed'
  <2>1. UNCHANGED <<issued, file, trace, old>> /\ LeaseOK' /\ StageOK' /\ OrderOK' /\ JobOK'
    BY <1>0, <1>27 DEF Unlease, By, JobAt, JobGoto, NoJob, Actor, Placed, LeaseOK, StageOK, DLabel,
       WLabel, SLabel, OrderOK, JobOK, JobSet, DAt, DGoto, NoJob
  <2>2. Placed'
    BY <1>0, <1>27 DEF Unlease, By, JobAt, JobGoto, NoJob, Actor, Placed, StageOK, DLabel, WLabel,
       SLabel, OrderOK, JobOK, JobSet, DAt, DGoto, WAlive, SAlive, Dispatching
  <2>3. QED BY <1>0, <2>1, <2>2, PartsKept
<1>28. ASSUME NEW x \in Actor, NEW o \in DOMAIN issued, Observe(x, o) PROVE TypeOK' /\ Placed'
  <2>1. UNCHANGED <<issued, file, trace, old>> /\ LeaseOK' /\ StageOK' /\ OrderOK' /\ JobOK'
    BY <1>0, <1>28 DEF Observe, Reaping, By, JobAt, JobGoto, NoJob, Actor, Placed, LeaseOK,
       StageOK, DLabel, WLabel, SLabel, OrderOK, JobOK, JobSet, DAt, DGoto, NoJob
  <2>2. Placed'
    BY <1>0, <1>28 DEF Observe, Reaping, By, JobAt, JobGoto, NoJob, Actor, Placed, StageOK, DLabel,
       WLabel, SLabel, OrderOK, JobOK, JobSet, DAt, DGoto, WAlive, SAlive, Dispatching
  <2>3. QED BY <1>0, <2>1, <2>2, PartsKept
<1>29. ASSUME NEW i \in Item, Lapse(i) PROVE TypeOK' /\ Placed'
  <2>1. UNCHANGED <<issued, file, trace, old>> /\ LeaseOK' /\ StageOK' /\ OrderOK' /\ JobOK'
    <3>1. lease' = [lease EXCEPT ![i] = [lease[i] EXCEPT !.lapsed = TRUE]]
          /\ UNCHANGED <<issued, file, trace, old, dpc, wpc, spc, order, served, job>>
      BY <1>29 DEF Lapse
    <3>2. lease[i] \in [run : Attempt \cup {NoRun}, lapsed : BOOLEAN]
      BY <1>0, <1>29 DEF Lapse, LeaseOK
    <3>3. [lease[i] EXCEPT !.lapsed = TRUE] \in [run : Attempt \cup {NoRun}, lapsed : BOOLEAN]
      BY <3>2
    <3>4. QED BY <1>0, <3>1, <3>3 DEF LeaseOK, StageOK, DLabel, WLabel, SLabel, OrderOK, JobOK,
       JobSet
  <2>2. Placed'
    BY <1>0, <1>29 DEF Lapse, Placed, StageOK, DLabel, WLabel, SLabel, OrderOK, JobOK, JobSet, DAt,
       DGoto, WAlive, SAlive, Dispatching
  <2>3. QED BY <1>0, <2>1, <2>2, PartsKept
<1>30. ASSUME NEW o \in DOMAIN issued, GrowOld(o) PROVE TypeOK' /\ Placed'
  BY <1>30 DEF GrowOld, InFlight, TypeOK, Placed
<1>31. QED
  BY <1>1, <1>2, <1>3, <1>4, <1>5, <1>6, <1>7, <1>8, <1>9, <1>10, <1>11, <1>12, <1>13, <1>14,
     <1>15, <1>16, <1>17, <1>18, <1>19, <1>20, <1>21, <1>22, <1>23, <1>24, <1>25, <1>26, <1>27,
     <1>28, <1>29, <1>30 DEF Next, DispatchStep, RunStep, CloseStep
--------------------------------------------------------------------------------
(* What a step may change.                                                 *)

(* The steps of one dispatch and of the run it starts.                     *)
OwnStep(a) ==
    \/ \E i \in Item : Begin(a, i)
    \/ DispatchStep(a) \/ RunStep(a) \/ KillDispatcher(a) \/ KillRun(a)

(* A dispatch and its run go by their own steps; a job by its owner's.     *)
LEMMA Owned ==
  ASSUME TypeOK, [Next]_vars, NEW b \in Attempt
  PROVE  \/ UNCHANGED <<dpc[b], order[b], wpc[b], spc[b], served[b]>>
         \/ OwnStep(b)
         \/ CloseStep(b)
<1>1. StageOK /\ OrderOK BY Parts
<1>2. ASSUME NEW a \in Attempt, OwnStep(a), a # b
      PROVE  UNCHANGED <<dpc[b], order[b], wpc[b], spc[b], served[b]>>
  BY <1>1, <1>2 DEF OwnStep, Begin, DispatchStep, Verify, Reaped, LookAtLease, RemoveLease,
     CreateLease,
     Recheck, Launch, Bind, StartupGrace, Record, StopChild, LaunchFailed, ReleaseDispatch, RunStep,
     Adopt, EndWork, CheckTerminal, AppendTerminal, ReleaseRun, Finalize, KillDispatcher, KillRun,
     DGoto, StageOK, OrderOK
<1>3. ASSUME NEW x \in Actor, CloseStep(x), x # b
      PROVE  UNCHANGED <<dpc[b], order[b], wpc[b], spc[b], served[b]>>
  BY <1>1, <1>3 DEF CloseStep, CheckInFlight, WriteTerminal, WriteTerminalFails, Unlease, DGoto,
     StageOK, OrderOK
<1>4. CASE \E i \in Item : CreateOrder(i) \/ Lapse(i)
  BY <1>4 DEF CreateOrder, Lapse
<1>5. CASE \E x \in Actor, o \in DOMAIN issued : Observe(x, o)
  BY <1>5 DEF Observe
<1>6. CASE (\E o \in DOMAIN issued : GrowOld(o)) \/ UNCHANGED vars
  BY <1>6 DEF GrowOld, vars
<1>7. QED BY <1>2, <1>3, <1>4, <1>5, <1>6 DEF Next, OwnStep

(* Orders and order files change where an order is created.                *)
LEMMA FilesStay ==
  ASSUME [Next]_vars
  PROVE  UNCHANGED <<issued, file>> \/ \E i \in Item : CreateOrder(i)
<1>1. ASSUME NEW a \in Attempt, OwnStep(a) PROVE UNCHANGED <<issued, file>>
  BY <1>1 DEF OwnStep, Begin, DispatchStep, Verify, Reaped, LookAtLease, RemoveLease, CreateLease,
     Recheck, Launch, Bind, StartupGrace, Record, StopChild, LaunchFailed, ReleaseDispatch, RunStep,
     Adopt, EndWork, CheckTerminal, AppendTerminal, ReleaseRun, Finalize, KillDispatcher, KillRun
<1>2. ASSUME NEW x \in Actor, CloseStep(x) PROVE UNCHANGED <<issued, file>>
  BY <1>2 DEF CloseStep, CheckInFlight, WriteTerminal, WriteTerminalFails, Unlease
<1>3. QED BY <1>1, <1>2 DEF Next, OwnStep, Lapse, Observe, GrowOld, vars

(* An order's item never changes, nor the order of a dispatch that has one.*)
LEMMA ItemStays ==
  ASSUME TypeOK, Placed, [Next]_vars
  PROVE  /\ DOMAIN issued \subseteq DOMAIN issued'
         /\ \A o \in DOMAIN issued : issued'[o] = issued[o]
         /\ \A a \in Attempt : order[a] # 0 => order'[a] = order[a] /\ ItemOf(a)' = ItemOf(a)
<1>1. /\ DOMAIN issued \subseteq DOMAIN issued'
      /\ \A o \in DOMAIN issued : issued'[o] = issued[o]
  <2>1. CASE UNCHANGED issued BY <2>1
  <2>2. ASSUME NEW i \in Item, CreateOrder(i)
        PROVE  /\ DOMAIN issued \subseteq DOMAIN issued'
               /\ \A o \in DOMAIN issued : issued'[o] = issued[o]
    BY <2>2, Parts DEF CreateOrder
  <2>3. QED BY <2>1, <2>2, FilesStay
<1>2. ASSUME NEW a \in Attempt, order[a] # 0 PROVE order'[a] = order[a]
  <2>1. CASE OwnStep(a)
    BY <1>2, <2>1 DEF OwnStep, Begin, DispatchStep, Verify, Reaped, LookAtLease, RemoveLease,
       CreateLease,
     Recheck, Launch, Bind, StartupGrace, Record, StopChild, LaunchFailed, ReleaseDispatch, RunStep,
     Adopt, EndWork, CheckTerminal, AppendTerminal, ReleaseRun, Finalize, KillDispatcher, KillRun,
     DAt, Placed
  <2>2. CASE CloseStep(a)
    BY <2>2 DEF CloseStep, CheckInFlight, WriteTerminal, WriteTerminalFails, Unlease
  <2>3. QED BY <2>1, <2>2, Owned
<1>3. QED BY <1>1, <1>2, OrderTyped DEF ItemOf

(* Who writes which row.                                                   *)
LEMMA RowsChange ==
  ASSUME TypeOK, Placed, [Next]_vars
  PROVE  \/ Rows' = Rows
         \/ \E a \in Attempt :
               /\ dpc[a] = "verify" /\ Verify(a) /\ dpc'[a] = "done"
               /\ Rows' = Rows \cup {Row("terminal", order[a], NoRun, "dispatch")}
         \/ \E a \in Attempt :
               /\ dpc[a] = "record" /\ Record(a) /\ dpc'[a] = "done"
               /\ Rows' = Rows \cup {Row("dispatched", order[a], a, "dispatch")}
         \/ \E a \in Attempt :
               /\ dpc[a] = "failed" /\ LaunchFailed(a)
               /\ Rows' = Rows \cup {Row("terminal", order[a], NoRun, "dispatch")}
         \/ \E a \in Attempt :
               /\ wpc[a] = "append" /\ AppendTerminal(a)
               /\ Rows' = Rows \cup {Row("terminal", served[a], a, "run")}
         \/ \E x \in Actor :
               /\ JobAt(x, "write") /\ WriteTerminal(x)
               /\ Rows' = Rows \cup {Row("terminal", job[x].order, NoRun, By(x))}
<1>0. trace \in Seq(RowSet) /\ StageOK /\ OrderOK /\ JobOK BY Parts
<1>1. ASSUME NEW a \in Attempt, Verify(a)
      PROVE  \/ Rows' = Rows
             \/ /\ dpc[a] = "verify" /\ dpc'[a] = "done"
                /\ Rows' = Rows \cup {Row("terminal", order[a], NoRun, "dispatch")}
  <2>1. dpc[a] = "verify" /\ Row("terminal", order[a], NoRun, "dispatch") \in RowSet
    BY <1>0, <1>1, OrderTyped DEF Verify, DAt, Placed, Row, RowSet
  <2>2. QED BY <1>0, <1>1, <2>1, RowTyped DEF Verify, Rows, DGoto, StageOK
<1>2. ASSUME NEW a \in Attempt, Record(a)
      PROVE  \/ Rows' = Rows
             \/ /\ dpc[a] = "record" /\ dpc'[a] = "done"
                /\ Rows' = Rows \cup {Row("dispatched", order[a], a, "dispatch")}
  <2>1. dpc[a] = "record" /\ Row("dispatched", order[a], a, "dispatch") \in RowSet
    BY <1>0, <1>2, OrderTyped DEF Record, DAt, Placed, Row, RowSet
  <2>2. QED BY <1>0, <1>2, <2>1, RowTyped DEF Record, Rows, DGoto, StageOK
<1>3. ASSUME NEW a \in Attempt, LaunchFailed(a)
      PROVE  dpc[a] = "failed" /\ Rows' = Rows \cup {Row("terminal", order[a], NoRun, "dispatch")}
  <2>1. dpc[a] = "failed" /\ Row("terminal", order[a], NoRun, "dispatch") \in RowSet
    BY <1>0, <1>3, OrderTyped DEF LaunchFailed, DAt, Placed, Row, RowSet
  <2>2. QED BY <1>3, <2>1, RowTyped DEF LaunchFailed
<1>4. ASSUME NEW a \in Attempt, AppendTerminal(a)
      PROVE  \/ Rows' = Rows
             \/ wpc[a] = "append" /\ Rows' = Rows \cup {Row("terminal", served[a], a, "run")}
  <2>1. wpc[a] = "append" /\ Row("terminal", served[a], a, "run") \in RowSet
    BY <1>0, <1>4, OrderTyped DEF AppendTerminal, Placed, OrderOK, Row, RowSet
  <2>2. QED BY <1>4, <2>1, RowTyped DEF AppendTerminal, Rows
<1>5. ASSUME NEW x \in Actor, WriteTerminal(x)
      PROVE  /\ JobAt(x, "write")
             /\ Rows' = Rows \cup {Row("terminal", job[x].order, NoRun, By(x))}
  <2>1. job[x].order # 0 /\ job[x].order \in 0 .. Len(issued)
    BY <1>0, <1>5 DEF WriteTerminal, JobAt, NoJob, Placed, JobOK, JobSet
  <2>2. By(x) \in {"supervisor", "reaper"} BY DEF By
  <2>3. Row("terminal", job[x].order, NoRun, By(x)) \in RowSet
    BY <2>1, <2>2, OrderTyped DEF Row, RowSet
  <2>4. QED BY <1>5, <2>3, RowTyped DEF WriteTerminal
<1>6. CASE UNCHANGED trace
  BY <1>6 DEF Rows
<1>7. ASSUME NEW a \in Attempt, OwnStep(a),
             ~Verify(a), ~Record(a), ~LaunchFailed(a), ~AppendTerminal(a)
      PROVE  UNCHANGED trace
  BY <1>7 DEF OwnStep, Begin, DispatchStep, Reaped, LookAtLease, RemoveLease, CreateLease,
     Recheck, Launch, Bind, StartupGrace, StopChild, ReleaseDispatch, RunStep,
     Adopt, EndWork, CheckTerminal, ReleaseRun, Finalize, KillDispatcher, KillRun
<1>8. ASSUME NEW x \in Actor, CloseStep(x), ~WriteTerminal(x) PROVE UNCHANGED trace
  BY <1>8 DEF CloseStep, CheckInFlight, WriteTerminalFails, Unlease
<1>9. CASE \E a \in Attempt : OwnStep(a)
  BY <1>1, <1>2, <1>3, <1>4, <1>6, <1>7, <1>9
<1>10. CASE \E x \in Actor : CloseStep(x)
  BY <1>5, <1>6, <1>8, <1>10
<1>11. CASE \/ \E i \in Item : CreateOrder(i) \/ Lapse(i)
            \/ \E x \in Actor, o \in DOMAIN issued : Observe(x, o)
            \/ \E o \in DOMAIN issued : GrowOld(o)
            \/ UNCHANGED vars
  BY <1>6, <1>11 DEF CreateOrder, Lapse, Observe, GrowOld, vars
<1>12. QED BY <1>9, <1>10, <1>11 DEF Next, OwnStep
(* A job is taken by an observation or by a supervisor, goes on by its own *)
(* steps, and is otherwise dropped.                                        *)
LEMMA JobsChange ==
  ASSUME TypeOK, [Next]_vars, NEW x \in Actor
  PROVE  \/ job'[x] = job[x] \/ job'[x] = NoJob
         \/ \E o \in DOMAIN issued : Observe(x, o)
         \/ CheckInFlight(x) \/ WriteTerminal(x)
         \/ x \in Attempt /\ Finalize(x)
<1>0. JobOK /\ Attempt \subseteq Actor BY Parts DEF Actor
<1>1. ASSUME NEW a \in Attempt, OwnStep(a), ~(x = a /\ Finalize(a))
      PROVE  job'[x] = job[x] \/ job'[x] = NoJob
  BY <1>0, <1>1 DEF OwnStep, Begin, DispatchStep, Verify, Reaped, LookAtLease, RemoveLease,
     CreateLease,
     Recheck, Launch, Bind, StartupGrace, Record, StopChild, LaunchFailed, ReleaseDispatch, RunStep,
     Adopt, EndWork, CheckTerminal, AppendTerminal, ReleaseRun, Finalize, KillDispatcher, KillRun,
     JobOK
<1>2. ASSUME NEW y \in Actor, CloseStep(y), ~(x = y /\ (CheckInFlight(x) \/ WriteTerminal(x)))
      PROVE  job'[x] = job[x] \/ job'[x] = NoJob
  BY <1>0, <1>2 DEF CloseStep, CheckInFlight, WriteTerminal, WriteTerminalFails, Unlease, JobGoto,
     JobOK
<1>3. ASSUME NEW y \in Actor, NEW o \in DOMAIN issued, Observe(y, o), x # y
      PROVE  job'[x] = job[x]
  BY <1>0, <1>3 DEF Observe, JobOK
<1>4. CASE (\E i \in Item : CreateOrder(i) \/ Lapse(i)) \/ (\E o \in DOMAIN issued : GrowOld(o))
           \/ UNCHANGED vars
  BY <1>4 DEF CreateOrder, Lapse, GrowOld, vars
<1>5. QED BY <1>1, <1>2, <1>3, <1>4 DEF Next, OwnStep

(* Who changes an item's lease.                                            *)
LEMMA LeaseChange ==
  ASSUME TypeOK, Placed, [Next]_vars, NEW i \in Item
  PROVE  \/ lease'[i] = lease[i]
         \/ CreateOrder(i) /\ lease'[i] = NoLease
         \/ Lapse(i) /\ lease'[i] = [lease[i] EXCEPT !.lapsed = TRUE]
         \/ \E a \in Attempt :
               /\ ItemOf(a) = i
               /\ \/ RemoveLease(a) /\ lease'[i] = NoLease
                  \/ CreateLease(a) /\ lease'[i] = [run |-> NoRun, lapsed |-> FALSE]
                  \/ /\ Bind(a) /\ lease[i] # NoLease /\ lease'[i] = [lease[i] EXCEPT !.run = a]
                     /\ dpc' = [dpc EXCEPT ![a] = "grace"]
                  \/ ReleaseDispatch(a) /\ lease'[i] = NoLease
                  \/ ReleaseRun(a) /\ lease'[i] = NoLease
         \/ \E x \in Actor : Unlease(x) /\ issued[job[x].order] = i /\ lease'[i] = NoLease
<1>0. LeaseOK BY Parts
<1>1. ASSUME NEW a \in Attempt, OwnStep(a), lease'[i] # lease[i]
      PROVE  /\ ItemOf(a) = i
             /\ \/ RemoveLease(a) /\ lease'[i] = NoLease
                \/ CreateLease(a) /\ lease'[i] = [run |-> NoRun, lapsed |-> FALSE]
                \/ /\ Bind(a) /\ lease[i] # NoLease /\ lease'[i] = [lease[i] EXCEPT !.run = a]
                   /\ dpc' = [dpc EXCEPT ![a] = "grace"]
                \/ ReleaseDispatch(a) /\ lease'[i] = NoLease
                \/ ReleaseRun(a) /\ lease'[i] = NoLease
  <2>1. CASE RemoveLease(a) \/ CreateLease(a) \/ ReleaseDispatch(a) \/ ReleaseRun(a)
    BY <1>0, <1>1, <2>1 DEF RemoveLease, CreateLease, ReleaseDispatch, ReleaseRun, LeaseOK
  <2>2. CASE Bind(a)
    BY <1>0, <1>1, <2>2 DEF Bind, DGoto, LeaseOK
  <2>3. CASE ~(RemoveLease(a) \/ CreateLease(a) \/ ReleaseDispatch(a) \/ ReleaseRun(a) \/ Bind(a))
    BY <1>1, <2>3 DEF OwnStep, Begin, DispatchStep, Verify, Reaped, LookAtLease, Recheck, Launch,
       StartupGrace, Record, StopChild, LaunchFailed, RunStep, Adopt, EndWork, CheckTerminal,
       AppendTerminal, Finalize, KillDispatcher, KillRun
  <2>4. QED BY <2>1, <2>2, <2>3
<1>2. ASSUME NEW x \in Actor, CloseStep(x), lease'[i] # lease[i]
      PROVE  Unlease(x) /\ issued[job[x].order] = i /\ lease'[i] = NoLease
  BY <1>0, <1>2 DEF CloseStep, CheckInFlight, WriteTerminal, WriteTerminalFails, Unlease, LeaseOK
<1>3. ASSUME NEW j \in Item, CreateOrder(j) \/ Lapse(j), lease'[i] # lease[i]
      PROVE  \/ CreateOrder(i) /\ lease'[i] = NoLease
             \/ Lapse(i) /\ lease'[i] = [lease[i] EXCEPT !.lapsed = TRUE]
  BY <1>0, <1>3 DEF CreateOrder, Lapse, LeaseOK
<1>4. CASE (\E x \in Actor, o \in DOMAIN issued : Observe(x, o))
           \/ (\E o \in DOMAIN issued : GrowOld(o)) \/ UNCHANGED vars
  BY <1>4 DEF Observe, GrowOld, vars
<1>5. QED BY <1>1, <1>2, <1>3, <1>4 DEF Next, OwnStep
--------------------------------------------------------------------------------
(* The invariant of sequential dispatches.                                 *)

(* What an actor's own step does to its dispatch and its run.              *)
LEMMA Moves ==
  ASSUME Sequential, TypeOK, Placed, Staged, [Next]_vars, NEW a \in Attempt
  PROVE  /\ Dispatching(a)' => Dispatching(a) \/ \E i \in Item : Begin(a, i)
         /\ SAlive(a)' => SAlive(a) \/ (dpc[a] = "launch" /\ Launch(a))
         /\ WAlive(a)' => WAlive(a) \/ (dpc[a] = "launch" /\ Launch(a))
<1>0. StageOK BY Parts
<1>1. CASE OwnStep(a)
  BY <1>0, <1>1 DEF OwnStep, Begin, DispatchStep, Verify, Reaped, LookAtLease, RemoveLease,
     CreateLease,
     Recheck, Launch, Bind, StartupGrace, Record, StopChild, LaunchFailed, ReleaseDispatch, RunStep,
     Adopt, EndWork, CheckTerminal, AppendTerminal, ReleaseRun, Finalize, KillDispatcher, KillRun,
     DAt, DGoto, StageOK, Dispatching, SAlive, WAlive
<1>2. CASE CloseStep(a)
  BY <1>0, <1>2 DEF CloseStep, CheckInFlight, WriteTerminal, WriteTerminalFails, Unlease,
     DAt, DGoto, JobAt, NoJob, StageOK, Dispatching, SAlive, WAlive, By, Staged
<1>3. QED BY <1>1, <1>2, Owned DEF Dispatching, SAlive, WAlive

(* No step begins a second dispatch, or dispatches an order again.         *)
LEMMA OneDispatchStep ==
  ASSUME Sequential, TypeOK, Placed, Staged, OneDispatch, [Next]_vars
  PROVE  OneDispatch'
<1>0. StageOK /\ OrderOK BY Parts
<1>1. ASSUME NEW a \in Attempt, NEW i \in Item, Begin(a, i) PROVE OneDispatch'
  BY <1>0, <1>1 DEF Begin, DAt, DGoto, OneDispatch, Dispatching, Sequential, StageOK, OrderOK,
     Placed
<1>2. CASE ~ \E a \in Attempt, i \in Item : Begin(a, i)
  <2>1. order' = order
    BY <1>2 DEF Next, Lapse, CreateOrder, Observe, GrowOld, vars, DispatchStep, Verify, Reaped,
       LookAtLease, RemoveLease,
       CreateLease, Recheck, Launch, Bind, StartupGrace, Record, StopChild, LaunchFailed,
       ReleaseDispatch, RunStep, Adopt, EndWork, CheckTerminal, AppendTerminal, ReleaseRun,
       Finalize,
       KillDispatcher, KillRun, CloseStep, CheckInFlight, WriteTerminal, WriteTerminalFails, Unlease
  <2>2. QED BY <1>2, <2>1, Moves DEF OneDispatch
<1>3. QED BY <1>1, <1>2

(* An order that is dispatched has a run, whose dispatch is done.          *)
LEMMA DispatchedIsDone ==
  ASSUME OneDispatch, Accounted, NEW a \in Attempt, order[a] # 0, Dispatched(order[a])
  PROVE  dpc[a] = "done"
BY DEF OneDispatch, Accounted, Dispatched

(* Every step keeps a run, its supervisor and its dispatch in step.        *)
LEMMA StagedStep ==
  ASSUME Sequential, TypeOK, Placed, OneDispatch, Staged, Current, Accounted, [Next]_vars
  PROVE  Staged'
<1> SUFFICES ASSUME NEW a \in Attempt
             PROVE  /\ (dpc[a] = "idle" \/ Prepared(a) => wpc[a] = "none" /\ spc[a] = "none")'
                    /\ (spc[a] # "none" => wpc[a] # "none")'
                    /\ (WAlive(a) => spc[a] = "watch")'
                    /\ (SAlive(a) => Launching(a) \/ dpc[a] = "done")'
                    /\ (spc[a] = "close" => dpc[a] = "done")'
                    /\ (job[a] # NoJob => dpc[a] \in {"reap", "recheck"} \/ spc[a] = "close")'
  BY DEF Staged
<1> USE DEF Prepared, Launching, WAlive, SAlive, DAt, DGoto
<1>0. StageOK /\ JobOK /\ a \in Actor BY Parts DEF Actor
<1>1. /\ dpc[a] = "idle" \/ Prepared(a) => wpc[a] = "none" /\ spc[a] = "none"
      /\ spc[a] # "none" => wpc[a] # "none"
      /\ WAlive(a) => spc[a] = "watch"
      /\ SAlive(a) => Launching(a) \/ dpc[a] = "done"
      /\ spc[a] = "close" => dpc[a] = "done"
      /\ job[a] # NoJob => dpc[a] \in {"reap", "recheck"} \/ spc[a] = "close"
  BY DEF Staged
<1>2. CASE Finalize(a)
  <2>1. spc'[a] = "close" => dpc[a] = "done"
    <3>1. SAlive(a) /\ order[a] # 0 /\ file[ItemOf(a)] = order[a]
      BY <1>0, <1>2 DEF Finalize, Current, Placed
    <3>2. SUFFICES ASSUME spc'[a] = "close" PROVE Dispatched(order[a])
      BY <3>1, DispatchedIsDone
    <3>3. QED BY <1>0, <1>2, <3>1, <3>2 DEF Finalize, InFlight, StageOK
  <2>2. /\ UNCHANGED <<dpc, wpc>> /\ spc[a] = "watch" /\ ~WAlive(a)
        /\ spc'[a] \in {"close", "gone"}
        /\ spc'[a] # "close" => job' = job
    BY <1>0, <1>2 DEF Finalize, StageOK
  <2>3. QED BY <1>1, <2>1, <2>2
<1>3. CASE Verify(a) \/ Reaped(a) \/ LookAtLease(a) \/ RemoveLease(a) \/ CreateLease(a)
           \/ Recheck(a) \/ Launch(a) \/ \E i \in Item : Begin(a, i)
  BY <1>0, <1>1, <1>3 DEF Begin, Verify, Reaped, LookAtLease, RemoveLease, CreateLease, Recheck,
     Launch,
     StageOK
<1>4. CASE Bind(a) \/ StartupGrace(a) \/ Record(a) \/ StopChild(a) \/ LaunchFailed(a)
           \/ ReleaseDispatch(a)
  BY <1>0, <1>1, <1>4 DEF Bind, StartupGrace, Record, StopChild, LaunchFailed, ReleaseDispatch,
     StageOK, Sequential
<1>5. CASE Adopt(a) \/ EndWork(a) \/ CheckTerminal(a) \/ AppendTerminal(a) \/ ReleaseRun(a)
  BY <1>0, <1>1, <1>5 DEF Adopt, EndWork, CheckTerminal, AppendTerminal, ReleaseRun, StageOK
<1>6. CASE KillDispatcher(a)
  BY <1>0, <1>1, <1>6 DEF KillDispatcher, StageOK, JobOK, Sequential, Dispatching, Reaping
<1>7. CASE KillRun(a)
  BY <1>0, <1>1, <1>7 DEF KillRun, StageOK, JobOK, Sequential
<1>8. CASE CloseStep(a)
  BY <1>0, <1>1, <1>8 DEF CloseStep, CheckInFlight, WriteTerminal, WriteTerminalFails, Unlease,
     StageOK,
     JobOK, JobAt, JobGoto, By, NoJob
<1>9. CASE UNCHANGED <<dpc[a], order[a], wpc[a], spc[a], served[a]>> /\ ~CloseStep(a) /\ ~Finalize(a)
  <2>1. \/ job'[a] = job[a] \/ job'[a] = NoJob
        \/ \E o \in DOMAIN issued : Observe(a, o)
    BY <1>0, <1>9, JobsChange DEF CloseStep
  <2>2. QED BY <1>1, <1>9, <2>1 DEF Observe, Reaping
<1>10. QED
  BY <1>2, <1>3, <1>4, <1>5, <1>6, <1>7, <1>8, <1>9, Owned DEF OwnStep, DispatchStep, RunStep

(* Rows have their type.                                                   *)
LEMMA RowsTyped == TypeOK => Rows \subseteq RowSet
BY Parts DEF Rows

(* Orders become dispatched by a record, and stay ended.                   *)
LEMMA Recorded ==
  ASSUME TypeOK, Placed, [Next]_vars, NEW o
  PROVE  /\ Dispatched(o) => Dispatched(o)'
         /\ Dispatched(o)' => \/ Dispatched(o)
                              \/ \E a \in Attempt : /\ o = order[a] /\ Record(a) /\ dpc[a] = "record"
                                                    /\ dpc'[a] = "done"
         /\ Terminal(o) => Terminal(o)'
         /\ o \in InFlight' =>
               \/ o \in InFlight
               \/ \E a \in Attempt : /\ o = order[a] /\ Record(a) /\ dpc[a] = "record"
                                     /\ dpc'[a] = "done"
<1>1. /\ Dispatched(o) => Dispatched(o)'
      /\ Dispatched(o)' => \/ Dispatched(o)
                           \/ \E a \in Attempt : /\ o = order[a] /\ Record(a) /\ dpc[a] = "record"
                                                 /\ dpc'[a] = "done"
      /\ Terminal(o) => Terminal(o)'
  BY RowsChange DEF Dispatched, Terminal, Row
<1>2. Dispatched(o) => o \in DOMAIN issued
  BY RowsTyped DEF Dispatched, RowSet
<1>3. QED BY <1>1, <1>2 DEF InFlight

(* An order is created for an item that nobody dispatches, serves or       *)
(* closes.                                                                 *)
LEMMA CreatedFree ==
  ASSUME Sequential, TypeOK, Placed, Staged, Current, Accounted, NEW i \in Item, CreateOrder(i)
  PROVE  /\ \A a \in Attempt : ~Dispatching(a) /\ (ItemOf(a) = i => ~SAlive(a))
         /\ \A x \in Actor : job[x] # NoJob => issued[job[x].order] # i
         /\ file[i] \notin InFlight
<1>1. /\ \A a \in Attempt : ~Dispatching(a) /\ (ItemOf(a) = i => ~Ending(a))
      /\ \A x \in Actor : job[x] # NoJob => issued[job[x].order] # i
      /\ file[i] \notin InFlight
  BY DEF CreateOrder, Busy, Sequential
<1>2. SUFFICES ASSUME NEW a \in Attempt, ItemOf(a) = i, SAlive(a) PROVE FALSE
  BY <1>1
<1>3. StageOK BY Parts
<1>4. dpc[a] = "done" /\ wpc[a] # "none"
  BY <1>1, <1>2 DEF Staged, Launching, Dispatching, SAlive
<1>5. wpc[a] \in {"start", "work"}
  BY <1>1, <1>2, <1>3, <1>4 DEF Ending, StageOK, WLabel
<1>6. Dispatched(order[a]) /\ ~Terminal(order[a]) /\ file[i] = order[a]
  BY <1>2, <1>4, <1>5 DEF Accounted, Unended, WAlive, Current
<1>7. order[a] \in DOMAIN issued
  BY <1>4, OrderTyped DEF Placed
<1>8. QED BY <1>1, <1>6, <1>7 DEF InFlight

(* Every step keeps the order file at the order that is dispatched, served *)
(* or in flight.                                                           *)
LEMMA CurrentStep ==
  ASSUME Constants, Sequential, TypeOK, Placed, OneDispatch, Staged, Current, Accounted, [Next]_vars
  PROVE  Current'
<1>0. StageOK /\ OrderOK /\ TypeOK' /\ Placed' BY Parts, TypeStep
<1>1. ASSUME NEW a \in Attempt, (Dispatching(a) \/ SAlive(a))' PROVE (file[ItemOf(a)] = order[a])'
  <2>1. CASE \E i \in Item : Begin(a, i)
    BY <1>0, <2>1, OrderTyped DEF Begin, DAt, OrderOK, ItemOf, Placed
  <2>2. CASE ~ \E i \in Item : Begin(a, i)
    <3>1. Dispatching(a) \/ SAlive(a)
      BY <1>1, <2>2, Moves DEF Dispatching
    <3>2. order[a] # 0 /\ file[ItemOf(a)] = order[a]
      BY <3>1 DEF Current, Placed, Dispatching, SAlive
    <3>3. order'[a] = order[a] /\ ItemOf(a)' = ItemOf(a)
      BY <3>2, ItemStays
    <3>4. ASSUME NEW i \in Item, CreateOrder(i) PROVE ItemOf(a) # i
      BY <3>1, <3>4, CreatedFree
    <3>5. file'[ItemOf(a)] = file[ItemOf(a)]
      BY <3>2, <3>4, FilesStay, Parts, OrderTyped DEF CreateOrder
    <3>6. QED BY <3>2, <3>3, <3>5
  <2>3. QED BY <2>1, <2>2
<1>2. ASSUME NEW a \in Attempt, wpc'[a] \in {"work", "check", "append", "release"}
      PROVE  served'[a] = order'[a]
  <2>1. CASE Adopt(a)
    <3>1. wpc[a] = "start" /\ order' = order BY <2>1 DEF Adopt
    <3>2. file[ItemOf(a)] = order[a] BY <3>1 DEF Current, SAlive, WAlive, Staged
    <3>3. served' = [served EXCEPT ![a] = file[ItemOf(a)]]
      BY <1>0, <1>2, <2>1 DEF Adopt, StageOK
    <3>4. QED BY <1>0, <3>1, <3>2, <3>3 DEF OrderOK
  <2>2. CASE ~Adopt(a)
    <3>1. wpc[a] \in {"work", "check", "append", "release"} /\ served'[a] = served[a]
      <4>1. CASE OwnStep(a)
        BY <1>0, <1>2, <2>2, <4>1 DEF OwnStep, Begin, DispatchStep, Verify, Reaped, LookAtLease,
           RemoveLease, CreateLease, Recheck, Launch, Bind, StartupGrace, Record, StopChild,
           LaunchFailed, ReleaseDispatch, RunStep, EndWork, CheckTerminal, AppendTerminal,
           ReleaseRun, Finalize, KillDispatcher, KillRun, StageOK
      <4>2. CASE CloseStep(a)
        BY <1>2, <4>2 DEF CloseStep, CheckInFlight, WriteTerminal, WriteTerminalFails, Unlease
      <4>3. QED BY <1>2, <4>1, <4>2, Owned
    <3>2. order[a] # 0 /\ served[a] = order[a]
      BY <3>1 DEF Placed, Current
    <3>3. QED BY <3>1, <3>2, ItemStays
  <2>3. QED BY <2>1, <2>2
<1>3. ASSUME NEW o \in InFlight' PROVE file'[issued'[o]] = o
  <2>1. CASE o \in InFlight
    <3>1. o \in DOMAIN issued /\ file[issued[o]] = o /\ issued'[o] = issued[o] /\ issued[o] \in Item
      BY <2>1, ItemStays, OrderTyped DEF InFlight, Current
    <3>2. ASSUME NEW i \in Item, CreateOrder(i) PROVE issued[o] # i
      BY <2>1, <3>1, <3>2, CreatedFree
    <3>3. file'[issued[o]] = file[issued[o]]
      BY <3>1, <3>2, FilesStay, Parts DEF CreateOrder
    <3>4. QED BY <3>1, <3>3
  <2>2. ASSUME NEW a \in Attempt, o = order[a], Record(a), dpc[a] = "record"
        PROVE  file'[issued'[o]] = o
    BY <2>2, OrderTyped DEF Record, Current, Dispatching, Placed, ItemOf
  <2>3. QED BY <2>1, <2>2, Recorded
<1>4. QED BY <1>1, <1>2, <1>3 DEF Current
(* A dispatch that is done stays done, and gets there from one that was    *)
(* under way.                                                              *)
LEMMA DoneStays ==
  ASSUME TypeOK, Staged, [Next]_vars, NEW a \in Attempt
  PROVE  /\ dpc[a] = "done" => dpc'[a] = "done"
         /\ dpc'[a] = "done" => \/ dpc[a] = "done" \/ Record(a)
                                \/ Prepared(a) \/ dpc[a] = "release"
         /\ dpc[a] = "release" => dpc'[a] # "record"
<1> USE DEF DAt, DGoto, Prepared
<1>0. StageOK BY Parts
<1>1. CASE OwnStep(a)
  BY <1>0, <1>1 DEF OwnStep, Begin, DispatchStep, Verify, Reaped, LookAtLease, RemoveLease,
     CreateLease,
     Recheck, Launch, Bind, StartupGrace, Record, StopChild, LaunchFailed, ReleaseDispatch, RunStep,
     Adopt, EndWork, CheckTerminal, AppendTerminal, ReleaseRun, Finalize, KillDispatcher, KillRun,
     StageOK, Dispatching
<1>2. CASE CloseStep(a)
  <2>1. job[a] # NoJob \/ dpc' = dpc
    BY <1>2 DEF CloseStep, CheckInFlight, WriteTerminal, WriteTerminalFails, Unlease, JobAt, NoJob
  <2>2. QED
    BY <1>0, <1>2, <2>1 DEF CloseStep, CheckInFlight, WriteTerminal, WriteTerminalFails, Unlease,
       By, Staged, StageOK
<1>3. QED BY <1>1, <1>2, Owned

(* A run that is not over was launched earlier, or is to be.               *)
LEMMA UnendedBefore ==
  ASSUME TypeOK, Staged, [Next]_vars, NEW a \in Attempt, Unended(a)'
  PROVE  Unended(a) \/ \E i \in Item : Begin(a, i)
<1> USE DEF DAt, DGoto, Prepared, Unended
<1>0. StageOK BY Parts
<1>1. CASE OwnStep(a)
  BY <1>0, <1>1 DEF OwnStep, DispatchStep, Verify, Reaped, LookAtLease, RemoveLease, CreateLease,
     Recheck, Launch, Bind, StartupGrace, Record, StopChild, LaunchFailed, ReleaseDispatch, RunStep,
     Adopt, EndWork, CheckTerminal, AppendTerminal, ReleaseRun, Finalize, KillDispatcher, KillRun,
     StageOK
<1>2. CASE CloseStep(a)
  BY <1>0, <1>2 DEF CloseStep, CheckInFlight, WriteTerminal, WriteTerminalFails, Unlease, StageOK
<1>3. QED BY <1>1, <1>2, Owned

(* Every step keeps the rows those of orders that have a dispatch, and     *)
(* keeps unended orders without a terminal row.                            *)
LEMMA AccountedStep ==
  ASSUME Constants, Sequential, TypeOK, Placed, OneDispatch, Staged, Current, Accounted, Closing,
         [Next]_vars
  PROVE  Accounted'
<1>0. StageOK /\ OrderOK /\ JobOK /\ TypeOK' /\ Placed' BY Parts, TypeStep
<1>1. ASSUME NEW row \in Rows' PROVE \E a \in Attempt : order'[a] = row.order
  <2>1. SUFFICES ASSUME NEW a \in Attempt, order[a] = row.order, order[a] # 0
                 PROVE  \E b \in Attempt : order'[b] = row.order
    <3>1. CASE row \in Rows
      <4>1. row.order # 0 BY <3>1, OrderTyped, RowsTyped DEF RowSet
      <4>2. QED BY <2>1, <3>1, <4>1 DEF Accounted
    <3>2. ASSUME NEW a \in Attempt, row.order = order[a], dpc[a] # "idle"
          PROVE  \E b \in Attempt : order'[b] = row.order
      BY <2>1, <3>2 DEF Placed
    <3>3. ASSUME NEW a \in Attempt, wpc[a] = "append", row.order = served[a]
          PROVE  \E b \in Attempt : order'[b] = row.order
      BY <2>1, <3>3 DEF Placed, Current
    <3>4. ASSUME NEW x \in Actor, JobAt(x, "write"), row.order = job[x].order
          PROVE  \E b \in Attempt : order'[b] = row.order
      <4>1. PICK d \in Rows : d.kind = "dispatched" /\ d.order = row.order
        BY <3>4 DEF Closing, Closable, JobAt, NoJob, Dispatched
      <4>2. row.order # 0 BY <4>1, OrderTyped, RowsTyped DEF RowSet
      <4>3. QED BY <2>1, <4>1, <4>2 DEF Accounted
    <3>5. QED BY <3>1, <3>2, <3>3, <3>4, RowsChange DEF Row
  <2>2. QED BY <2>1, ItemStays
<1>2. ASSUME NEW row \in Rows', row.kind = "dispatched"
      PROVE  row.run \in Attempt /\ order'[row.run] = row.order /\ dpc'[row.run] = "done"
  <2>1. CASE row \in Rows
    <3>1. row.run \in Attempt /\ order[row.run] = row.order /\ dpc[row.run] = "done" /\ row.order # 0
      BY <1>2, <2>1, OrderTyped, RowsTyped DEF Accounted, RowSet
    <3>2. QED BY <3>1, ItemStays, DoneStays
  <2>2. ASSUME NEW a \in Attempt, dpc[a] = "record", dpc'[a] = "done",
               row = Row("dispatched", order[a], a, "dispatch")
        PROVE  row.run \in Attempt /\ order'[row.run] = row.order /\ dpc'[row.run] = "done"
    <3>1. order[a] # 0 BY <2>2 DEF Placed
    <3>2. QED BY <2>2, <3>1, ItemStays DEF Row
  <2>3. QED BY <1>2, <2>1, <2>2, RowsChange DEF Row
<1>3. ASSUME NEW a \in Attempt, Unended(a)' PROVE (~Terminal(order[a]))'
  <2>1. ASSUME NEW i \in Item, Begin(a, i) PROVE (~Terminal(order[a]))'
    <3>1. order'[a] = file[i] /\ Rows' = Rows /\ \A b \in Attempt : order[b] # file[i]
      BY <1>0, <2>1 DEF Begin, OrderOK, Rows, Sequential
    <3>2. QED BY <3>1 DEF Accounted, Terminal
  <2>2. CASE ~ \E i \in Item : Begin(a, i)
    <3>1. Unended(a) /\ ~Terminal(order[a])
      BY <1>3, <2>2, UnendedBefore DEF Accounted
    <3>2. order[a] # 0 /\ order'[a] = order[a]
      <4>1. order[a] # 0
        BY <3>1 DEF Unended, Prepared, Placed
      <4>2. QED BY <4>1, ItemStays
    <3>3. SUFFICES ASSUME NEW row \in Rows' \ Rows, row.kind = "terminal", row.order = order[a]
                   PROVE  FALSE
      BY <3>1, <3>2 DEF Terminal
    <3>4. ASSUME NEW b \in Attempt, dpc[b] = "verify", dpc'[b] = "done", Verify(b),
    row.order = order[b]
          PROVE  FALSE
      <4>1. b = a BY <3>2, <3>3, <3>4 DEF OneDispatch
      <4>2. wpc'[a] = "none" BY <3>4, <4>1 DEF Verify, Staged, Prepared
      <4>3. QED BY <1>3, <3>4, <4>1, <4>2 DEF Unended, Prepared
    <3>5. ASSUME NEW b \in Attempt, dpc[b] = "failed", row.order = order[b] PROVE FALSE
      <4>1. b = a BY <3>2, <3>3, <3>5 DEF OneDispatch
      <4>2. QED BY <3>1, <3>5, <4>1 DEF Unended, Prepared, Staged, WAlive, SAlive, Launching
    <3>6. ASSUME NEW b \in Attempt, wpc[b] = "append", AppendTerminal(b), row.order = served[b]
          PROVE  FALSE
      <4>1. b = a BY <3>2, <3>3, <3>6, ZenonT(40) DEF OneDispatch, Current
      <4>2. wpc'[a] = "release" /\ dpc'[a] = dpc[a]
        BY <1>0, <3>6, <4>1 DEF AppendTerminal, StageOK
      <4>3. QED BY <1>3, <3>6, <4>1, <4>2 DEF Unended, Prepared, Staged
    <3>7. ASSUME NEW x \in Actor, JobAt(x, "write"), row.order = job[x].order
          PROVE  FALSE
      <4>0. job[x] # NoJob BY <3>7 DEF JobAt, NoJob
      <4>1. ~WAlive(a) /\ Dispatched(order[a])
        BY <3>3, <3>7, <4>0 DEF Closing, Closable
      <4>2. dpc[a] = "done" BY <3>2, <4>1, DispatchedIsDone
      <4>3. QED BY <3>1, <4>1, <4>2 DEF Unended, Prepared, WAlive
    <3>8. QED BY <3>3, <3>4, <3>5, <3>6, <3>7, RowsChange DEF Row
  <2>3. QED BY <2>1, <2>2
<1>4. ASSUME NEW a \in Attempt, dpc'[a] = "done", WAlive(a)' PROVE Dispatched(order[a])'
  <2>1. CASE dpc[a] = "done"
    <3>1. WAlive(a) BY <1>4, <2>1, Moves
    <3>2. Dispatched(order[a]) /\ order[a] # 0 BY <2>1, <3>1 DEF Accounted, Placed
    <3>3. QED BY <3>2, Recorded, ItemStays
  <2>2. CASE Record(a) /\ dpc[a] # "done"
    <3>1. dpc[a] = "record" /\ order[a] # 0 BY <2>2 DEF Record, DAt, Placed
    <3>2. trace' = Append(trace, Row("dispatched", order[a], a, "dispatch"))
      BY <1>0, <1>4, <2>2 DEF Record, DGoto, StageOK
    <3>3. Row("dispatched", order[a], a, "dispatch") \in RowSet
      BY <3>1, OrderTyped DEF Row, RowSet
    <3>4. Row("dispatched", order[a], a, "dispatch") \in Rows' BY <3>2, <3>3, RowTyped
    <3>5. QED BY <3>1, <3>4, ItemStays DEF Dispatched, Row
  <2>3. CASE Prepared(a) \/ dpc[a] = "release"
    <3>1. ~WAlive(a) BY <2>3 DEF Staged, WAlive, SAlive, Launching
    <3>2. Launch(a) /\ dpc[a] = "launch" BY <1>4, <3>1, Moves
    <3>3. QED BY <1>0, <1>4, <3>2 DEF Launch, DGoto, StageOK
  <2>4. QED BY <1>4, <2>1, <2>2, <2>3, DoneStays
<1>5. QED BY <1>1, <1>2, <1>3, <1>4 DEF Accounted
(* Whoever serves an item's order has no other dispatch or run beside it.  *)
LEMMA ItemOwner ==
  ASSUME TypeOK, Placed, OneDispatch, Current, NEW a \in Attempt, NEW b \in Attempt,
         Dispatching(a) \/ SAlive(a) \/ order[a] \in InFlight,
         Dispatching(b) \/ SAlive(b) \/ order[b] \in InFlight,
         ItemOf(a) = ItemOf(b), order[a] # 0, order[b] # 0
  PROVE  a = b
<1>1. ItemOf(a) = issued[order[a]] /\ ItemOf(b) = issued[order[b]]
  BY DEF ItemOf
<1>2. file[issued[order[a]]] = order[a] /\ file[issued[order[b]]] = order[b]
  BY <1>1 DEF Current
<1>3. QED BY <1>1, <1>2 DEF OneDispatch

(* A run that was started is bound, or stopped.                            *)
LEMMA BindLeaves ==
  ASSUME TypeOK, Staged, [Next]_vars, NEW a \in Attempt
  PROVE  /\ dpc[a] = "bind" /\ ~Bind(a) => dpc'[a] \in {"bind", "killed"}
         /\ dpc[a] = "stop" => dpc'[a] \in {"stop", "failed", "killed"}
<1> USE DEF DAt, DGoto
<1>0. StageOK BY Parts
<1>1. CASE OwnStep(a)
  BY <1>0, <1>1 DEF OwnStep, Begin, DispatchStep, Verify, Reaped, LookAtLease, RemoveLease,
     CreateLease,
     Recheck, Launch, Bind, StartupGrace, Record, StopChild, LaunchFailed, ReleaseDispatch, RunStep,
     Adopt, EndWork, CheckTerminal, AppendTerminal, ReleaseRun, Finalize, KillDispatcher, KillRun,
     StageOK
<1>2. CASE CloseStep(a)
  <2>1. job[a] # NoJob \/ dpc' = dpc
    BY <1>2 DEF CloseStep, CheckInFlight, WriteTerminal, WriteTerminalFails, Unlease, JobAt, NoJob
  <2>2. QED
    BY <1>0, <1>2, <2>1 DEF CloseStep, CheckInFlight, WriteTerminal, WriteTerminalFails, Unlease,
       By, Staged, StageOK
<1>3. QED BY <1>1, <1>2, Owned

(* Every step keeps a run its lease.                                       *)
LEMMA LeasedStep ==
  ASSUME Constants, Sequential, TypeOK, Placed, OneDispatch, Staged, Current, Accounted, Leased,
         Closing, [Next]_vars
  PROVE  Leased'
<1>0. StageOK /\ OrderOK /\ LeaseOK /\ JobOK BY Parts
<1>1. ASSUME NEW i \in Item, lease'[i] # NoLease, lease'[i].run # NoRun
      PROVE  (ItemOf(lease[i].run) = i)'
  <2>0. ASSUME NEW l \in Item, lease[l] # NoLease PROVE lease[l] \in LeaseSet
    BY <1>0, <2>0 DEF LeaseOK, LeaseSet
  <2>1. CASE lease[i] # NoLease /\ lease'[i].run = lease[i].run
    <3>1. lease[i].run \in Attempt /\ ItemOf(lease[i].run) = i
      BY <1>1, <2>0, <2>1 DEF Leased, LeaseSet
    <3>2. order[lease[i].run] # 0 BY <3>1 DEF ItemOf, Constants
    <3>3. QED BY <2>1, <3>1, <3>2, ItemStays
  <2>2. ASSUME NEW a \in Attempt, ItemOf(a) = i, lease[i] # NoLease,
  lease'[i] = [lease[i] EXCEPT !.run = a]
        PROVE  (ItemOf(lease[i].run) = i)'
    <3>1. lease'[i].run = a BY <2>0, <2>2 DEF LeaseSet
    <3>2. order[a] # 0 BY <2>2 DEF ItemOf, Constants
    <3>3. QED BY <2>2, <3>1, <3>2, ItemStays
  <2>3. CASE lease[i] # NoLease /\ lease'[i] = [lease[i] EXCEPT !.lapsed = TRUE]
    <3>1. lease'[i].run = lease[i].run BY <2>0, <2>3 DEF LeaseSet
    <3>2. QED BY <2>1, <2>3, <3>1
  <2>4. [run |-> NoRun, lapsed |-> FALSE].run = NoRun OBVIOUS
  <2>5. CASE lease'[i] = lease[i] BY <1>1, <2>1, <2>5
  <2>6. QED BY <1>1, <2>2, <2>3, <2>4, <2>5, LeaseChange DEF Lapse
<1>2. ASSUME NEW a \in Attempt, WAlive(a)', dpc'[a] \in {"grace", "record", "done"}
      PROVE  (lease[ItemOf(a)] # NoLease /\ lease[ItemOf(a)].run = a)'
  <2> DEFINE i == ItemOf(a)
  <2>1. WAlive(a)
    <3>1. SUFFICES ASSUME dpc[a] = "launch", Launch(a) PROVE FALSE BY <1>2, Moves
    <3>2. QED BY <1>0, <1>2, <3>1 DEF Launch, DGoto, StageOK, Sequential
  <2>2. /\ order[a] # 0 /\ order'[a] = order[a] /\ ItemOf(a)' = i /\ i \in Item
        /\ SAlive(a) /\ spc[a] = "watch" /\ file[i] = order[a]
        /\ (Launching(a) \/ dpc[a] = "done")
    BY <2>1, ItemStays, OrderTyped DEF Placed, WAlive, SAlive, Staged, Current
  <2> HIDE DEF i
  <2>20. ASSUME NEW l \in Item, lease[l] # NoLease PROVE lease[l] \in LeaseSet
    BY <1>0, <2>20 DEF LeaseOK, LeaseSet
  <2>3. CASE Bind(a)
    <3>1. lease' = [lease EXCEPT ![i].run = a] /\ lease[i] # NoLease
      BY <1>0, <1>2, <2>3 DEF Bind, DGoto, StageOK, i
    <3>2. lease'[i] = [lease[i] EXCEPT !.run = a] /\ lease[i] \in LeaseSet
      BY <1>0, <2>2, <2>20, <3>1 DEF LeaseOK
    <3>3. lease'[i].run = a /\ lease'[i] \in LeaseSet
      BY <3>2 DEF LeaseSet
    <3>4. QED BY <2>2, <3>3 DEF LeaseSet, Constants
  <2>4. CASE ~Bind(a)
    <3>1. dpc[a] \in {"grace", "record", "done"}
      <4>1. CASE dpc[a] = "bind" BY <1>0, <1>2, <2>1, <2>4, <4>1, BindLeaves
      <4>2. CASE dpc[a] = "stop" BY <1>2, <4>2, BindLeaves
      <4>3. QED BY <2>2, <4>1, <4>2 DEF Launching
    <3>2. lease[i] # NoLease /\ lease[i].run = a
      BY <2>1, <3>1 DEF Leased, i
    <3>3. lease'[i] = lease[i]
      <4>1. ~CreateOrder(i) BY <2>2, CreatedFree DEF i
      <4>2. ~Lapse(i) BY <3>2 DEF Lapse, Constants
      <4>3. ASSUME NEW b \in Attempt, ItemOf(b) = i,
                   RemoveLease(b) \/ CreateLease(b) \/ Bind(b) \/ ReleaseDispatch(b)
            PROVE  FALSE
        <5>1. dpc[b] \in {"remove", "create", "bind", "release"}
          BY <4>3 DEF RemoveLease, CreateLease, Bind, ReleaseDispatch, DAt
        <5>2. Dispatching(b) /\ order[b] # 0 BY <5>1 DEF Dispatching, Placed
        <5>3. b = a BY <2>2, <4>3, <5>2, ItemOwner DEF i
        <5>4. QED BY <3>1, <5>1, <5>3
      <4>4. ASSUME NEW b \in Attempt, ItemOf(b) = i, ReleaseRun(b) PROVE FALSE
        <5>1. wpc[b] = "release" /\ wpc' = [wpc EXCEPT ![b] = "gone"] BY <4>4 DEF ReleaseRun
        <5>2. SAlive(b) /\ order[b] # 0 BY <5>1 DEF Staged, WAlive, SAlive, Placed
        <5>3. b = a BY <2>2, <4>4, <5>2, ItemOwner DEF i
        <5>4. QED BY <1>0, <1>2, <5>1, <5>3 DEF WAlive, StageOK
      <4>5. ASSUME NEW x \in Actor, Unlease(x), issued[job[x].order] = i PROVE FALSE
        <5>1. job[x] # NoJob BY <4>5 DEF Unlease, JobAt, NoJob
        <5>2. order[a] = job[x].order BY <2>2, <4>5, <5>1 DEF Closing, Closable
        <5>3. QED BY <2>1, <5>1, <5>2 DEF Closing, Closable
      <4>6. QED BY <2>2, <4>1, <4>2, <4>3, <4>4, <4>5, LeaseChange
    <3>4. QED BY <2>2, <3>2, <3>3
  <2>5. QED BY <2>3, <2>4
<1>3. QED BY <1>1, <1>2 DEF Leased
(* A worker is not started twice for an order.                             *)
LEMMA ClosableStays ==
  ASSUME Sequential, TypeOK, Placed, OneDispatch, Staged, Current, Accounted, [Next]_vars,
         NEW o, Closable(o), \A i \in Item : CreateOrder(i) => issued[o] # i
  PROVE  Closable(o)'
<1>1. o \in DOMAIN issued /\ issued[o] \in Item /\ o # 0
  BY OrderTyped, RowsTyped DEF Closable, Dispatched, RowSet
<1>2. PICK b \in Attempt : order[b] = o /\ dpc[b] = "done"
  BY DEF Accounted, Closable, Dispatched
<1>3. ASSUME NEW a \in Attempt, order'[a] = o, WAlive(a)' PROVE FALSE
  <2>1. WAlive(a) \/ dpc[a] = "launch"
    BY <1>3, Moves
  <2>2. order[a] # 0 /\ order[a] = o
    <3>1. order[a] # 0 BY <2>1 DEF WAlive, Placed
    <3>2. QED BY <1>3, <3>1, ItemStays
  <2>3. a = b BY <1>2, <2>2 DEF OneDispatch
  <2>4. QED BY <1>2, <2>1, <2>2, <2>3 DEF Closable
<1>4. file'[issued'[o]] = o
  <2>1. issued'[o] = issued[o] BY <1>1, ItemStays
  <2>2. file'[issued[o]] = file[issued[o]]
    BY <1>1, FilesStay, Parts DEF CreateOrder
  <2>3. QED BY <2>1, <2>2 DEF Closable
<1>5. Dispatched(o)' BY Recorded DEF Closable
<1>6. QED BY <1>3, <1>4, <1>5 DEF Closable

(* Nobody closes an order whose run is at work, and what is closed has no  *)
(* row of its run.                                                         *)
LEMMA ClosingStep ==
  ASSUME Constants, Sequential, TypeOK, Placed, OneDispatch, Staged, Current, Accounted, Leased,
         Closing, [Next]_vars
  PROVE  Closing'
<1>0. StageOK /\ OrderOK /\ JobOK /\ Attempt \subseteq Actor BY Parts DEF Actor
<1>1. SUFFICES ASSUME NEW x \in Actor, NEW o, job'[x] # NoJob, job'[x].order = o
               PROVE  /\ Closable(o)'
                      /\ JobAt(x, "unlease")' => Terminal(o)'
                      /\ JobAt(x, "write")' => ~RunWrote(o)'
  BY DEF Closing
<1>2. CASE job[x] # NoJob /\ job[x].order = o
  <2>1. /\ Closable(o)
        /\ JobAt(x, "unlease") => Terminal(o)
        /\ JobAt(x, "write") => ~RunWrote(o)
    BY <1>2 DEF Closing
  <2>2. \A i \in Item : CreateOrder(i) => issued[o] # i
    BY <1>2, CreatedFree
  <2>3. Closable(o)' BY <2>1, <2>2, ClosableStays
  <2>4. ~RunWrote(o) => ~RunWrote(o)'
    <3>1. SUFFICES ASSUME NEW row \in Rows' \ Rows, row.kind = "terminal", row.by = "run", row.order = o
                   PROVE  FALSE
      BY DEF RunWrote
    <3>2. PICK b \in Attempt : wpc[b] = "append" /\ row.order = served[b]
      BY <3>1, RowsChange DEF Row, By
    <3>3. order[b] = o BY <3>1, <3>2 DEF Current
    <3>4. QED BY <2>1, <3>2, <3>3 DEF Closable, WAlive
  <2>5. CASE job'[x] = job[x]
    BY <2>1, <2>3, <2>4, <2>5, Recorded DEF JobAt
  <2>6. CASE CheckInFlight(x)
    <3>1. o \in DOMAIN issued BY <2>1, RowsTyped DEF Closable, Dispatched, RowSet
    <3>2. job'[x].at = (IF o \in InFlight THEN "write" ELSE "unlease")
      BY <1>0, <1>2, <2>6 DEF CheckInFlight, JobGoto, JobOK, JobSet
    <3>3. CASE o \in InFlight
      <4>1. ~RunWrote(o) BY <3>3 DEF InFlight, Terminal, RunWrote
      <4>2. QED BY <2>3, <2>4, <3>2, <3>3, <4>1 DEF JobAt
    <3>4. CASE o \notin InFlight
      <4>1. Terminal(o)' BY <2>1, <3>1, <3>4, Recorded DEF InFlight, Closable
      <4>2. QED BY <2>3, <3>2, <3>4, <4>1 DEF JobAt
    <3>5. QED BY <3>3, <3>4
  <2>7. CASE WriteTerminal(x)
    <3>1. job'[x].at = "unlease"
      BY <1>0, <2>7 DEF WriteTerminal, JobGoto, JobOK, JobSet
    <3>2. o \in DOMAIN issued BY <2>1, RowsTyped DEF Closable, Dispatched, RowSet
    <3>3. Row("terminal", o, NoRun, By(x)) \in RowSet BY <3>2 DEF Row, RowSet, By
    <3>4. Row("terminal", o, NoRun, By(x)) \in Rows'
      BY <1>2, <2>7, <3>3, RowTyped DEF WriteTerminal
    <3>5. Terminal(o)' BY <3>4 DEF Terminal, Row
    <3>6. QED BY <2>3, <3>1, <3>5 DEF JobAt
  <2>8. CASE \E p \in DOMAIN issued : Observe(x, p)
    BY <1>2, <2>8 DEF Observe
  <2>9. CASE x \in Attempt /\ Finalize(x)
    <3>1. job[x] = NoJob
      BY <1>0, <2>9 DEF Finalize, Staged, SAlive, Launching
    <3>2. QED BY <1>2, <3>1
  <2>10. QED BY <1>1, <2>5, <2>6, <2>7, <2>8, <2>9, JobsChange
<1>3. ASSUME NEW p \in DOMAIN issued, Observe(x, p)
      PROVE  o = p /\ job'[x].at = "check" /\ Closable(o) /\ \A i \in Item : ~CreateOrder(i)
  <2>1. o = p /\ job'[x].at = "check" /\ Reapable(o)
    BY <1>0, <1>1, <1>3 DEF Observe, JobOK
  <2>2. Dispatched(o) /\ file[issued[o]] = o
    BY <2>1 DEF Reapable, InFlight, Current
  <2>3. ASSUME NEW a \in Attempt, order[a] = o, WAlive(a) PROVE FALSE
    <3>1. order[a] # 0 /\ ItemOf(a) = issued[o] BY <2>3 DEF Placed, WAlive, ItemOf
    <3>2. dpc[a] = "done" BY <2>2, <2>3, <3>1, DispatchedIsDone
    <3>3. lease[issued[o]] # NoLease /\ lease[issued[o]].run = a /\ SAlive(a)
      BY <2>3, <3>1, <3>2 DEF Leased, Staged, SAlive
    <3>4. Observed(o) = "Live" BY <3>3 DEF Observed, Constants, Sequential
    <3>5. QED BY <2>1, <3>4 DEF Reapable
  <2>4. \A i \in Item : ~CreateOrder(i)
    <3>1. job' # job BY <1>0, <1>3 DEF Observe, JobOK, NoJob
    <3>2. QED BY <3>1 DEF CreateOrder
  <2>5. QED BY <2>1, <2>2, <2>3, <2>4 DEF Closable
<1>4. ASSUME x \in Attempt, Finalize(x), job[x] = NoJob
      PROVE  job'[x].at = "check" /\ Closable(o) /\ \A i \in Item : ~CreateOrder(i)
  <2>1. SAlive(x) /\ ~WAlive(x) /\ order[x] # 0 /\ file[ItemOf(x)] = order[x]
    BY <1>0, <1>4 DEF Finalize, SAlive, Placed, Current
  <2>2. order[x] \in InFlight /\ job'[x] = [order |-> order[x], at |-> "check"]
    BY <1>0, <1>1, <1>4, <2>1 DEF Finalize, JobOK
  <2>3. o = order[x] /\ job'[x].at = "check" BY <1>1, <2>2
  <2>4. Closable(o)
    <3>1. Dispatched(o) BY <2>2, <2>3 DEF InFlight
    <3>2. file[issued[o]] = o BY <2>2, <2>3 DEF Current
    <3>3. \A a \in Attempt : order[a] = o => a = x BY <1>4, <2>1, <2>3 DEF OneDispatch
    <3>4. QED BY <2>1, <3>1, <3>2, <3>3 DEF Closable
  <2>5. \A i \in Item : ~CreateOrder(i)
    <3>1. job' # job BY <1>0, <1>4, <2>2 DEF JobOK, NoJob
    <3>2. QED BY <3>1 DEF CreateOrder
  <2>6. QED BY <2>3, <2>4, <2>5
<1>5. CASE job[x] = NoJob
  <2>1. job'[x].at = "check" /\ Closable(o) /\ \A i \in Item : ~CreateOrder(i)
    <3>1. ~CheckInFlight(x) /\ ~WriteTerminal(x)
      BY <1>5 DEF CheckInFlight, WriteTerminal, JobAt, NoJob
    <3>2. QED BY <1>1, <1>3, <1>4, <1>5, <3>1, JobsChange
  <2>2. QED BY <2>1, ClosableStays DEF JobAt
<1>6. CASE job[x] # NoJob /\ job[x].order # o
  <2>1. ~ \E p \in DOMAIN issued : Observe(x, p)
    BY <1>6 DEF Observe
  <2>2. ~(CheckInFlight(x) \/ WriteTerminal(x))
    BY <1>0, <1>1, <1>6 DEF CheckInFlight, WriteTerminal, JobGoto, JobOK, JobSet
  <2>3. ~(x \in Attempt /\ Finalize(x))
    BY <1>6 DEF Finalize, Staged, SAlive, Launching
  <2>4. QED BY <1>1, <1>6, <2>1, <2>2, <2>3, JobsChange
<1>7. QED BY <1>2, <1>5, <1>6
(* Only a run and those who close its order write other terminal rows than *)
(* a dispatch.                                                             *)
LEMMA TraceChange ==
  ASSUME TypeOK, Placed, [Next]_vars
  PROVE  \/ trace' = trace
         \/ \E row \in RowSet :
               /\ trace' = Append(trace, row)
               /\ row.kind = "terminal" /\ row.by # "dispatch" =>
                      \/ \E a \in Attempt : wpc[a] = "append" /\ row.order = served[a]
                      \/ \E x \in Actor : /\ JobAt(x, "write") /\ row.order = job[x].order
                                          /\ row.by # "run"
<1> DEFINE Given(row) ==
               /\ row \in RowSet /\ trace' = Append(trace, row)
               /\ row.kind = "terminal" /\ row.by # "dispatch" =>
                      \/ \E a \in Attempt : wpc[a] = "append" /\ row.order = served[a]
                      \/ \E x \in Actor : /\ JobAt(x, "write") /\ row.order = job[x].order
                                          /\ row.by # "run"
<1>0. StageOK /\ OrderOK /\ JobOK BY Parts
<1>1. ASSUME NEW a \in Attempt, Verify(a) \/ LaunchFailed(a), trace' # trace
      PROVE  \E row : Given(row)
  <2>1. Row("terminal", order[a], NoRun, "dispatch") \in RowSet
    BY <1>0, <1>1, OrderTyped DEF Verify, LaunchFailed, DAt, Placed, Row, RowSet
  <2>2. Given(Row("terminal", order[a], NoRun, "dispatch"))
    BY <1>1, <2>1 DEF Verify, LaunchFailed, Row
  <2>3. QED BY <2>2
<1>2. ASSUME NEW a \in Attempt, Record(a), trace' # trace
      PROVE  \E row : Given(row)
  <2>1. Row("dispatched", order[a], a, "dispatch") \in RowSet
    BY <1>0, <1>2, OrderTyped DEF Record, DAt, Placed, Row, RowSet
  <2>2. Given(Row("dispatched", order[a], a, "dispatch"))
    BY <1>2, <2>1 DEF Record, Row
  <2>3. QED BY <2>2
<1>3. ASSUME NEW a \in Attempt, AppendTerminal(a), trace' # trace
      PROVE  \E row : Given(row)
  <2>1. wpc[a] = "append" /\ Row("terminal", served[a], a, "run") \in RowSet
    BY <1>0, <1>3, OrderTyped DEF AppendTerminal, Placed, OrderOK, Row, RowSet
  <2>2. Given(Row("terminal", served[a], a, "run"))
    BY <1>3, <2>1 DEF AppendTerminal, Row
  <2>3. QED BY <2>2
<1>4. ASSUME NEW x \in Actor, WriteTerminal(x)
      PROVE  \E row : Given(row)
  <2>1. job[x].order # 0 /\ job[x].order \in 0 .. Len(issued) /\ JobAt(x, "write")
    BY <1>0, <1>4 DEF WriteTerminal, JobAt, NoJob, Placed, JobOK, JobSet
  <2>2. By(x) \in {"supervisor", "reaper"} BY DEF By
  <2>3. Row("terminal", job[x].order, NoRun, By(x)) \in RowSet
    BY <2>1, <2>2, OrderTyped DEF Row, RowSet
  <2>4. Given(Row("terminal", job[x].order, NoRun, By(x)))
    BY <1>4, <2>1, <2>2, <2>3 DEF WriteTerminal, Row
  <2>5. QED BY <2>4
<1>5. ASSUME NEW a \in Attempt, OwnStep(a),
             ~Verify(a), ~Record(a), ~LaunchFailed(a), ~AppendTerminal(a)
      PROVE  trace' = trace
  BY <1>5 DEF OwnStep, Begin, DispatchStep, Reaped, LookAtLease, RemoveLease, CreateLease,
     Recheck, Launch, Bind, StartupGrace, StopChild, ReleaseDispatch, RunStep,
     Adopt, EndWork, CheckTerminal, ReleaseRun, Finalize, KillDispatcher, KillRun
<1>6. ASSUME NEW x \in Actor, CloseStep(x), ~WriteTerminal(x) PROVE trace' = trace
  BY <1>6 DEF CloseStep, CheckInFlight, WriteTerminalFails, Unlease
<1>7. CASE \E a \in Attempt : OwnStep(a)
  BY <1>1, <1>2, <1>3, <1>5, <1>7
<1>8. CASE \E x \in Actor : CloseStep(x)
  BY <1>4, <1>6, <1>8
<1>9. CASE \/ \E i \in Item : CreateOrder(i) \/ Lapse(i)
           \/ \E x \in Actor, o \in DOMAIN issued : Observe(x, o)
           \/ \E o \in DOMAIN issued : GrowOld(o)
           \/ UNCHANGED vars
  BY <1>9 DEF CreateOrder, Lapse, Observe, GrowOld, vars
<1>10. QED BY <1>7, <1>8, <1>9 DEF Next, OwnStep

(* A run writes its row while its order has no terminal row, and those who *)
(* close the order while the run has written none.                         *)
LEMMA OnlyRowStep ==
  ASSUME TypeOK, Placed, Current, Accounted, Closing, RunKeepsOnlyRow, [Next]_vars
  PROVE  RunKeepsOnlyRow'
<1>1. CASE trace' = trace
  BY <1>1 DEF RunKeepsOnlyRow
<1>2. ASSUME NEW row \in RowSet, trace' = Append(trace, row),
             row.kind = "terminal" /\ row.by # "dispatch" =>
                 \/ \E a \in Attempt : wpc[a] = "append" /\ row.order = served[a]
                 \/ \E x \in Actor : /\ JobAt(x, "write") /\ row.order = job[x].order
                                     /\ row.by # "run"
      PROVE  RunKeepsOnlyRow'
  <2>1. /\ DOMAIN trace' = DOMAIN trace \cup {Len(trace) + 1} /\ trace'[Len(trace) + 1] = row
        /\ \A k \in DOMAIN trace : trace'[k] = trace[k] /\ trace[k] \in Rows
    BY <1>2, Parts DEF Rows
  <2>2. ASSUME row.kind = "terminal", row.by # "dispatch"
        PROVE  /\ ~RunWrote(row.order)
               /\ row.by = "run" => ~Terminal(row.order)
    <3>1. ASSUME NEW a \in Attempt, wpc[a] = "append", row.order = served[a]
          PROVE  ~Terminal(row.order)
      BY <3>1 DEF Current, Accounted, Unended
    <3>2. ASSUME NEW x \in Actor, JobAt(x, "write"), row.order = job[x].order
          PROVE  ~RunWrote(row.order)
      <4>1. job[x] # NoJob BY <3>2 DEF JobAt, NoJob
      <4>2. QED BY <3>2, <4>1 DEF Closing
    <3>3. ~Terminal(row.order) => ~RunWrote(row.order) BY DEF Terminal, RunWrote
    <3>4. QED BY <1>2, <2>2, <3>1, <3>2, <3>3
  <2>3. SUFFICES ASSUME NEW j \in DOMAIN trace', NEW k \in DOMAIN trace',
                        trace'[j].kind = "terminal", trace'[j].by = "run",
                        trace'[k].kind = "terminal", trace'[k].by # "dispatch",
                        trace'[j].order = trace'[k].order
                 PROVE  j = k
    BY DEF RunKeepsOnlyRow
  <2>4. CASE j \in DOMAIN trace /\ k \in DOMAIN trace
    BY <2>1, <2>3, <2>4 DEF RunKeepsOnlyRow
  <2>5. CASE j \in DOMAIN trace /\ k = Len(trace) + 1
    BY <2>1, <2>2, <2>3, <2>5 DEF RunWrote
  <2>6. CASE j = Len(trace) + 1 /\ k \in DOMAIN trace
    BY <2>1, <2>2, <2>3, <2>6 DEF Terminal
  <2>7. QED BY <2>1, <2>3, <2>4, <2>5, <2>6
<1>3. QED BY <1>1, <1>2, TraceChange

(* There are finitely many orders in flight.                               *)
LEMMA FlightFinite == ASSUME TypeOK PROVE IsFiniteSet(InFlight) /\ Cardinality(InFlight) \in Nat
<1>1. IsFiniteSet(1 .. Len(issued)) BY OrderTyped, FS_Interval
<1>2. InFlight \in SUBSET (1 .. Len(issued)) BY OrderTyped DEF InFlight
<1>3. QED BY <1>1, <1>2, FS_Subset, FS_CardinalityType

(* A dispatch comes to launch a run from a recheck that found room.        *)
LEMMA RoomFound ==
  ASSUME TypeOK, Staged, [Next]_vars, NEW a \in Attempt, dpc'[a] = "launch" \/ Launching(a)'
  PROVE  dpc[a] = "launch" \/ Launching(a) \/ ~CeilingReached(a)
<1> USE DEF DAt, DGoto, Launching
<1>0. StageOK BY Parts
<1>1. CASE OwnStep(a)
  BY <1>0, <1>1 DEF OwnStep, Begin, DispatchStep, Verify, Reaped, LookAtLease, RemoveLease,
     CreateLease,
     Recheck, Launch, Bind, StartupGrace, Record, StopChild, LaunchFailed, ReleaseDispatch, RunStep,
     Adopt, EndWork, CheckTerminal, AppendTerminal, ReleaseRun, Finalize, KillDispatcher, KillRun,
     StageOK
<1>2. CASE CloseStep(a)
  BY <1>0, <1>2 DEF CloseStep, CheckInFlight, WriteTerminal, WriteTerminalFails, Unlease, StageOK
<1>3. QED BY <1>1, <1>2, Owned

(* Every step keeps the orders in flight under the ceiling.                *)
LEMMA RoomStep ==
  ASSUME Constants, Sequential, TypeOK, Placed, OneDispatch, Staged, Current, Accounted, Room,
         [Next]_vars
  PROVE  Room'
<1>0. /\ TypeOK' /\ OneDispatch' /\ StageOK /\ MaxInFlight \in Nat
      /\ IsFiniteSet(InFlight) /\ Cardinality(InFlight) \in Nat
  BY Parts, TypeStep, OneDispatchStep, FlightFinite DEF Constants
<1>1. CASE InFlight' \subseteq InFlight
  <2>1. Cardinality(InFlight') <= Cardinality(InFlight) /\ Cardinality(InFlight') \in Nat
    BY <1>0, <1>1, FS_Subset, FS_CardinalityType
  <2>2. ASSUME NEW a \in Attempt, dpc'[a] = "launch" \/ Launching(a)'
        PROVE  Cardinality(InFlight) < MaxInFlight
    BY <1>0, <2>2, RoomFound DEF Room, CeilingReached
  <2>3. QED BY <1>0, <2>1, <2>2 DEF Room
<1>2. ASSUME NEW a \in Attempt, Record(a), dpc[a] = "record", dpc'[a] = "done",
             NEW o, o \in InFlight', o \notin InFlight, o = order[a]
      PROVE  Room'
  <2>1. InFlight' \subseteq InFlight \cup {o}
    <3>1. SUFFICES ASSUME NEW p \in InFlight', p \notin InFlight PROVE p = o
      OBVIOUS
    <3>2. PICK b \in Attempt : p = order[b] /\ dpc[b] = "record" BY <3>1, Recorded
    <3>3. b = a BY <1>2, <3>2 DEF OneDispatch, Dispatching
    <3>4. QED BY <1>2, <3>2, <3>3
  <2>2. Cardinality(InFlight) < MaxInFlight BY <1>2 DEF Room, Launching
  <2>3. Cardinality(InFlight') <= Cardinality(InFlight) + 1 /\ Cardinality(InFlight') \in Nat
    <3>1. IsFiniteSet(InFlight \cup {o}) /\ Cardinality(InFlight \cup {o}) = Cardinality(InFlight) + 1
      BY <1>0, <1>2, FS_AddElement
    <3>2. QED BY <1>0, <2>1, <3>1, FS_Subset, FS_CardinalityType
  <2>4. ASSUME NEW b \in Attempt, dpc'[b] = "launch" \/ Launching(b)' PROVE FALSE
    <3>1. b # a BY <1>2, <2>4 DEF Launching
    <3>2. ~ \E i \in Item : Begin(b, i)
      BY <1>0, <1>2, <3>1 DEF Begin, Record, DGoto, StageOK
    <3>3. Dispatching(b) BY <2>4, <3>2, Moves DEF Dispatching, Launching
    <3>4. QED BY <1>2, <3>1, <3>3 DEF OneDispatch, Dispatching
  <2>5. QED BY <1>0, <2>2, <2>3, <2>4 DEF Room
<1>3. QED
  <2>1. CASE ~(InFlight' \subseteq InFlight)
    <3>1. PICK o : o \in InFlight' /\ o \notin InFlight BY <2>1
    <3>2. PICK a \in Attempt : o = order[a] /\ Record(a) /\ dpc[a] = "record" /\ dpc'[a] = "done"
      BY <3>1, Recorded
    <3>3. QED BY <1>2, <3>1, <3>2
  <2>2. QED BY <1>1, <2>1

(* The invariant holds at first.                                           *)
LEMMA InitInv == ASSUME Constants PROVE Init => IInv
<1> SUFFICES ASSUME Init PROVE IInv
  OBVIOUS
<1>1. DOMAIN issued = {} /\ DOMAIN trace = {} /\ Rows = {} /\ InFlight = {}
  BY DEF Init, Rows, InFlight
<1>2. TypeOK
  <2>1. issued \in Seq(Item) /\ trace \in Seq(RowSet) /\ Len(issued) = 0 /\ DOMAIN issued = {}
    BY DEF Init

   <2>2. Len(issued) <= MaxOrders /\ file \in [Item -> 0 .. Len(issued)] /\ old \subseteq DOMAIN issued
    BY <2>1 DEF Init, Constants
  <2>3. LeaseOK BY DEF Init, LeaseOK
  <2>4. StageOK BY DEF Init, StageOK, DLabel, WLabel, SLabel
  <2>5. OrderOK BY <2>1 DEF Init, OrderOK
  <2>6. JobOK
    <3>1. NoJob \in JobSet BY <2>1 DEF NoJob, JobSet
    <3>2. QED BY <3>1 DEF Init, JobOK
  <2>7. QED BY <2>1, <2>2, <2>3, <2>4, <2>5, <2>6, Parts
<1>3. /\ \A a \in Attempt : /\ dpc[a] = "idle" /\ order[a] = 0
                            /\ wpc[a] = "none" /\ spc[a] = "none"
      /\ \A x \in Actor : job[x] = NoJob
      /\ \A i \in Item : file[i] = 0
  BY DEF Init
<1>4. Placed
  BY <1>1, <1>3 DEF Placed, Actor
<1>5. OneDispatch
  BY <1>3 DEF OneDispatch, Dispatching
<1>6. Staged
  BY <1>3 DEF Staged, WAlive, SAlive, Actor
<1>7. Current /\ Accounted /\ Leased /\ Closing /\ RunKeepsOnlyRow
  BY <1>1 DEF Init, Current, Accounted, Leased, Closing, RunKeepsOnlyRow, Dispatching, SAlive,
     WAlive, Unended, Prepared, Terminal
<1>8. Room
  BY <1>1, FS_EmptySet DEF Init, Room, Launching, Constants
<1>9. QED BY <1>2, <1>4, <1>5, <1>6, <1>7, <1>8 DEF IInv

(* The invariant is inductive.                                             *)
LEMMA InvStep == ASSUME Constants, Sequential PROVE IInv /\ [Next]_vars => IInv'
BY TypeStep, OneDispatchStep, StagedStep, CurrentStep, AccountedStep, LeasedStep, ClosingStep,
   OnlyRowStep, RoomStep DEF IInv

(* TypeOK: every variable keeps its type, whatever the backend and however *)
(* dispatches overlap.                                                     *)
THEOREM Typing == ASSUME Constants PROVE Spec => []TypeOK
<1>1. Init => TypeOK /\ Placed BY InitInv DEF IInv
<1>2. QED BY <1>1, TypeStep, PTL DEF Spec

(* The invariant of sequential dispatches holds in every reachable state.  *)
THEOREM Invariance == ASSUME Constants, Sequential PROVE Spec => []IInv
BY InitInv, InvStep, PTL DEF Spec

(* OneRunPerItem, by the process backend: no kill, failed append or reaper *)
(* makes two runs of sequential dispatches work on one item.               *)
THEOREM OneRun == ASSUME Constants, Sequential PROVE Spec => []OneRunPerItem
<1>1. IInv => OneRunPerItem
  <2> SUFFICES ASSUME IInv, NEW a \in Attempt, NEW b \in Attempt, Working(a), Working(b),
                      ItemOf(a) = ItemOf(b)
               PROVE  a = b
    BY DEF OneRunPerItem
  <2>1. WAlive(a) /\ WAlive(b) /\ order[a] # 0 /\ order[b] # 0
    BY DEF IInv, Placed, Working, WAlive
  <2>2. SAlive(a) /\ SAlive(b) BY <2>1 DEF IInv, Staged, SAlive
  <2>3. QED BY <2>1, <2>2, ItemOwner DEF IInv
<1>2. QED BY <1>1, Invariance, PTL

(* RunKeepsOnlyRow: the terminal row that a run has written is the only    *)
(* one beside its dispatch's.                                              *)
THEOREM OnlyRow == ASSUME Constants, Sequential PROVE Spec => []RunKeepsOnlyRow
<1>1. IInv => RunKeepsOnlyRow BY DEF IInv
<1>2. QED BY <1>1, Invariance, PTL

(* A run that works is in flight once its dispatch has ended, and while it *)
(* has not, there is room for it below the ceiling.                        *)
LEMMA WorkingCounts ==
  ASSUME IInv, NEW a \in Attempt, Working(a)
  PROVE  /\ order[a] # 0
         /\ dpc[a] = "done" => order[a] \in InFlight
         /\ dpc[a] # "done" => Dispatching(a) /\ Cardinality(InFlight) < MaxInFlight
<1>1. WAlive(a) /\ SAlive(a) /\ Unended(a) /\ order[a] # 0
  BY DEF IInv, Working, WAlive, SAlive, Unended, Staged, Placed
<1>2. dpc[a] = "done" => order[a] \in InFlight
  BY <1>1, OrderTyped DEF IInv, Accounted, InFlight
<1>3. dpc[a] # "done" => Launching(a)
  BY <1>1 DEF IInv, Staged
<1>4. QED BY <1>1, <1>2, <1>3 DEF IInv, Room, Launching, Dispatching

(* The runs that work are no more than the ceiling: each one's order is in *)
(* flight, or is the one that a dispatch has found room for.               *)
LEMMA WithinCeiling == ASSUME Constants PROVE IInv => RunsWithinCeiling
<1> SUFFICES ASSUME IInv PROVE RunsWithinCeiling
  OBVIOUS
<1> DEFINE W == {a \in Attempt : Working(a)}
<1>1. \A a, b \in W : order[a] = order[b] => a = b
  BY WorkingCounts DEF IInv, OneDispatch
<1>2. ASSUME NEW T, IsFiniteSet(T), Cardinality(T) <= MaxInFlight, \A a \in W : order[a] \in T
      PROVE  Cardinality(W) <= MaxInFlight
  <2> DEFINE f == [a \in W |-> order[a]]
  <2>1. f \in Injection(W, T)
    BY <1>1, <1>2 DEF Injection, IsInjective
  <2>2. IsFiniteSet(W) /\ Cardinality(W) <= Cardinality(T)
    BY <1>2, <2>1, FS_Injection
  <2>3. QED BY <1>2, <2>2, FS_CardinalityType DEF Constants
<1>3. IsFiniteSet(InFlight) /\ Cardinality(InFlight) \in Nat /\ Cardinality(InFlight) <= MaxInFlight
  BY FlightFinite DEF IInv, Room
<1>4. CASE \A a \in W : dpc[a] = "done"
  BY <1>2, <1>3, <1>4, WorkingCounts DEF RunsWithinCeiling
<1>5. ASSUME NEW c \in W, dpc[c] # "done" PROVE RunsWithinCeiling
  <2>1. Dispatching(c) /\ Cardinality(InFlight) < MaxInFlight BY <1>5, WorkingCounts
  <2>2. \A a \in W : a = c \/ order[a] \in InFlight
    BY <1>5, <2>1, WorkingCounts DEF IInv, OneDispatch
  <2>3. /\ IsFiniteSet(InFlight \cup {order[c]})
        /\ Cardinality(InFlight \cup {order[c]}) <= Cardinality(InFlight) + 1
    BY <1>3, FS_AddElement
  <2>4. Cardinality(InFlight \cup {order[c]}) <= MaxInFlight
    BY <1>3, <2>1, <2>3, FS_CardinalityType DEF Constants
  <2>5. QED BY <1>2, <2>2, <2>3, <2>4 DEF RunsWithinCeiling
<1>6. QED BY <1>4, <1>5

(* RunsAreCounted: a run counts as in flight as long as it works, and no   *)
(* more of them work than MANDATE_MAX_IMPLEMENTERS allows.                 *)
THEOREM Counted == ASSUME Constants, Sequential PROVE Spec => []RunsAreCounted
<1>1. IInv => RunsAreCounted
  <2>1. IInv => WorkingInFlight BY WorkingCounts DEF WorkingInFlight
  <2>2. QED BY <2>1, WithinCeiling DEF RunsAreCounted
<1>2. QED BY <1>1, Invariance, PTL

(* A step of the dispatches takes a lease from a run that works, or whose  *)
(* order is in flight, only as that run's own release.                     *)
LEMMA LeaseStep ==
  ASSUME Constants, Sequential, IInv, [Next]_vars
  PROVE  LeaseStays
<1> USE DEF IInv
<1> SUFFICES ASSUME NEW i \in Item, NEW a \in Attempt, lease[i] # NoLease, lease[i].run = a,
                    Working(a) \/ order[a] \in InFlight, lease'[i] # lease[i], wpc[a] # "release"
             PROVE  FALSE
  BY DEF LeaseStays
<1>1. ItemOf(a) = i /\ order[a] # 0
  <2>1. ItemOf(a) = i BY DEF Leased, Constants
  <2>2. QED BY <2>1 DEF ItemOf, Constants
<1>2. SAlive(a) \/ order[a] \in InFlight
  BY DEF Working, WAlive, SAlive, Staged
<1>3. file[i] = order[a]
  BY <1>1, <1>2 DEF Current, ItemOf
<1>4. dpc[a] = "done" \/ Launching(a)
  <2>1. order[a] \in InFlight => dpc[a] = "done" BY <1>1, DispatchedIsDone DEF InFlight
  <2>2. QED BY <1>2, <2>1 DEF Staged
<1>5. ~CreateOrder(i) BY <1>1, <1>2, <1>3, CreatedFree
<1>6. ~Lapse(i) BY DEF Lapse, Constants
<1>7. ASSUME NEW b \in Attempt, ItemOf(b) = i,
             RemoveLease(b) \/ CreateLease(b) \/ ReleaseDispatch(b)
      PROVE  FALSE
  <2>1. dpc[b] \in {"remove", "create", "release"}
    BY <1>7 DEF RemoveLease, CreateLease, ReleaseDispatch, DAt
  <2>2. Dispatching(b) /\ order[b] # 0 BY <2>1 DEF Dispatching, Placed
  <2>3. b = a BY <1>1, <1>2, <1>7, <2>2, ItemOwner
  <2>4. QED BY <1>4, <2>1, <2>3 DEF Launching
<1>8. ASSUME NEW b \in Attempt, ItemOf(b) = i, Bind(b), lease'[i] = [lease[i] EXCEPT !.run = b]
      PROVE  FALSE
  <2>1. Dispatching(b) /\ order[b] # 0
    BY <1>8 DEF Bind, DAt, Dispatching, Placed
  <2>2. b = a BY <1>1, <1>2, <1>8, <2>1, ItemOwner
  <2>3. lease[i] \in LeaseSet BY Parts DEF LeaseOK, LeaseSet
  <2>4. [lease[i] EXCEPT !.run = a] = lease[i] BY <2>3 DEF LeaseSet
  <2>5. QED BY <1>8, <2>2, <2>4
<1>9. ASSUME NEW b \in Attempt, ItemOf(b) = i, ReleaseRun(b) PROVE FALSE
  <2>1. SAlive(b) /\ order[b] # 0 /\ wpc[b] = "release"
    BY <1>9 DEF ReleaseRun, Staged, WAlive, SAlive, Placed
  <2>2. b = a BY <1>1, <1>2, <1>9, <2>1, ItemOwner
  <2>3. QED BY <2>1, <2>2
<1>10. ASSUME NEW x \in Actor, Unlease(x), issued[job[x].order] = i PROVE FALSE
  <2>1. job[x] # NoJob /\ JobAt(x, "unlease") BY <1>10 DEF Unlease, JobAt, NoJob
  <2>2. order[a] = job[x].order BY <1>3, <1>10, <2>1 DEF Closing, Closable
  <2>3. ~WAlive(a) /\ Terminal(order[a]) BY <2>1, <2>2 DEF Closing, Closable
  <2>4. QED BY <2>3 DEF InFlight, Working, WAlive
<1>11. QED BY <1>5, <1>6, <1>7, <1>8, <1>9, <1>10, LeaseChange

(* LeaseOutlivesOrder: a lease that names a run stays while the run works  *)
(* or its order is in flight; only that run gives it up.                   *)
THEOREM LeaseKept == ASSUME Constants, Sequential PROVE Spec => LeaseOutlivesOrder
<1>1. IInv /\ [Next]_vars => [LeaseStays]_vars
  BY LeaseStep
<1>2. QED BY <1>1, Invariance, PTL DEF Spec, LeaseOutlivesOrder
--------------------------------------------------------------------------------
(* The systemd backend.                                                    *)

(* Only one attempt at an item has a unit that is active.                  *)
OneUnit ==
    \A a, b \in Attempt :
        (WAlive(a) \/ SAlive(a)) /\ (WAlive(b) \/ SAlive(b)) /\ ItemOf(a) = ItemOf(b) => a = b

(* OneRunPerItem, by the systemd backend: however dispatches overlap and   *)
(* are killed, and whatever the leases say, systemd refuses a second unit  *)
(* of a name.                                                              *)
THEOREM OneUnitPerItem == ASSUME Constants, Backend = "systemd" PROVE Spec => []OneRunPerItem
<1>1. Init => TypeOK /\ Placed /\ OneUnit
  <2>1. Init => TypeOK /\ Placed BY InitInv DEF IInv
  <2>2. Init => OneUnit BY DEF Init, OneUnit, WAlive, SAlive
  <2>3. QED BY <2>1, <2>2
<1>2. ASSUME TypeOK, Placed, OneUnit, [Next]_vars PROVE OneUnit'
  <2>1. ASSUME NEW a \in Attempt, (WAlive(a) \/ SAlive(a))'
        PROVE  WAlive(a) \/ SAlive(a) \/ Launch(a)
    <3>1. StageOK BY <1>2, Parts
    <3>2. CASE OwnStep(a)
      BY <2>1, <3>1, <3>2 DEF OwnStep, Begin, DispatchStep, Verify, Reaped, LookAtLease,
         RemoveLease,
         CreateLease, Recheck, Bind, StartupGrace, Record, StopChild, LaunchFailed, ReleaseDispatch,
         RunStep, Adopt, EndWork, CheckTerminal, AppendTerminal, ReleaseRun, Finalize,
         KillDispatcher, KillRun, StageOK, SAlive, WAlive
    <3>3. CASE CloseStep(a)
      BY <2>1, <3>1, <3>3 DEF CloseStep, CheckInFlight, WriteTerminal, WriteTerminalFails, Unlease,
         By, StageOK, SAlive, WAlive
    <3>4. QED BY <1>2, <2>1, <3>2, <3>3, Owned DEF SAlive, WAlive
  <2>2. \A a \in Attempt : WAlive(a) \/ SAlive(a) \/ Launch(a) => ItemOf(a)' = ItemOf(a)
    BY <1>2, ItemStays DEF WAlive, SAlive, Launch, DAt, Placed
  <2>3. ASSUME NEW a \in Attempt, NEW b \in Attempt, a # b, Launch(a), (WAlive(a) \/ SAlive(a))',
               (WAlive(b) \/ SAlive(b))', ItemOf(a) = ItemOf(b)
        PROVE  FALSE
    <3>1. StageOK BY <1>2, Parts
    <3>2. UNCHANGED <<wpc[b], spc[b]>> BY <2>3, <3>1 DEF Launch, StageOK
    <3>3. UnitActive(ItemOf(a)) BY <2>3, <3>2 DEF UnitActive, WAlive, SAlive
    <3>4. WAlive(a) \/ SAlive(a) BY <2>3, <3>3 DEF Launch, WAlive, SAlive
    <3>5. QED BY <1>2, <2>3, <3>2, <3>4 DEF OneUnit, WAlive, SAlive
  <2>4. QED BY <1>2, <2>1, <2>2, <2>3 DEF OneUnit
<1>3. OneUnit => OneRunPerItem
  BY DEF OneUnit, OneRunPerItem, Working, WAlive
<1>4. QED BY <1>1, <1>2, <1>3, TypeStep, PTL DEF Spec
--------------------------------------------------------------------------------
(* The worktree of an item, for any number of commits and pull requests.   *)
CONSTANTS None, Apart, Quick, LatePush, Switches, MaxWork, MaxPulls
VARIABLES tree, local, origin, objects, made, main, remote, pulls, issue, itemOrder, itemLease,
          run, preexisting, dispatch, reap, sweep
Trees == INSTANCE Worktrees WITH order <- itemOrder, lease <- itemLease

(* Runs are not launched while a reaper looks at the tree or a dispatch    *)
(* sweeps the worktrees; and nobody pushes to a merged branch.             *)
Undisturbed == Apart = TRUE /\ Quick = TRUE
NoLatePush == LatePush = FALSE

(* The branch that is checked out is there.                                *)
Rooted == tree # None => local[tree.branch] # None
RootedTypes == Trees!TypeOK /\ Rooted

(* An open pull request takes the pushed commit as its head.               *)
LEMMA Followed ==
  ASSUME NEW ps \in Seq(Trees!Pull), NEW h \in Trees!History
  PROVE  /\ Trees!Follow(ps, h) \in Seq(Trees!Pull) /\ DOMAIN Trees!Follow(ps, h) = DOMAIN ps
         /\ \A i \in DOMAIN ps :
               Trees!Follow(ps, h)[i] =
                  IF ps[i].state = "OPEN" THEN [ps[i] EXCEPT !.head = h] ELSE ps[i]
<1>1. Len(ps) \in Nat /\ DOMAIN ps = 1 .. Len(ps) /\ \A i \in DOMAIN ps : ps[i] \in Trees!Pull
  OBVIOUS
<1>2. \A i \in DOMAIN ps : [ps[i] EXCEPT !.head = h] \in Trees!Pull BY <1>1 DEF Trees!Pull
<1>3. Trees!Follow(ps, h) \in [1 .. Len(ps) -> Trees!Pull] BY <1>1, <1>2 DEF Trees!Follow
<1>4. Trees!Follow(ps, h) \in Seq(Trees!Pull) BY <1>1, <1>3, SeqDef
<1>5. QED BY <1>1, <1>4 DEF Trees!Follow

(* The newest of the pull requests in some states has one of the states.   *)
LEMMA Newest ==
  ASSUME Trees!TypeOK, NEW states, Trees!NewestOf(states) # None
  PROVE  \E i \in DOMAIN pulls : /\ pulls[i].state \in states
                                 /\ pulls[i].head = Trees!NewestOf(states)
<1> DEFINE resolved == {i \in DOMAIN pulls : pulls[i].state \in states}
           left == {Len(pulls) - i : i \in resolved}
<1>1. pulls \in Seq(Trees!Pull) /\ DOMAIN pulls = 1 .. Len(pulls) /\ Len(pulls) \in Nat
  BY DEF Trees!TypeOK
<1>2. resolved # {} BY DEF Trees!NewestOf
<1>3. left \subseteq Nat /\ left # {} BY <1>1, <1>2
<1>4. PICK k \in left : \A m \in left : k <= m
  <2> HIDE DEF left
  <2>1. PICK k \in left : \A m \in left : ~(<<m, k>> \in OpToRel(<, Nat))
    BY <1>3, WFMin, NatLessThanWellFounded, Zenon
  <2>2. \A m \in left : ~(<<m, k>> \in {ss \in Nat \X Nat : ss[1] < ss[2]})
    BY <2>1, Zenon DEF OpToRel
  <2>3. ASSUME NEW m \in left PROVE k <= m
    <3>1. m \in Nat /\ k \in Nat BY <1>3
    <3>2. ~(m < k) BY <2>2, <3>1
    <3>3. QED BY <3>1, <3>2
  <2>4. QED BY <2>3
<1>5. PICK i \in resolved : k = Len(pulls) - i BY <1>4
<1>6. \A j \in resolved : j <= i
  <2> SUFFICES ASSUME NEW j \in resolved PROVE j <= i OBVIOUS
  <2>1. k <= Len(pulls) - j BY <1>4
  <2>2. QED BY <1>1, <1>5, <2>1
<1> DEFINE newest == CHOOSE n \in resolved : \A j \in resolved : j <= n
<1>7. newest \in resolved BY <1>6
<1>8. Trees!NewestOf(states) = pulls[newest].head BY <1>2 DEF Trees!NewestOf
<1> HIDE DEF newest
<1>9. QED BY <1>7, <1>8
--------------------------------------------------------------------------------
(* A branch that is set is there, and no other goes.                       *)
LEMMA BranchSet ==
  ASSUME Trees!Constants, Trees!TypeOK, NEW b \in Trees!Branch, NEW h \in Trees!History,
         local' = [local EXCEPT ![b] = h]
  PROVE  /\ local' \in [Trees!Branch -> Trees!History \cup {None}]
         /\ local'[b] = h /\ h # None
         /\ \A c \in Trees!Branch : c # b => local'[c] = local[c]
BY DEF Trees!Constants, Trees!TypeOK

(* The harness's commit, and the branch as it is merged.                   *)
LEMMA HistoryTypes ==
  ASSUME RootedTypes
  PROVE  /\ Trees!FromDefault \in Trees!History
         /\ Trees!NewCommit \in Trees!Commit => \A h \in Trees!History :
               [h EXCEPT !.own = @ \cup {Trees!NewCommit}] \in Trees!History
         /\ \A g, h \in Trees!History : Trees!Merged(g, h) \in Trees!History
         /\ \A h \in Trees!History : Trees!Content(h) \subseteq Trees!Commit
BY DEF RootedTypes, Trees!TypeOK, Trees!FromDefault, Trees!Merged, Trees!Content, Trees!History

(* The newest pull request's head is a history.                            *)
LEMMA NewestTypes ==
  ASSUME Trees!TypeOK, NEW states
  PROVE  Trees!NewestOf(states) \in Trees!History \cup {None}
<1>1. \A i \in DOMAIN pulls : pulls[i] \in Trees!Pull BY DEF Trees!TypeOK
<1>2. \A i \in DOMAIN pulls : pulls[i].head \in Trees!History BY <1>1 DEF Trees!Pull
<1>3. QED BY <1>2, Newest

(* No step leaves the types.                                               *)
LEMMA TreesTypeStep ==
  ASSUME Trees!Constants, RootedTypes, Trees!Next
  PROVE  RootedTypes'
<1> USE DEF Trees!source, Trees!github, Trees!workers, Trees!cleaners, RootedTypes, Rooted,
        Trees!TypeOK
<1>1. CASE Trees!Fetch BY <1>1 DEF Trees!Fetch
<1>2. CASE Trees!CreateOrder BY <1>2 DEF Trees!CreateOrder
<1>3. CASE Trees!HarnessFails BY <1>3 DEF Trees!HarnessFails, Trees!EndRun
<1>4. CASE Trees!LeaseLapses BY <1>4 DEF Trees!LeaseLapses
<1>5. CASE Trees!Expire BY <1>5 DEF Trees!Expire
<1>6. CASE Trees!Edit BY <1>6 DEF Trees!Edit, Trees!Tree
<1>7. CASE Trees!Prepare
  <2>0. "item" \in Trees!Branch BY DEF Trees!Branch
  <2>1. /\ preexisting' \in BOOLEAN /\ run' \in {"none", "work"}
        /\ itemOrder' \in {itemOrder, "closed"} /\ itemLease' \in {itemLease, FALSE}
    BY <1>7 DEF Trees!Prepare, Trees!EndRun
  <2>2. \/ UNCHANGED <<tree, local>>
        \/ /\ tree # None /\ tree' = [tree EXCEPT !.branch = "item"]
           /\ local["item"] # None /\ UNCHANGED local
        \/ /\ tree # None /\ tree' = [tree EXCEPT !.branch = "item"]
           /\ local' = [local EXCEPT !["item"] = Trees!FromDefault]
        \/ /\ tree' = [branch |-> "item", dirty |-> FALSE, linked |-> TRUE]
           /\ local' = [local EXCEPT !["item"] = Trees!FromDefault]
    BY <1>7 DEF Trees!Prepare
  <2>3. tree' \in Trees!Tree \cup {None}
    <3>1. tree # None => [tree EXCEPT !.branch = "item"] \in Trees!Tree BY <2>0 DEF Trees!Tree
    <3>2. [branch |-> "item", dirty |-> FALSE, linked |-> TRUE] \in Trees!Tree
      BY <2>0 DEF Trees!Tree
    <3>3. QED BY <2>2, <3>1, <3>2
  <2>4. local' \in [Trees!Branch -> Trees!History \cup {None}] /\ Rooted'
    <3>1. CASE UNCHANGED <<tree, local>> BY <3>1
    <3>2. CASE tree # None /\ tree' = [tree EXCEPT !.branch = "item"] /\ local["item"] # None
               /\ UNCHANGED local
      <4>1. tree'.branch = "item" BY <3>2 DEF Trees!Tree
      <4>2. QED BY <3>2, <4>1
    <3>3. CASE local' = [local EXCEPT !["item"] = Trees!FromDefault]
               /\ \/ tree # None /\ tree' = [tree EXCEPT !.branch = "item"]
                  \/ tree' = [branch |-> "item", dirty |-> FALSE, linked |-> TRUE]
      <4>1. tree'.branch = "item" BY <3>3 DEF Trees!Tree
      <4>2. local' \in [Trees!Branch -> Trees!History \cup {None}] /\ local'["item"] # None
        BY <2>0, <3>3, BranchSet, HistoryTypes
      <4>3. QED BY <4>1, <4>2
    <3>4. QED BY <2>2, <3>1, <3>2, <3>3
  <2>5. QED BY <1>7, <2>1, <2>3, <2>4 DEF Trees!Prepare
<1>8. CASE Trees!CommitWork
  <2>1. CASE UNCHANGED <<tree, local, objects, made>>
    BY <1>8, <2>1 DEF Trees!CommitWork, Trees!EndRun
  <2>2. CASE ~UNCHANGED <<tree, local, objects, made>>
    <3>1. /\ tree # None /\ tree.branch = "item" /\ Trees!NewCommit \in Trees!Commit
          /\ made' = Trees!NewCommit
          /\ local' = [local EXCEPT !["item"].own = @ \cup {Trees!NewCommit}]
          /\ objects' = objects \cup {Trees!NewCommit}
          /\ tree' = [tree EXCEPT !.dirty = FALSE]
          /\ run' = "push" /\ UNCHANGED <<preexisting, itemOrder, itemLease>>
          /\ UNCHANGED <<origin, main, remote, pulls, issue, dispatch, reap, sweep>>
      BY <1>8, <2>2 DEF Trees!CommitWork
    <3>2. "item" \in Trees!Branch /\ local["item"] \in Trees!History
      BY <3>1 DEF Trees!Branch
    <3>3. local' = [local EXCEPT !["item"] =
                      [local["item"] EXCEPT !.own = @ \cup {Trees!NewCommit}]]
      BY <3>1, <3>2
    <3>4. [local["item"] EXCEPT !.own = @ \cup {Trees!NewCommit}] \in Trees!History
      BY <3>1, <3>2, HistoryTypes
    <3>5. local' \in [Trees!Branch -> Trees!History \cup {None}] /\ local'["item"] # None
      BY <3>2, <3>3, <3>4, BranchSet
    <3>6. tree' \in Trees!Tree /\ tree'.branch = "item" BY <3>1 DEF Trees!Tree
    <3>7. QED
      BY <3>1, <3>5, <3>6 DEF Trees!NewCommit, Trees!Commit, Trees!Constants
  <2>3. QED BY <2>1, <2>2
<1>9. CASE Trees!PushBranch
  <2>1. /\ run' \in {"none", "pull"} /\ itemOrder' \in {itemOrder, "closed"}
        /\ itemLease' \in {itemLease, FALSE} /\ preexisting' \in {preexisting, FALSE}
        /\ UNCHANGED <<tree, origin, made, main, issue, dispatch, reap, sweep>>
    BY <1>9 DEF Trees!PushBranch, Trees!PushFails, Trees!EndRun
  <2>2. /\ objects' = objects \/ (remote # None /\ objects' = objects \cup Trees!Content(remote))
        /\ \/ local' = local
           \/ /\ remote # None /\ local["item"] # None
              /\ local' = [local EXCEPT !["item"] = Trees!Merged(local["item"], remote)]
        /\ \/ UNCHANGED <<remote, pulls>>
           \/ /\ local["item"] # None
              /\ remote' = local'["item"] /\ pulls' = Trees!Follow(pulls, remote')
    BY <1>9 DEF Trees!PushBranch, Trees!PushFails, Trees!MergeForward, Trees!HasBranch
  <2>3. "item" \in Trees!Branch BY DEF Trees!Branch
  <2>4. /\ local' \in [Trees!Branch -> Trees!History \cup {None}]
        /\ \A c \in Trees!Branch : local[c] # None => local'[c] # None
    <3>1. CASE local' = local BY <3>1
    <3>2. CASE /\ remote # None /\ local["item"] # None
               /\ local' = [local EXCEPT !["item"] = Trees!Merged(local["item"], remote)]
      <4>1. Trees!Merged(local["item"], remote) \in Trees!History BY <2>3, <3>2, HistoryTypes
      <4>2. QED BY <2>3, <3>2, <4>1, BranchSet
    <3>3. QED BY <2>2, <3>1, <3>2
  <2>5. remote' \in Trees!History \cup {None} /\ pulls' \in Seq(Trees!Pull)
    BY <2>2, <2>3, <2>4, Followed
  <2>6. objects' \subseteq Trees!Commit BY <2>2, HistoryTypes
  <2>7. Rooted' BY <2>1, <2>4 DEF Trees!Tree
  <2>8. QED BY <2>1, <2>4, <2>5, <2>6, <2>7, ZenonT(40)
<1>10. CASE Trees!CreatePullRequest
  <2>1. pulls' \in Seq(Trees!Pull)
    <3>1. remote # None => [state |-> "OPEN", head |-> remote] \in Trees!Pull BY DEF Trees!Pull
    <3>2. QED BY <1>10, <3>1 DEF Trees!CreatePullRequest
  <2>2. QED BY <1>10, <2>1 DEF Trees!CreatePullRequest, Trees!EndRun
<1>11. CASE Trees!RunIsKilled
  <2>1. CASE UNCHANGED <<tree, local>> BY <1>11, <2>1 DEF Trees!RunIsKilled
  <2>2. CASE /\ local' = [local EXCEPT !["item"] = Trees!FromDefault]
             /\ tree' = [branch |-> "item", dirty |-> FALSE, linked |-> FALSE]
    <3>1. tree' \in Trees!Tree /\ tree'.branch = "item" /\ "item" \in Trees!Branch
      BY <2>2 DEF Trees!Tree, Trees!Branch
    <3>2. local' \in [Trees!Branch -> Trees!History \cup {None}] /\ local'["item"] # None
      BY <2>2, <3>1, BranchSet, HistoryTypes
    <3>3. QED BY <1>11, <3>1, <3>2 DEF Trees!RunIsKilled
  <2>3. QED BY <1>11, <2>1, <2>2 DEF Trees!RunIsKilled
<1>12. CASE Trees!Begin BY <1>12 DEF Trees!Begin, Trees!Cleaner
<1>13. CASE Trees!ListBranches
  BY <1>13 DEF Trees!ListBranches, Trees!Refuse, Trees!Idle, Trees!Cleaner
<1>14. CASE Trees!DeleteBranch
  BY <1>14 DEF Trees!DeleteBranch, Trees!Refuse, Trees!Idle, Trees!Cleaner
<1>15. CASE Trees!ReadReferences
  <2> DEFINE tip == Trees!NewestOf({"MERGED"})
  <2>1. tip \in Trees!History \cup {None} BY NewestTypes
  <2>2. /\ itemOrder' \in {itemOrder, "closed"}
        /\ dispatch' \in {Trees!Idle, [dispatch EXCEPT !.pc = "launch", !.tip = tip],
                          [dispatch EXCEPT !.pc = "lease", !.tip = tip]}
        /\ UNCHANGED <<tree, local, origin, objects, made, main, remote, pulls, issue, itemLease,
                       run, preexisting, reap, sweep>>
    BY <1>15 DEF Trees!ReadReferences, Trees!Refuse
  <2>3. Trees!Idle \in Trees!Cleaner BY DEF Trees!Idle, Trees!Cleaner
  <2> HIDE DEF tip
  <2>4. dispatch' \in Trees!Cleaner BY <2>1, <2>2, <2>3 DEF Trees!Cleaner
  <2>5. QED BY <2>2, <2>4
<1>16. CASE Trees!LookForDispatch
  <2> DEFINE branches == {"item"} \cup (IF tree = None THEN {} ELSE {tree.branch})
  <2>1. branches \in SUBSET Trees!Branch BY DEF Trees!Tree, Trees!Branch
  <2>2. dispatch' \in {Trees!Idle, [dispatch EXCEPT !.pc = "verify", !.branches = branches]}
    BY <1>16 DEF Trees!LookForDispatch, Trees!Refuse
  <2> HIDE DEF branches
  <2>3. Trees!Idle \in Trees!Cleaner BY DEF Trees!Idle, Trees!Cleaner
  <2>4. [dispatch EXCEPT !.pc = "verify", !.branches = branches] \in Trees!Cleaner
    BY <2>1 DEF Trees!Cleaner
  <2>5. QED BY <1>16, <2>2, <2>3, <2>4 DEF Trees!LookForDispatch, Trees!Refuse
<1>17. CASE Trees!Look
  <2>1. {tree.branch} \in SUBSET Trees!Branch BY <1>17 DEF Trees!Look, Trees!Tree
  <2>2. reap' \in Trees!Cleaner BY <1>17, <2>1 DEF Trees!Look, Trees!Cleaner
  <2>3. QED BY <1>17, <2>2 DEF Trees!Look
<1>18. CASE Trees!ReadBranch BY <1>18 DEF Trees!ReadBranch, Trees!Idle, Trees!Cleaner
<1>19. CASE Trees!ReadResolution
  <2>1. /\ Trees!NewestOf({"MERGED"}) \in Trees!History \cup {None}
        /\ Trees!NewestOf({"MERGED", "CLOSED"}) \in Trees!History \cup {None}
    BY NewestTypes
  <2>2. reap' \in Trees!Cleaner
    BY <1>19, <2>1 DEF Trees!ReadResolution, Trees!Idle, Trees!Cleaner
  <2>3. QED BY <1>19, <2>2 DEF Trees!ReadResolution
<1>20. CASE Trees!Verify BY <1>20 DEF Trees!Verify, Trees!Verified, Trees!Idle, Trees!Cleaner
<1>21. CASE Trees!Remove
  BY <1>21 DEF Trees!Remove, Trees!Removes, Trees!Refuse, Trees!Idle, Trees!Cleaner
<1>22. CASE Trees!DropBranches
  <2>1. PICK branches \in SUBSET Trees!Branch : local' = Trees!Dropped(branches)
    BY <1>22 DEF Trees!DropBranches, Trees!Cleaner
  <2>2. /\ local' \in [Trees!Branch -> Trees!History \cup {None}] /\ UNCHANGED tree
        /\ tree # None => tree.branch \in Trees!Branch /\ local'[tree.branch] = local[tree.branch]
    <3>1. tree # None => tree.branch \in Trees!Branch BY DEF Trees!Tree
    <3>2. UNCHANGED tree BY <1>22 DEF Trees!DropBranches
    <3>3. local' \in [Trees!Branch -> Trees!History \cup {None}] BY <2>1 DEF Trees!Dropped
    <3>4. QED BY <2>1, <3>1, <3>2, <3>3 DEF Trees!Dropped
  <2>3. /\ dispatch' \in Trees!Cleaner /\ reap' \in Trees!Cleaner
        /\ itemOrder' \in {itemOrder, "closed"}
    BY <1>22 DEF Trees!DropBranches, Trees!Refuse, Trees!Idle, Trees!Cleaner
  <2>4. QED BY <1>22, <2>2, <2>3 DEF Trees!DropBranches
<1>23. CASE Trees!Launch
  <2>1. Trees!Idle \in Trees!Cleaner BY DEF Trees!Idle, Trees!Cleaner
  <2>2. itemLease' \in BOOLEAN /\ run' \in {run, "fetch"} BY <1>23 DEF Trees!Launch
  <2>3. QED BY <1>23, <2>1, <2>2 DEF Trees!Launch
<1>24. CASE Trees!CleanerIsKilled BY <1>24 DEF Trees!CleanerIsKilled, Trees!Idle, Trees!Cleaner
<1>25. CASE Trees!SweepReads \/ Trees!SweepVisits
  BY <1>25 DEF Trees!SweepReads, Trees!SweepVisits
<1>26. CASE Trees!GitHub
  <2>1. made' \in 0 .. MaxWork
    BY <1>26 DEF Trees!GitHub, Trees!NewCommit, Trees!Commit, Trees!Constants
  <2>2. main' \subseteq Trees!Commit
    <3>1. \A i \in DOMAIN pulls : pulls[i].head \in Trees!History
      <4>1. \A i \in DOMAIN pulls : pulls[i] \in Trees!Pull OBVIOUS
      <4>2. QED BY <4>1 DEF Trees!Pull
    <3>2. QED BY <1>26, <3>1, HistoryTypes DEF Trees!GitHub
  <2>3. remote' \in Trees!History \cup {None} /\ issue' \in {"OPEN", "CLOSED"}
    BY <1>26, HistoryTypes DEF Trees!GitHub
  <2>4. pulls' \in Seq(Trees!Pull)
    <3>1. ASSUME NEW i \in DOMAIN pulls, NEW state \in {"MERGED", "CLOSED"},
                 pulls' = [pulls EXCEPT ![i].state = state]
          PROVE  pulls' \in Seq(Trees!Pull)
      <4>1. pulls[i] \in Trees!Pull OBVIOUS
      <4>2. [pulls[i] EXCEPT !.state = state] \in Trees!Pull BY <4>1 DEF Trees!Pull
      <4>3. QED BY <3>1, <4>2
    <3>2. CASE /\ Trees!NewCommit \in Trees!Commit /\ remote # None
               /\ remote' = [remote EXCEPT !.own = @ \cup {Trees!NewCommit}]
               /\ pulls' = Trees!Follow(pulls, remote')
      <4>1. remote' \in Trees!History BY <3>2, HistoryTypes
      <4>2. QED BY <3>2, <4>1, Followed
    <3>3. QED BY <1>26, <3>1, <3>2 DEF Trees!GitHub
  <2>5. QED BY <1>26, <2>1, <2>2, <2>3, <2>4 DEF Trees!GitHub
<1>27. CASE Trees!Switch BY <1>27 DEF Trees!Switch, Trees!Tree, Trees!Branch, Trees!Checked
<1>28. QED
  BY <1>1, <1>2, <1>3, <1>4, <1>5, <1>6, <1>7, <1>8, <1>9, <1>10, <1>11, <1>12, <1>13, <1>14,
     <1>15, <1>16, <1>17, <1>18, <1>19, <1>20, <1>21, <1>22, <1>23, <1>24, <1>25, <1>26, <1>27
  DEF Trees!Next
--------------------------------------------------------------------------------
(* Whoever works holds the lease, and whoever may remove the tree has seen *)
(* it free.                                                                *)
Removing == {"verify", "remove", "drop"}
Held ==
    /\ run # "none" => itemLease
    /\ reap.pc # "idle" \/ dispatch.pc \in Removing => ~itemLease
    /\ itemOrder = "expired" \/ sweep = "expired" => ~itemLease
    /\ tree # None /\ ~tree.linked => ~tree.dirty /\ run \in {"none", "fetch", "prepare"}
    /\ dispatch.pc \in Removing => "item" \in dispatch.branches
    /\ reap.pc # "idle" /\ tree # None /\ tree.branch = "item" => "item" \in reap.branches

(* A cleaner that goes on.                                                 *)
LEMMA Fields ==
  ASSUME NEW c \in Trees!Cleaner, NEW p, NEW t, NEW b
  PROVE  /\ [c EXCEPT !.pc = p, !.tip = t].pc = p /\ [c EXCEPT !.pc = p, !.tip = t].tip = t
         /\ [c EXCEPT !.pc = p, !.tip = t].branches = c.branches
         /\ [c EXCEPT !.pc = p, !.branches = b].pc = p
         /\ [c EXCEPT !.pc = p, !.branches = b].branches = b
         /\ [c EXCEPT !.pc = p, !.branches = b].tip = c.tip
         /\ [c EXCEPT !.pc = p].pc = p /\ [c EXCEPT !.pc = p].tip = c.tip
         /\ [c EXCEPT !.pc = p].branches = c.branches
         /\ Trees!Idle.pc = "idle" /\ Trees!Idle.tip = None /\ Trees!Idle.branches = {}
BY DEF Trees!Cleaner, Trees!Idle

(* No step gives or takes the lease where it would part them.              *)
LEMMA HeldStep ==
  ASSUME Undisturbed, RootedTypes, Held, Trees!Next
  PROVE  Held'
<1> USE DEF Trees!source, Trees!github, Trees!workers, Trees!cleaners, Held, Removing,
        Undisturbed
<1>0. dispatch \in Trees!Cleaner /\ reap \in Trees!Cleaner /\ tree \in Trees!Tree \cup {None}
      /\ itemLease \in BOOLEAN
  BY DEF RootedTypes, Trees!TypeOK
<1>1. CASE Trees!Fetch BY <1>1 DEF Trees!Fetch
<1>2. CASE Trees!CreateOrder BY <1>2 DEF Trees!CreateOrder
<1>3. CASE Trees!HarnessFails BY <1>3 DEF Trees!HarnessFails, Trees!EndRun
<1>4. CASE Trees!LeaseLapses BY <1>4 DEF Trees!LeaseLapses
<1>5. CASE Trees!Expire BY <1>5 DEF Trees!Expire
<1>6. CASE Trees!Edit BY <1>6, <1>0 DEF Trees!Edit, Trees!Tree
<1>7. CASE Trees!Prepare
  <2>1. /\ itemLease /\ reap.pc = "idle" /\ dispatch.pc \notin Removing
        /\ run' \in {"none", "work"} /\ (itemLease' = FALSE \/ itemLease' = itemLease)
        /\ (run' = "work" => itemLease' = itemLease)
        /\ (itemOrder' = itemOrder \/ itemLease' = FALSE) /\ UNCHANGED <<dispatch, reap, sweep>>
    BY <1>7 DEF Trees!Prepare, Trees!EndRun
  <2>2. \/ tree' = tree /\ run' = "none"
        \/ tree # None /\ tree.linked /\ tree' = [tree EXCEPT !.branch = "item"]
        \/ tree' = [branch |-> "item", dirty |-> FALSE, linked |-> TRUE]
    BY <1>7 DEF Trees!Prepare, Trees!EndRun
  <2>3. tree' # None /\ ~tree'.linked => ~tree'.dirty /\ run' = "none"
    BY <2>2, <1>0 DEF Trees!Tree
  <2>4. QED BY <2>1, <2>3
<1>8. CASE Trees!CommitWork BY <1>8, <1>0 DEF Trees!CommitWork, Trees!EndRun, Trees!Tree
<1>9. CASE Trees!PushBranch BY <1>9 DEF Trees!PushBranch, Trees!EndRun, Trees!PushFails
<1>10. CASE Trees!CreatePullRequest BY <1>10 DEF Trees!CreatePullRequest, Trees!EndRun
<1>11. CASE Trees!RunIsKilled BY <1>11 DEF Trees!RunIsKilled
<1>12. CASE Trees!Begin BY <1>12, <1>0 DEF Trees!Begin, Trees!Cleaner
<1>13. CASE Trees!ListBranches
  BY <1>13, <1>0 DEF Trees!ListBranches, Trees!Refuse, Trees!Idle, Trees!Cleaner
<1>14. CASE Trees!DeleteBranch
  BY <1>14, <1>0 DEF Trees!DeleteBranch, Trees!Refuse, Trees!Idle, Trees!Cleaner
<1>15. CASE Trees!ReadReferences
  <2> DEFINE tip == Trees!NewestOf({"MERGED"})
  <2>1. /\ itemOrder' \in {itemOrder, "closed"}
        /\ \/ dispatch' = Trees!Idle
           \/ \E pc \in {"launch", "lease"} : dispatch' = [dispatch EXCEPT !.pc = pc, !.tip = tip]
    BY <1>15 DEF Trees!ReadReferences, Trees!Refuse
  <2> HIDE DEF tip
  <2>2. dispatch'.pc \in {"idle", "launch", "lease"}
    <3>1. ASSUME NEW pc \in {"launch", "lease"},
                 dispatch' = [dispatch EXCEPT !.pc = pc, !.tip = tip]
          PROVE  dispatch'.pc = pc
      <4>1. [dispatch EXCEPT !.pc = pc, !.tip = tip].pc = pc BY <1>0, Fields
      <4>2. QED BY <3>1, <4>1
    <3>2. QED BY <2>1, <3>1, <1>0, Fields
  <2>3. QED BY <1>15, <2>1, <2>2 DEF Trees!ReadReferences
<1>16. CASE Trees!LookForDispatch
  <2> DEFINE branches == {"item"} \cup (IF tree = None THEN {} ELSE {tree.branch})
  <2>1. /\ itemOrder' \in {itemOrder, "closed"}
        /\ \/ dispatch' = Trees!Idle
           \/ ~itemLease /\ dispatch' = [dispatch EXCEPT !.pc = "verify", !.branches = branches]
    BY <1>16 DEF Trees!LookForDispatch, Trees!Refuse
  <2>2. "item" \in branches OBVIOUS
  <2> HIDE DEF branches
  <2>3. dispatch'.pc = "idle" \/ (~itemLease /\ "item" \in dispatch'.branches)
    <3>1. [dispatch EXCEPT !.pc = "verify", !.branches = branches].branches = branches
      BY <1>0, Fields
    <3>2. CASE dispatch' = Trees!Idle BY <3>2, <1>0, Fields
    <3>3. CASE /\ ~itemLease
               /\ dispatch' = [dispatch EXCEPT !.pc = "verify", !.branches = branches]
      BY <2>2, <3>1, <3>3
    <3>4. QED BY <2>1, <3>2, <3>3
  <2>4. QED BY <1>16, <2>1, <2>3 DEF Trees!LookForDispatch
<1>17. CASE Trees!Look BY <1>17, <1>0 DEF Trees!Look, Trees!Cleaner
<1>18. CASE Trees!ReadBranch BY <1>18, <1>0 DEF Trees!ReadBranch, Trees!Idle, Trees!Cleaner
<1>19. CASE Trees!ReadResolution BY <1>19, <1>0 DEF Trees!ReadResolution, Trees!Idle, Trees!Cleaner
<1>20. CASE Trees!Verify BY <1>20, <1>0 DEF Trees!Verify, Trees!Verified, Trees!Idle, Trees!Cleaner
<1>21. CASE Trees!Remove
  BY <1>21, <1>0 DEF Trees!Remove, Trees!Removes, Trees!Refuse, Trees!Idle, Trees!Cleaner
<1>22. CASE Trees!DropBranches
  BY <1>22, <1>0 DEF Trees!DropBranches, Trees!Refuse, Trees!Idle, Trees!Cleaner
<1>23. CASE Trees!Launch BY <1>23, <1>0 DEF Trees!Launch, Trees!Idle, Trees!Cleaner
<1>24. CASE Trees!CleanerIsKilled
  BY <1>24, <1>0 DEF Trees!CleanerIsKilled, Trees!Idle, Trees!Cleaner
<1>25. CASE Trees!SweepReads \/ Trees!SweepVisits BY <1>25 DEF Trees!SweepReads, Trees!SweepVisits
<1>26. CASE Trees!GitHub BY <1>26 DEF Trees!GitHub
<1>27. CASE Trees!Switch BY <1>27, <1>0 DEF Trees!Switch, Trees!Tree, Trees!Clean
<1>28. QED
  BY <1>1, <1>2, <1>3, <1>4, <1>5, <1>6, <1>7, <1>8, <1>9, <1>10, <1>11, <1>12, <1>13, <1>14,
     <1>15, <1>16, <1>17, <1>18, <1>19, <1>20, <1>21, <1>22, <1>23, <1>24, <1>25, <1>26, <1>27
  DEF Trees!Next
--------------------------------------------------------------------------------
(* What changes the default branch, the item's, its pull requests, and the *)
(* number of commits.                                                      *)
LEMMA GitHubChange ==
  ASSUME Trees!Next
  PROVE  \/ UNCHANGED <<made, main, remote, pulls>>
         \/ Trees!PushBranch /\ UNCHANGED <<made, main>>
         \/ Trees!CreatePullRequest /\ UNCHANGED <<made, main, remote>>
         \/ Trees!CommitWork /\ UNCHANGED <<main, remote, pulls>>
         \/ Trees!DeleteBranch /\ UNCHANGED <<made, main, pulls>>
         \/ Trees!GitHub
<1> USE DEF Trees!github
<1>1. CASE Trees!CreateOrder \/ Trees!Begin \/ Trees!ListBranches
  BY <1>1 DEF Trees!CreateOrder, Trees!Begin, Trees!ListBranches
<1>2. CASE Trees!DeleteBranch \/ Trees!ReadReferences
  BY <1>2 DEF Trees!DeleteBranch, Trees!ReadReferences
<1>3. CASE Trees!LookForDispatch \/ Trees!Launch \/ Trees!Fetch \/ Trees!Prepare
  BY <1>3 DEF Trees!LookForDispatch, Trees!Launch, Trees!Fetch, Trees!Prepare
<1>4. CASE Trees!Edit \/ Trees!HarnessFails \/ Trees!CommitWork \/ Trees!RunIsKilled
  BY <1>4 DEF Trees!Edit, Trees!HarnessFails, Trees!CommitWork, Trees!RunIsKilled
<1>5. CASE Trees!LeaseLapses \/ Trees!Look \/ Trees!ReadBranch \/ Trees!ReadResolution
  BY <1>5 DEF Trees!LeaseLapses, Trees!Look, Trees!ReadBranch, Trees!ReadResolution
<1>6. CASE Trees!Verify \/ Trees!Remove \/ Trees!DropBranches
  BY <1>6 DEF Trees!Verify, Trees!Remove, Trees!DropBranches
<1>7. CASE Trees!CleanerIsKilled \/ Trees!SweepReads \/ Trees!SweepVisits \/ Trees!Expire
           \/ Trees!Switch
  BY <1>7 DEF Trees!CleanerIsKilled, Trees!SweepReads, Trees!SweepVisits, Trees!Expire,
     Trees!Switch
<1>8. CASE Trees!PushBranch \/ Trees!CreatePullRequest
  BY <1>8 DEF Trees!PushBranch, Trees!CreatePullRequest
<1>9. QED BY <1>1, <1>2, <1>3, <1>4, <1>5, <1>6, <1>7, <1>8 DEF Trees!Next

(* A pull request that is closed or merged stays as it is, and none opens  *)
(* but by a run.                                                           *)
LEMMA PullsStep ==
  ASSUME Trees!Constants, RootedTypes, Trees!Next
  PROVE  /\ \A i \in DOMAIN pulls :
               i \in DOMAIN pulls' /\ (pulls[i].state # "OPEN" => pulls'[i] = pulls[i])
         /\ Trees!CreatePullRequest \/ (Trees!OpenPull' => Trees!OpenPull)
<1>0. pulls \in Seq(Trees!Pull) /\ remote \in Trees!History \cup {None}
      /\ local \in [Trees!Branch -> Trees!History \cup {None}] /\ None \notin Trees!History
      /\ \A i \in DOMAIN pulls : pulls[i] \in Trees!Pull
  BY DEF RootedTypes, Trees!TypeOK, Trees!Constants
<1>1. ASSUME NEW h \in Trees!History, pulls' = Trees!Follow(pulls, h)
      PROVE  /\ \A i \in DOMAIN pulls :
                   i \in DOMAIN pulls' /\ (pulls[i].state # "OPEN" => pulls'[i] = pulls[i])
             /\ Trees!OpenPull' => Trees!OpenPull
  BY <1>0, <1>1, Followed DEF Trees!OpenPull
<1>2. CASE UNCHANGED pulls BY <1>2 DEF Trees!OpenPull
<1>3. CASE Trees!PushBranch
  <2>1. CASE UNCHANGED pulls BY <2>1 DEF Trees!OpenPull
  <2>2. CASE remote' = local'["item"] /\ pulls' = Trees!Follow(pulls, remote') /\ Trees!HasBranch
    <3>1. RootedTypes' /\ remote' # None
      <4>1. RootedTypes' BY TreesTypeStep
      <4>2. local["item"] # None BY <2>2 DEF Trees!HasBranch
      <4>3. "item" \in Trees!Branch BY DEF Trees!Branch
      <4>4. CASE UNCHANGED local BY <2>2, <4>1, <4>2, <4>4
      <4>5. CASE remote # None /\ Trees!MergeForward
        <5>1. Trees!Merged(local["item"], remote) \in Trees!History
          BY <1>0, <4>2, <4>3, <4>5, HistoryTypes
        <5>2. local'["item"] = Trees!Merged(local["item"], remote)
          BY <1>0, <4>3, <4>5 DEF Trees!MergeForward
        <5>3. QED BY <1>0, <2>2, <4>1, <5>1, <5>2
      <4>6. QED BY <1>3, <2>2, <4>4, <4>5 DEF Trees!PushBranch
    <3>2. remote' \in Trees!History BY <3>1 DEF RootedTypes, Trees!TypeOK
    <3>3. QED BY <1>1, <2>2, <3>2
  <2>3. QED BY <1>3, <2>1, <2>2 DEF Trees!PushBranch, Trees!PushFails
<1>4. CASE Trees!CreatePullRequest
  BY <1>0, <1>4 DEF Trees!CreatePullRequest
<1>5. CASE Trees!GitHub
  <2>1. ASSUME NEW i \in DOMAIN pulls, pulls[i].state = "OPEN",
               NEW state \in {"MERGED", "CLOSED"}, pulls' = [pulls EXCEPT ![i].state = state]
        PROVE  /\ \A j \in DOMAIN pulls :
                     j \in DOMAIN pulls' /\ (pulls[j].state # "OPEN" => pulls'[j] = pulls[j])
               /\ Trees!OpenPull' => Trees!OpenPull
    BY <2>1 DEF Trees!OpenPull
  <2>2. CASE /\ Trees!NewCommit \in Trees!Commit /\ remote # None
             /\ remote' = [remote EXCEPT !.own = @ \cup {Trees!NewCommit}]
             /\ pulls' = Trees!Follow(pulls, remote')
    <3>1. remote' \in Trees!History BY <1>0, <2>2, HistoryTypes
    <3>2. QED BY <1>1, <2>2, <3>1
  <2>3. CASE UNCHANGED pulls BY <2>3 DEF Trees!OpenPull
  <2>4. QED BY <1>5, <2>1, <2>2, <2>3 DEF Trees!GitHub
<1>6. QED BY <1>2, <1>3, <1>4, <1>5, GitHubChange

(* Nobody launches a run beside an open pull request.                      *)
Settled ==
    /\ run # "none" => ~Trees!OpenPull
    /\ dispatch.pc \in {"lease", "verify", "remove", "drop", "launch"} =>
          ~Trees!OpenPull \/ itemOrder # "open"

(* A run publishes its pull request and ends; a dispatch goes on only    *)
(* where it has found none open.                                           *)
LEMMA SettledStep ==
  ASSUME Trees!Constants, RootedTypes, Settled, Trees!Next
  PROVE  Settled'
<1>0. dispatch \in Trees!Cleaner BY DEF RootedTypes, Trees!TypeOK
<1>1. CASE Trees!CreatePullRequest
  BY <1>1 DEF Trees!CreatePullRequest, Trees!EndRun, Settled
<1>2. CASE Trees!ReadReferences
  <2>1. CASE Trees!OpenPull
    <3>1. dispatch'.pc = "idle" /\ UNCHANGED <<pulls, run>>
      BY <1>2, <2>1, <1>0, Fields
      DEF Trees!ReadReferences, Trees!Refuse, Trees!github, Trees!workers
    <3>2. QED BY <3>1 DEF Settled, Trees!OpenPull
  <2>2. CASE ~Trees!OpenPull
    BY <1>2, <2>2 DEF Trees!ReadReferences, Trees!github, Settled, Trees!OpenPull
  <2>3. QED BY <2>1, <2>2
<1>3. CASE Trees!Launch
  <2>1. dispatch'.pc = "idle" BY <1>3, <1>0, Fields DEF Trees!Launch
  <2>2. QED BY <1>3, <2>1 DEF Trees!Launch, Trees!github, Settled, Trees!OpenPull
<1>4. CASE Trees!CreateOrder \/ Trees!Begin \/ Trees!ListBranches \/ Trees!DeleteBranch
  <2>1. dispatch'.pc \notin {"lease", "verify", "remove", "drop", "launch"}
    BY <1>4, <1>0 DEF Trees!CreateOrder, Trees!Begin, Trees!ListBranches, Trees!DeleteBranch,
       Trees!Refuse, Trees!Idle, Trees!Cleaner, Trees!cleaners
  <2>2. UNCHANGED <<pulls, run>>
    BY <1>4 DEF Trees!CreateOrder, Trees!Begin, Trees!ListBranches, Trees!DeleteBranch,
       Trees!github, Trees!workers
  <2>3. QED BY <2>1, <2>2 DEF Settled, Trees!OpenPull
<1>5. CASE ~(Trees!CreatePullRequest \/ Trees!ReadReferences \/ Trees!Launch \/ Trees!CreateOrder
             \/ Trees!Begin \/ Trees!ListBranches \/ Trees!DeleteBranch)
  <2>1. Trees!OpenPull' => Trees!OpenPull BY <1>5, PullsStep
  <2>2. run' # "none" => run # "none"
    BY <1>5 DEF Trees!Next, Trees!workers, Trees!Fetch, Trees!HarnessFails, Trees!LeaseLapses,
       Trees!Expire, Trees!Edit, Trees!Prepare, Trees!EndRun, Trees!CommitWork, Trees!PushBranch,
       Trees!PushFails, Trees!RunIsKilled, Trees!LookForDispatch, Trees!Look,
       Trees!ReadBranch, Trees!ReadResolution, Trees!Verify, Trees!Remove, Trees!DropBranches,
       Trees!CleanerIsKilled, Trees!SweepReads, Trees!SweepVisits, Trees!GitHub, Trees!Switch
  <2>3. itemOrder' = "open" => itemOrder = "open"
    BY <1>5 DEF Trees!Next, Trees!Fetch, Trees!HarnessFails, Trees!LeaseLapses,
       Trees!Expire, Trees!Edit, Trees!Prepare, Trees!EndRun, Trees!CommitWork, Trees!PushBranch,
       Trees!PushFails, Trees!RunIsKilled, Trees!LookForDispatch, Trees!Look,
       Trees!ReadBranch, Trees!ReadResolution, Trees!Verify, Trees!Remove, Trees!DropBranches,
       Trees!Refuse, Trees!CleanerIsKilled, Trees!SweepReads, Trees!SweepVisits, Trees!GitHub,
       Trees!Switch
  <2>4. dispatch'.pc \in {"lease", "verify", "remove", "drop", "launch"} =>
           dispatch.pc \in {"lease", "verify", "remove", "drop", "launch"}
    BY <1>5, <1>0 DEF Trees!Next, Trees!cleaners, Trees!Fetch, Trees!HarnessFails,
       Trees!LeaseLapses, Trees!Expire, Trees!Edit, Trees!Prepare, Trees!CommitWork,
       Trees!PushBranch, Trees!RunIsKilled, Trees!LookForDispatch, Trees!Look,
       Trees!ReadBranch, Trees!ReadResolution, Trees!Verify, Trees!Verified, Trees!Remove,
       Trees!DropBranches, Trees!Refuse, Trees!Idle, Trees!Cleaner, Trees!CleanerIsKilled,
       Trees!SweepReads, Trees!SweepVisits, Trees!GitHub, Trees!Switch
  <2>5. QED BY <2>1, <2>2, <2>3, <2>4 DEF Settled
<1>6. QED BY <1>1, <1>2, <1>3, <1>4, <1>5
--------------------------------------------------------------------------------
(* A cleaner's published tip is the head of a pull request that is over,   *)
(* and the branches it may drop have nothing that this head has not.       *)
Judged(j, ps, branches) ==
    /\ j.tip # None => \E i \in DOMAIN ps : ps[i].state # "OPEN" /\ ps[i].head = j.tip
    /\ j.pc \in {"remove", "drop"} =>
          /\ j.tip # None
          /\ \A b \in j.branches : branches[b] # None => Trees!Ancestor(branches[b], j.tip)
Cleared == Judged(dispatch, pulls, local) /\ Judged(reap, pulls, local)

(* What changes the branches.                                              *)
LEMMA LocalChange ==
  ASSUME Trees!Next
  PROVE  \/ UNCHANGED local \/ Trees!DropBranches \/ Trees!Switch
         \/ /\ run # "none"
            /\ Trees!Prepare \/ Trees!CommitWork \/ Trees!PushBranch \/ Trees!RunIsKilled
<1> USE DEF Trees!source
<1>1. CASE Trees!CreateOrder \/ Trees!Begin \/ Trees!ListBranches
  BY <1>1 DEF Trees!CreateOrder, Trees!Begin, Trees!ListBranches
<1>2. CASE Trees!DeleteBranch \/ Trees!ReadReferences
  BY <1>2 DEF Trees!DeleteBranch, Trees!ReadReferences
<1>3. CASE Trees!LookForDispatch \/ Trees!Launch \/ Trees!Fetch
  BY <1>3 DEF Trees!LookForDispatch, Trees!Launch, Trees!Fetch
<1>4. CASE Trees!Prepare \/ Trees!CommitWork \/ Trees!PushBranch \/ Trees!RunIsKilled
  BY <1>4 DEF Trees!Prepare, Trees!CommitWork, Trees!PushBranch, Trees!RunIsKilled
<1>5. CASE Trees!LeaseLapses \/ Trees!Look \/ Trees!ReadBranch \/ Trees!ReadResolution
  BY <1>5 DEF Trees!LeaseLapses, Trees!Look, Trees!ReadBranch, Trees!ReadResolution
<1>6. CASE Trees!Verify \/ Trees!Remove \/ Trees!CreatePullRequest \/ Trees!Edit
           \/ Trees!HarnessFails
  BY <1>6 DEF Trees!Verify, Trees!Remove, Trees!CreatePullRequest, Trees!Edit,
     Trees!HarnessFails
<1>7. CASE Trees!CleanerIsKilled \/ Trees!SweepReads \/ Trees!SweepVisits \/ Trees!Expire
           \/ Trees!GitHub
  BY <1>7 DEF Trees!CleanerIsKilled, Trees!SweepReads, Trees!SweepVisits, Trees!Expire,
     Trees!GitHub
<1>8. QED BY <1>1, <1>2, <1>3, <1>4, <1>5, <1>6, <1>7 DEF Trees!Next

(* What a cleaner has judged stays so: no run is at work, and a branch of  *)
(* someone's own is cut from the item's.                                   *)
LEMMA JudgedKept ==
  ASSUME Trees!Constants, RootedTypes, Held, Trees!Next,
         NEW j \in Trees!Cleaner, Judged(j, pulls, local),
         j.pc \in {"remove", "drop"} =>
            ~itemLease /\ (tree # None /\ tree.branch = "item" => "item" \in j.branches)
  PROVE  Judged(j, pulls', local')
<1>0. /\ local \in [Trees!Branch -> Trees!History \cup {None}]
      /\ j.branches \subseteq Trees!Branch
      /\ tree # None => tree \in Trees!Tree
  BY DEF RootedTypes, Trees!TypeOK, Trees!Cleaner
<1>1. j.tip # None => \E i \in DOMAIN pulls' : pulls'[i].state # "OPEN" /\ pulls'[i].head = j.tip
  BY PullsStep DEF Judged
<1>2. ASSUME j.pc \in {"remove", "drop"}, NEW b \in j.branches, local'[b] # None
      PROVE  Trees!Ancestor(local'[b], j.tip)
  <2>1. \A c \in j.branches : local[c] # None => Trees!Ancestor(local[c], j.tip)
    BY <1>2 DEF Judged
  <2>2. run = "none" BY <1>2 DEF Held
  <2>3. CASE local'[b] = local[b] BY <1>2, <2>1, <2>3
  <2>4. CASE Trees!DropBranches
    BY <1>0, <1>2, <2>3, <2>4 DEF Trees!DropBranches, Trees!Dropped
  <2>5. CASE Trees!Switch
    <3>1. tree # None /\ tree.branch = "item" /\ local' = [local EXCEPT !["other"] = local["item"]]
      BY <2>5 DEF Trees!Switch, Trees!Checked
    <3>2. "item" \in j.branches BY <1>2, <3>1
    <3>3. local'[b] = local[b] \/ local'[b] = local["item"] BY <1>0, <3>1
    <3>4. QED BY <1>2, <2>1, <3>2, <3>3
  <2>6. QED BY <2>2, <2>3, <2>4, <2>5, LocalChange
<1>3. QED BY <1>1, <1>2 DEF Judged

(* A cleaner that is not about to remove is judged by its tip alone.       *)
LEMMA JudgedOn ==
  ASSUME NEW j, NEW k, NEW ps, NEW branches, Judged(j, ps, branches),
         k.pc \notin {"remove", "drop"}, k.tip \in {None, j.tip}
  PROVE  Judged(k, ps, branches)
BY DEF Judged

(* A cleaner takes its tip from what it reads of the pull requests, and    *)
(* removes what it has verified against it.                                *)
LEMMA ClearedStep ==
  ASSUME Trees!Constants, RootedTypes, Held, Cleared, Trees!Next
  PROVE  Cleared'
<1>0. dispatch \in Trees!Cleaner /\ reap \in Trees!Cleaner BY DEF RootedTypes, Trees!TypeOK
<1>1. Judged(dispatch, pulls', local') /\ Judged(reap, pulls', local')
  BY <1>0, JudgedKept DEF Cleared, Held, Removing
<1>2. SUFFICES /\ UNCHANGED dispatch \/ Judged(dispatch', pulls', local')
               /\ UNCHANGED reap \/ Judged(reap', pulls', local')
  BY <1>1 DEF Cleared
<1>3. ASSUME NEW j, j.pc \notin {"remove", "drop"}, j.tip \in {None, dispatch.tip}
      PROVE  Judged(j, pulls', local')
  BY <1>1, <1>3, JudgedOn
<1>4. ASSUME NEW j, j.pc \notin {"remove", "drop"}, j.tip \in {None, reap.tip}
      PROVE  Judged(j, pulls', local')
  BY <1>1, <1>4, JudgedOn
<1>5. Judged(Trees!Idle, pulls', local') BY <1>0, <1>3, Fields
<1>6. CASE \/ Trees!CreateOrder \/ Trees!Fetch \/ Trees!Prepare \/ Trees!Edit \/ Trees!HarnessFails
           \/ Trees!CommitWork \/ Trees!PushBranch \/ Trees!CreatePullRequest
           \/ Trees!RunIsKilled \/ Trees!LeaseLapses \/ Trees!SweepReads \/ Trees!SweepVisits
           \/ Trees!Expire \/ Trees!GitHub \/ Trees!Switch
  <2>1. UNCHANGED <<dispatch, reap>>
    BY <1>6 DEF Trees!cleaners, Trees!CreateOrder, Trees!Fetch, Trees!Prepare, Trees!Edit,
       Trees!HarnessFails, Trees!CommitWork, Trees!PushBranch, Trees!CreatePullRequest,
       Trees!RunIsKilled, Trees!LeaseLapses, Trees!SweepReads, Trees!SweepVisits, Trees!Expire,
       Trees!GitHub, Trees!Switch
  <2>2. QED BY <2>1
<1>7. CASE Trees!Begin \/ Trees!ListBranches \/ Trees!DeleteBranch
  <2>1. /\ UNCHANGED reap
        /\ \/ UNCHANGED dispatch
           \/ dispatch' = Trees!Idle
           \/ \E p \in {"list", "delete", "refs"} : dispatch' = [dispatch EXCEPT !.pc = p]
    BY <1>7 DEF Trees!Begin, Trees!ListBranches, Trees!DeleteBranch, Trees!Refuse
  <2>2. ASSUME NEW p \in {"list", "delete", "refs"}
        PROVE  Judged([dispatch EXCEPT !.pc = p], pulls', local')
    <3> DEFINE on == [dispatch EXCEPT !.pc = p]
    <3>1. on.pc = p /\ on.tip = dispatch.tip BY <1>0, Fields
    <3> HIDE DEF on
    <3>2. Judged(on, pulls', local') BY <1>3, <3>1
    <3>3. QED BY <3>2 DEF on
  <2>3. QED BY <1>5, <2>1, <2>2
<1>8. CASE Trees!ReadReferences
  <2> DEFINE tip == Trees!NewestOf({"MERGED"})
             on(p) == [dispatch EXCEPT !.pc = p, !.tip = tip]
  <2>1. /\ UNCHANGED <<reap, pulls, local>>
        /\ \/ dispatch' = Trees!Idle
           \/ \E p \in {"launch", "lease"} : dispatch' = on(p)
    BY <1>8 DEF Trees!ReadReferences, Trees!Refuse, Trees!source, Trees!github
  <2>2. tip # None => \E i \in DOMAIN pulls : pulls[i].state # "OPEN" /\ pulls[i].head = tip
    BY Newest DEF RootedTypes
  <2> HIDE DEF tip
  <2>3. \A p \in {"launch", "lease"} : on(p).pc = p /\ on(p).tip = tip BY <1>0, Fields
  <2> HIDE DEF on
  <2>4. \A p \in {"launch", "lease"} : Judged(on(p), pulls', local')
    BY <2>1, <2>2, <2>3 DEF Judged
  <2>5. QED BY <1>5, <2>1, <2>4
<1>9. CASE Trees!LookForDispatch
  <2> DEFINE seen == {"item"} \cup (IF tree = None THEN {} ELSE {tree.branch})
  <2>1. /\ UNCHANGED reap
        /\ \/ dispatch' = Trees!Idle
           \/ dispatch' = [dispatch EXCEPT !.pc = "verify", !.branches = seen]
    BY <1>9 DEF Trees!LookForDispatch, Trees!Refuse
  <2> HIDE DEF seen
  <2> DEFINE on == [dispatch EXCEPT !.pc = "verify", !.branches = seen]
  <2>2. on.pc = "verify" /\ on.tip = dispatch.tip BY <1>0, Fields
  <2> HIDE DEF on
  <2>3. Judged(on, pulls', local') BY <1>3, <2>2
  <2>4. QED BY <1>5, <2>1, <2>3 DEF on
<1>10. CASE Trees!Launch
  BY <1>10, <1>5 DEF Trees!Launch
<1>11. CASE Trees!Look
  <2> DEFINE seen == {tree.branch}
  <2>1. UNCHANGED dispatch /\ reap' = [reap EXCEPT !.pc = "refs", !.branches = seen]
    BY <1>11 DEF Trees!Look
  <2> HIDE DEF seen
  <2> DEFINE on == [reap EXCEPT !.pc = "refs", !.branches = seen]
  <2>2. on.pc = "refs" /\ on.tip = reap.tip BY <1>0, Fields
  <2> HIDE DEF on
  <2>3. Judged(on, pulls', local') BY <1>4, <2>2
  <2>4. QED BY <2>1, <2>3 DEF on
<1>12. CASE Trees!ReadBranch
  <2> DEFINE on == [reap EXCEPT !.pc = "read"]
  <2>1. UNCHANGED dispatch /\ (reap' = Trees!Idle \/ reap' = on) BY <1>12 DEF Trees!ReadBranch
  <2>2. on.pc = "read" /\ on.tip = reap.tip BY <1>0, Fields
  <2> HIDE DEF on
  <2>3. Judged(on, pulls', local') BY <1>4, <2>2
  <2>4. QED BY <1>5, <2>1, <2>3
<1>13. CASE Trees!ReadResolution
  <2> DEFINE tip == IF "item" \in reap.branches THEN Trees!NewestOf({"MERGED", "CLOSED"})
                    ELSE Trees!NewestOf({"MERGED"})
             on == [reap EXCEPT !.pc = "verify", !.tip = tip]
  <2>1. UNCHANGED <<dispatch, pulls, local>> /\ (reap' = Trees!Idle \/ reap' = on)
    BY <1>13 DEF Trees!ReadResolution, Trees!source, Trees!github
  <2>2. tip # None => \E i \in DOMAIN pulls : pulls[i].state # "OPEN" /\ pulls[i].head = tip
    <3>1. \A states \in {{"MERGED", "CLOSED"}, {"MERGED"}} : Trees!NewestOf(states) # None =>
             \E i \in DOMAIN pulls : /\ pulls[i].state # "OPEN"
                                     /\ pulls[i].head = Trees!NewestOf(states)
      BY Newest DEF RootedTypes
    <3>2. QED BY <3>1
  <2> HIDE DEF tip
  <2>3. on.pc = "verify" /\ on.tip = tip BY <1>0, Fields
  <2> HIDE DEF on
  <2>4. Judged(on, pulls', local') BY <2>1, <2>2, <2>3 DEF Judged
  <2>5. QED BY <1>5, <2>1, <2>4
<1>14. CASE Trees!Verify
  <2>1. UNCHANGED <<pulls, local>> BY <1>14 DEF Trees!Verify, Trees!source, Trees!github
  <2>2. ASSUME NEW j \in Trees!Cleaner, Judged(j, pulls, local)
        PROVE  Judged(Trees!Verified(j), pulls', local')
    <3> DEFINE on == [j EXCEPT !.pc = "remove"]
    <3>1. on.pc = "remove" /\ on.tip = j.tip /\ on.branches = j.branches BY <2>2, Fields
    <3> HIDE DEF on
    <3>2. ASSUME Trees!Published(j.branches, j.tip) PROVE Judged(on, pulls', local')
      BY <2>1, <2>2, <3>1, <3>2 DEF Judged, Trees!Published
    <3>3. QED BY <1>5, <3>2 DEF Trees!Verified, on
  <2>3. QED BY <1>0, <1>14, <2>2 DEF Trees!Verify, Cleared
<1>15. CASE Trees!Remove
  <2>1. /\ \/ UNCHANGED dispatch
           \/ /\ dispatch.pc = "remove"
              /\ dispatch' \in {[dispatch EXCEPT !.pc = "drop"], Trees!Idle}
        /\ \/ UNCHANGED reap
           \/ reap.pc = "remove" /\ reap' \in {[reap EXCEPT !.pc = "drop"], Trees!Idle}
    BY <1>15 DEF Trees!Remove, Trees!Refuse
  <2>2. ASSUME NEW j \in Trees!Cleaner, j.pc = "remove", Judged(j, pulls', local')
        PROVE  Judged([j EXCEPT !.pc = "drop"], pulls', local')
    <3> DEFINE on == [j EXCEPT !.pc = "drop"]
    <3>1. on.pc = "drop" /\ on.tip = j.tip /\ on.branches = j.branches BY <2>2, Fields
    <3> HIDE DEF on
    <3>2. Judged(on, pulls', local') BY <2>2, <3>1 DEF Judged
    <3>3. QED BY <3>2 DEF on
  <2>3. QED BY <1>0, <1>1, <1>5, <2>1, <2>2
<1>16. CASE Trees!DropBranches
  <2> DEFINE on == [Trees!Idle EXCEPT !.pc = "launch"]
  <2>1. /\ UNCHANGED dispatch \/ dispatch' \in {on, Trees!Idle}
        /\ UNCHANGED reap \/ reap' = Trees!Idle
    BY <1>16 DEF Trees!DropBranches, Trees!Refuse
  <2>2. on.pc = "launch" /\ on.tip = None BY DEF Trees!Idle
  <2> HIDE DEF on
  <2>3. Judged(on, pulls', local') BY <1>3, <2>2
  <2>4. QED BY <1>5, <2>1, <2>3
<1>17. CASE Trees!CleanerIsKilled
  BY <1>17, <1>5 DEF Trees!CleanerIsKilled
<1>18. QED
  BY <1>6, <1>7, <1>8, <1>9, <1>10, <1>11, <1>12, <1>13, <1>14, <1>15, <1>16, <1>17
  DEF Trees!Next
--------------------------------------------------------------------------------
(* Where a commit is, the item's branch on GitHub left aside: what that    *)
(* branch has is elsewhere too, so that it may be deleted.                 *)
Kept(c) ==
    \/ c \in main
    \/ \E i \in DOMAIN pulls : c \in Trees!Content(pulls[i].head)
    \/ \E b \in Trees!Branch : local[b] # None /\ c \in Trees!Content(local[b])
Safe ==
    /\ remote # None =>
          /\ \A c \in Trees!Content(remote) : Kept(c)
          /\ \A i \in DOMAIN pulls : pulls[i].state = "OPEN" => pulls[i].head = remote
    /\ \A c \in 1 .. made : Kept(c)

(* The head of a pull request only gains commits: while it is open, the    *)
(* branch is pushed to by people alone.                                    *)
LEMMA HeadsGrow ==
  ASSUME Trees!Constants, RootedTypes, Settled, Safe, Trees!Next
  PROVE  \A i \in DOMAIN pulls :
            /\ i \in DOMAIN pulls'
            /\ Trees!Content(pulls[i].head) \subseteq Trees!Content(pulls'[i].head)
<1>0. /\ pulls \in Seq(Trees!Pull) /\ remote \in Trees!History \cup {None}
      /\ \A i \in DOMAIN pulls : pulls[i] \in Trees!Pull
  BY DEF RootedTypes, Trees!TypeOK
<1> TAKE i \in DOMAIN pulls
<1>1. i \in DOMAIN pulls' /\ (pulls[i].state # "OPEN" => pulls'[i] = pulls[i]) BY PullsStep
<1>2. CASE pulls[i].state # "OPEN" \/ UNCHANGED pulls BY <1>1, <1>2
<1>3. CASE pulls[i].state = "OPEN" /\ ~UNCHANGED pulls
  <2>1. run = "none" BY <1>3 DEF Settled, Trees!OpenPull
  <2>2. Trees!GitHub
    BY <1>3, <2>1, GitHubChange DEF Trees!PushBranch, Trees!CreatePullRequest
  <2>3. \/ \E k \in DOMAIN pulls, s \in {"MERGED", "CLOSED"} :
              pulls' = [pulls EXCEPT ![k].state = s]
        \/ /\ remote # None /\ Trees!NewCommit \in Trees!Commit
           /\ remote' = [remote EXCEPT !.own = @ \cup {Trees!NewCommit}]
           /\ pulls' = Trees!Follow(pulls, remote')
    BY <1>3, <2>2 DEF Trees!GitHub
  <2>4. ASSUME NEW k \in DOMAIN pulls, NEW s \in {"MERGED", "CLOSED"},
               pulls' = [pulls EXCEPT ![k].state = s]
        PROVE  pulls'[i].head = pulls[i].head
    <3>1. CASE k # i BY <1>0, <2>4, <3>1
    <3>2. CASE k = i
      <4>1. pulls'[i] = [pulls[i] EXCEPT !.state = s] BY <1>0, <2>4, <3>2
      <4>2. pulls[i] \in Trees!Pull BY <1>0
      <4>3. QED BY <4>1, <4>2 DEF Trees!Pull
    <3>3. QED BY <3>1, <3>2
  <2>5. CASE /\ remote # None /\ Trees!NewCommit \in Trees!Commit
             /\ remote' = [remote EXCEPT !.own = @ \cup {Trees!NewCommit}]
             /\ pulls' = Trees!Follow(pulls, remote')
    <3>1. remote' \in Trees!History BY <1>0, <2>5, HistoryTypes
    <3>2. pulls'[i] = [pulls[i] EXCEPT !.head = remote']
      BY <1>0, <1>3, <2>5, <3>1, Followed, ZenonT(40)
    <3>3. pulls[i] \in Trees!Pull BY <1>0
    <3>4. pulls'[i].head = remote' BY <3>2, <3>3 DEF Trees!Pull
    <3>5. pulls[i].head = remote BY <1>3, <2>5 DEF Safe
    <3>6. Trees!Content(remote) \subseteq Trees!Content(remote')
      BY <1>0, <2>5 DEF Trees!Content, Trees!History
    <3>7. QED BY <1>1, <3>4, <3>5, <3>6
  <2>6. QED BY <1>1, <2>3, <2>4, <2>5
<1>4. QED BY <1>2, <1>3

(* A branch here only gains commits, until it is dropped.                  *)
LEMMA BranchesGrow ==
  ASSUME Trees!Constants, RootedTypes, Trees!Next, ~Trees!DropBranches
  PROVE  \A b \in Trees!Branch : local[b] # None =>
            local'[b] # None /\ Trees!Content(local[b]) \subseteq Trees!Content(local'[b])
<1>0. /\ local \in [Trees!Branch -> Trees!History \cup {None}]
      /\ local' \in [Trees!Branch -> Trees!History \cup {None}]
      /\ remote \in Trees!History \cup {None} /\ None \notin Trees!History
      /\ "item" \in Trees!Branch /\ "other" \in Trees!Branch
  BY TreesTypeStep DEF RootedTypes, Trees!TypeOK, Trees!Constants, Trees!Branch
<1> SUFFICES ASSUME NEW b \in Trees!Branch, local[b] # None
             PROVE  local'[b] # None /\ Trees!Content(local[b]) \subseteq Trees!Content(local'[b])
  OBVIOUS
<1>1. ASSUME NEW c \in Trees!Branch, local[c] = None, NEW h, local' = [local EXCEPT ![c] = h]
      PROVE  local'[b] = local[b]
  BY <1>0, <1>1
<1>2. ASSUME NEW h \in Trees!History, local' = [local EXCEPT !["item"] = h],
             local["item"] \in Trees!History =>
                Trees!Content(local["item"]) \subseteq Trees!Content(h)
      PROVE  local'[b] # None /\ Trees!Content(local[b]) \subseteq Trees!Content(local'[b])
  <2>1. CASE b = "item" BY <1>0, <1>2, <2>1
  <2>2. CASE b # "item" BY <1>0, <1>2, <2>2
  <2>3. QED BY <2>1, <2>2
<1>3. CASE UNCHANGED local BY <1>3
<1>4. CASE Trees!Prepare
  BY <1>1, <1>3, <1>4, <1>0 DEF Trees!Prepare
<1>5. CASE Trees!RunIsKilled
  BY <1>1, <1>3, <1>5, <1>0 DEF Trees!RunIsKilled
<1>6. CASE Trees!Switch
  BY <1>1, <1>6, <1>0 DEF Trees!Switch
<1>7. CASE Trees!CommitWork /\ ~UNCHANGED local
  <2> DEFINE h == [local["item"] EXCEPT !.own = @ \cup {Trees!NewCommit}]
  <2>1. /\ tree # None /\ tree.branch = "item" /\ Trees!NewCommit \in Trees!Commit
        /\ local' = [local EXCEPT !["item"] = h]
    BY <1>7, <1>0 DEF Trees!CommitWork
  <2>2. local["item"] \in Trees!History BY <2>1, <1>0 DEF RootedTypes, Rooted
  <2>3. h \in Trees!History BY <2>1, <2>2, HistoryTypes
  <2>4. Trees!Content(local["item"]) \subseteq Trees!Content(h)
    BY <2>2 DEF Trees!Content, Trees!History
  <2> HIDE DEF h
  <2>5. QED BY <1>2, <2>1, <2>3, <2>4
<1>8. CASE Trees!PushBranch /\ ~UNCHANGED local
  <2> DEFINE h == Trees!Merged(local["item"], remote)
  <2>1. local' = [local EXCEPT !["item"] = h] /\ remote # None /\ Trees!HasBranch
    BY <1>8 DEF Trees!PushBranch, Trees!MergeForward
  <2>2. local["item"] \in Trees!History BY <2>1, <1>0 DEF Trees!HasBranch
  <2>3. h \in Trees!History BY <2>1, <2>2, <1>0, HistoryTypes
  <2>4. Trees!Content(local["item"]) \subseteq Trees!Content(h)
    BY DEF Trees!Content, Trees!Merged
  <2> HIDE DEF h
  <2>5. QED BY <1>2, <2>1, <2>3, <2>4
<1>9. QED BY <1>3, <1>4, <1>5, <1>6, <1>7, <1>8, LocalChange

(* Nothing that is kept is lost: a branch is dropped where the head of a   *)
(* pull request has it all.                                                *)
LEMMA KeptStays ==
  ASSUME Trees!Constants, RootedTypes, Settled, Cleared, Safe, Trees!Next
  PROVE  \A c : Kept(c) => Kept(c)'
<1>1. \A i \in DOMAIN pulls : i \in DOMAIN pulls'
         /\ Trees!Content(pulls[i].head) \subseteq Trees!Content(pulls'[i].head)
  BY HeadsGrow
<1>2. main \subseteq main' BY GitHubChange DEF Trees!GitHub
<1> SUFFICES ASSUME NEW c, Kept(c) PROVE Kept(c)' OBVIOUS
<1>3. c \in main => Kept(c)' BY <1>2 DEF Kept
<1>4. ASSUME NEW i \in DOMAIN pulls, c \in Trees!Content(pulls[i].head) PROVE Kept(c)'
  BY <1>1, <1>4 DEF Kept
<1>5. ASSUME NEW b \in Trees!Branch, local[b] # None, c \in Trees!Content(local[b])
      PROVE  Kept(c)'
  <2>1. CASE local'[b] # None /\ Trees!Content(local[b]) \subseteq Trees!Content(local'[b])
    BY <1>5, <2>1 DEF Kept
  <2>2. CASE ~Trees!DropBranches BY <1>5, <2>1, <2>2, BranchesGrow
  <2>3. CASE Trees!DropBranches
    <3>1. \E j \in {dispatch, reap} : j.pc = "drop" /\ local' = Trees!Dropped(j.branches)
      BY <2>3 DEF Trees!DropBranches
    <3>2. PICK j \in {dispatch, reap} : j.pc = "drop" /\ local' = Trees!Dropped(j.branches)
      BY <3>1
    <3>3. CASE b \notin j.branches
      <4>1. local'[b] = local[b] BY <3>2, <3>3, <1>5 DEF Trees!Dropped
      <4>2. QED BY <1>5, <2>1, <4>1
    <3>4. CASE b \in j.branches
      <4>1. /\ Trees!Ancestor(local[b], j.tip)
            /\ \E i \in DOMAIN pulls : pulls[i].head = j.tip
        BY <1>5, <3>2, <3>4 DEF Cleared, Judged
      <4>2. c \in Trees!Content(j.tip) BY <1>5, <4>1 DEF Trees!Ancestor, Trees!Content
      <4>3. QED BY <1>4, <4>1, <4>2
    <3>5. QED BY <3>3, <3>4
  <2>4. QED BY <2>2, <2>3
<1>6. QED BY <1>3, <1>4, <1>5 DEF Kept

(* What the branch on GitHub has, a step leaves kept.                      *)
LEMMA SafeStep ==
  ASSUME Trees!Constants, NoLatePush, RootedTypes, Settled, Cleared, Safe, Trees!Next
  PROVE  Safe'
<1>0. /\ pulls \in Seq(Trees!Pull) /\ remote \in Trees!History \cup {None} /\ made \in Nat
      /\ local \in [Trees!Branch -> Trees!History \cup {None}] /\ None \notin Trees!History
      /\ \A i \in DOMAIN pulls : pulls[i] \in Trees!Pull
      /\ "item" \in Trees!Branch /\ MaxWork \in Nat
  BY DEF RootedTypes, Trees!TypeOK, Trees!Constants, Trees!Branch
<1>1. RootedTypes' BY TreesTypeStep
<1>2. \A c : Kept(c) => Kept(c)' BY KeptStays
<1>3. CASE UNCHANGED <<made, main, remote, pulls>> BY <1>2, <1>3 DEF Safe
<1>4. CASE Trees!DeleteBranch /\ UNCHANGED <<made, main, pulls>>
  <2>1. remote' \in {remote, None} BY <1>4 DEF Trees!DeleteBranch
  <2>2. QED BY <1>2, <1>4, <2>1 DEF Safe
<1>5. CASE Trees!CommitWork /\ UNCHANGED <<main, remote, pulls>>
  <2>1. made' = made \/ \E c : c = made + 1 /\ made' = c /\ Kept(c)'
    <3>1. CASE UNCHANGED made BY <3>1
    <3>2. CASE ~UNCHANGED made
      <4> DEFINE h == [local["item"] EXCEPT !.own = @ \cup {Trees!NewCommit}]
      <4>1. /\ tree # None /\ tree.branch = "item" /\ made' = Trees!NewCommit
            /\ Trees!NewCommit \in Trees!Commit /\ local' = [local EXCEPT !["item"] = h]
        BY <1>5, <3>2 DEF Trees!CommitWork
      <4>2. local["item"] \in Trees!History BY <1>0, <4>1 DEF RootedTypes, Rooted
      <4>3. h \in Trees!History BY <4>1, <4>2, HistoryTypes
      <4>4. Trees!NewCommit \in Trees!Content(h) BY <4>2 DEF Trees!Content, Trees!History
      <4> HIDE DEF h
      <4>5. local'["item"] = h /\ h # None BY <1>0, <4>1, <4>3
      <4>6. ASSUME NEW c, c = Trees!NewCommit PROVE Kept(c)'
        BY <1>0, <4>4, <4>5, <4>6 DEF Kept
      <4>7. QED BY <4>1, <4>6 DEF Trees!NewCommit
    <3>3. QED BY <3>1, <3>2
  <2>2. \A c \in 1 .. made' : c \in 1 .. made \/ Kept(c)'
    BY <1>0, <2>1
  <2>3. QED BY <1>2, <1>5, <2>2 DEF Safe
<1>6. CASE Trees!CreatePullRequest /\ UNCHANGED <<made, main, remote>>
  <2>1. ~Trees!OpenPull BY <1>6 DEF Settled, Trees!CreatePullRequest
  <2>2. \/ UNCHANGED pulls
        \/ remote # None /\ pulls' = Append(pulls, [state |-> "OPEN", head |-> remote])
    BY <1>6 DEF Trees!CreatePullRequest
  <2>3. \A i \in DOMAIN pulls' : pulls'[i].state = "OPEN" => pulls'[i].head = remote
    BY <1>0, <2>1, <2>2 DEF Trees!OpenPull
  <2>4. QED BY <1>2, <1>6, <2>3 DEF Safe
<1>7. CASE Trees!PushBranch /\ UNCHANGED <<made, main>>
  <2>1. ~Trees!OpenPull BY <1>7 DEF Settled, Trees!PushBranch
  <2>2. CASE UNCHANGED <<remote, pulls>> BY <1>2, <1>7, <2>2 DEF Safe
  <2>3. CASE ~UNCHANGED <<remote, pulls>>
    <3>1. remote' = local'["item"] /\ pulls' = Trees!Follow(pulls, remote')
      BY <1>7, <2>3 DEF Trees!PushBranch, Trees!PushFails
    <3>2. pulls' = pulls
      BY <1>0, <2>1, <3>1 DEF Trees!OpenPull, Trees!Follow
    <3>3. remote' # None => \A c \in Trees!Content(remote') : Kept(c)'
      BY <1>0, <3>1 DEF Kept
    <3>4. QED BY <1>2, <1>7, <2>1, <3>2, <3>3 DEF Safe, Trees!OpenPull
  <2>4. QED BY <2>2, <2>3
<1>8. CASE Trees!GitHub
  <2>1. CASE \E k \in DOMAIN pulls, s \in {"MERGED", "CLOSED"} :
                pulls' = [pulls EXCEPT ![k].state = s] /\ UNCHANGED <<made, remote>>
    <3>1. PICK k \in DOMAIN pulls, s \in {"MERGED", "CLOSED"} :
             pulls' = [pulls EXCEPT ![k].state = s] /\ UNCHANGED <<made, remote>>
      BY <2>1
    <3>2. \A i \in DOMAIN pulls' : pulls'[i].state = "OPEN" =>
             i \in DOMAIN pulls /\ pulls[i].state = "OPEN" /\ pulls'[i].head = pulls[i].head
      <4>1. \A i \in DOMAIN pulls : i # k => pulls'[i] = pulls[i] BY <1>0, <3>1
      <4>2. pulls'[k] = [pulls[k] EXCEPT !.state = s] /\ pulls[k] \in Trees!Pull
        BY <1>0, <3>1
      <4>3. pulls'[k].state # "OPEN" BY <4>2 DEF Trees!Pull
      <4>4. DOMAIN pulls' = DOMAIN pulls BY <1>0, <3>1
      <4>5. QED BY <4>1, <4>3, <4>4
    <3>3. QED BY <1>2, <3>1, <3>2 DEF Safe
  <2>2. CASE remote' = None /\ UNCHANGED <<made, pulls>> BY <1>2, <2>2 DEF Safe
  <2>3. CASE UNCHANGED <<made, remote, pulls>> BY <1>2, <2>3 DEF Safe
  <2>4. CASE /\ remote # None /\ Trees!OpenPull /\ Trees!NewCommit \in Trees!Commit
             /\ made' = Trees!NewCommit
             /\ remote' = [remote EXCEPT !.own = @ \cup {Trees!NewCommit}]
             /\ pulls' = Trees!Follow(pulls, remote')
    <3>1. /\ remote' \in Trees!History /\ DOMAIN pulls' = DOMAIN pulls
          /\ \A i \in DOMAIN pulls :
                pulls'[i] = IF pulls[i].state = "OPEN" THEN [pulls[i] EXCEPT !.head = remote']
                            ELSE pulls[i]
      <4>1. remote' \in Trees!History BY <1>0, <2>4, HistoryTypes
      <4>2. pulls' = Trees!Follow(pulls, remote') BY <2>4
      <4>3. QED BY <1>0, <4>1, <4>2, Followed
    <3>2. \A i \in DOMAIN pulls' : pulls'[i].state = "OPEN" => pulls'[i].head = remote'
      <4> TAKE i \in DOMAIN pulls'
      <4>1. i \in DOMAIN pulls
            /\ pulls'[i] = IF pulls[i].state = "OPEN" THEN [pulls[i] EXCEPT !.head = remote']
                           ELSE pulls[i]
        BY <3>1
      <4>2. pulls[i] \in Trees!Pull BY <1>0, <4>1
      <4>3. QED BY <4>1, <4>2 DEF Trees!Pull
    <3>3. PICK i \in DOMAIN pulls : pulls[i].state = "OPEN" BY <2>4 DEF Trees!OpenPull
    <3>4. i \in DOMAIN pulls' /\ pulls'[i].head = remote'
      <4>1. i \in DOMAIN pulls' /\ pulls'[i] = [pulls[i] EXCEPT !.head = remote']
        BY <3>1, <3>3
      <4>2. pulls[i] \in Trees!Pull BY <1>0
      <4>3. QED BY <4>1, <4>2 DEF Trees!Pull
    <3>5. \A c \in Trees!Content(remote') : Kept(c)' BY <3>4 DEF Kept
    <3>6. made' = made + 1 /\ made + 1 \in Trees!Content(remote')
      BY <1>0, <2>4 DEF Trees!Content, Trees!History, Trees!NewCommit
    <3>7. \A c \in 1 .. made' : c \in 1 .. made \/ c = made + 1 BY <1>0, <3>6
    <3>8. QED BY <1>2, <3>2, <3>5, <3>6, <3>7 DEF Safe
  <2>5. QED BY <1>8, <2>1, <2>2, <2>3, <2>4 DEF Trees!GitHub, NoLatePush
<1>9. QED BY <1>3, <1>4, <1>5, <1>6, <1>7, <1>8, GitHubChange
--------------------------------------------------------------------------------
(* The inductive invariant of the worktree, in three parts.                *)
TreesInv == RootedTypes /\ Held /\ Settled /\ Cleared /\ Safe

(* At first there is neither tree, branch, nor pull request.               *)
LEMMA TreesInit ==
  ASSUME Trees!Constants, Trees!Init
  PROVE  TreesInv
<1> USE DEF Trees!Init
<1>1. RootedTypes
  <2>1. Trees!Idle \in Trees!Cleaner BY DEF Trees!Cleaner, Trees!Idle
  <2>2. pulls \in Seq(Trees!Pull) BY EmptySeq
  <2>3. /\ tree \in Trees!Tree \cup {None}
        /\ local \in [Trees!Branch -> Trees!History \cup {None}]
        /\ remote \in Trees!History \cup {None} /\ made \in 0 .. MaxWork
        /\ {origin, objects, main} \subseteq SUBSET Trees!Commit
    BY DEF Trees!Constants
  <2>4. QED BY <2>1, <2>2, <2>3 DEF RootedTypes, Rooted, Trees!TypeOK
<1>2. Held BY DEF Held, Removing, Trees!Idle
<1>3. Settled BY DEF Settled, Trees!OpenPull, Trees!Idle
<1>4. Cleared BY DEF Cleared, Judged, Trees!Idle
<1>5. Safe BY DEF Safe
<1>6. QED BY <1>1, <1>2, <1>3, <1>4, <1>5 DEF TreesInv

(* A step that changes nothing leaves all of it.                           *)
LEMMA TreesStutter ==
  ASSUME UNCHANGED Trees!vars
  PROVE  /\ RootedTypes => RootedTypes'
         /\ Held => Held'
         /\ Settled /\ Cleared /\ Safe => Settled' /\ Cleared' /\ Safe'
BY DEF Trees!vars, RootedTypes, Rooted, Trees!TypeOK, Held, Removing, Settled, Trees!OpenPull,
   Cleared, Judged, Safe, Kept

(* Every variable of the worktree has its type.                            *)
THEOREM TreesTyping ==
  ASSUME Trees!Constants
  PROVE  Trees!Spec => []Trees!TypeOK
<1>1. Trees!Init => RootedTypes BY TreesInit DEF TreesInv
<1>2. RootedTypes /\ [Trees!Next]_(Trees!vars) => RootedTypes'
  BY TreesTypeStep, TreesStutter
<1>3. RootedTypes => Trees!TypeOK BY DEF RootedTypes
<1>4. QED BY <1>1, <1>2, <1>3, PTL DEF Trees!Spec

(* The tree goes by a removal or by a sweep.                               *)
LEMMA TreeGoes ==
  ASSUME Trees!Constants, tree \in Trees!Tree, tree' = None, Trees!Next
  PROVE  Trees!Remove \/ Trees!SweepVisits
<1>1. tree # None BY DEF Trees!Constants
<1>2. /\ [branch |-> "item", dirty |-> FALSE, linked |-> TRUE] # None
      /\ \A b \in Trees!Branch : [tree EXCEPT !.branch = b] # None
      /\ \A d \in BOOLEAN : [tree EXCEPT !.dirty = d] # None
  <2>1. [branch |-> "item", dirty |-> FALSE, linked |-> TRUE] \in Trees!Tree
    BY DEF Trees!Tree, Trees!Branch
  <2>2. \A b \in Trees!Branch : [tree EXCEPT !.branch = b] \in Trees!Tree BY DEF Trees!Tree
  <2>3. \A d \in BOOLEAN : [tree EXCEPT !.dirty = d] \in Trees!Tree BY DEF Trees!Tree
  <2>4. QED BY <2>1, <2>2, <2>3 DEF Trees!Constants
<1>3. tree' # tree BY <1>1
<1>4. ~Trees!Prepare BY <1>1, <1>2, <1>3 DEF Trees!Prepare, Trees!Branch
<1>5. ~Trees!Edit /\ ~Trees!CommitWork
  BY <1>2, <1>3 DEF Trees!Edit, Trees!CommitWork
<1>6. ~Trees!RunIsKilled BY <1>1, <1>3 DEF Trees!RunIsKilled
<1>7. ~Trees!Switch BY <1>2 DEF Trees!Switch, Trees!Branch
<1>8. ~(Trees!CreateOrder \/ Trees!Begin \/ Trees!ListBranches \/ Trees!DeleteBranch
        \/ Trees!ReadReferences \/ Trees!LookForDispatch \/ Trees!Launch)
  BY <1>3 DEF Trees!CreateOrder, Trees!Begin, Trees!ListBranches, Trees!DeleteBranch,
     Trees!ReadReferences, Trees!LookForDispatch, Trees!Launch
<1>9. ~(Trees!Fetch \/ Trees!HarnessFails \/ Trees!PushBranch \/ Trees!CreatePullRequest
        \/ Trees!LeaseLapses \/ Trees!Look \/ Trees!ReadBranch \/ Trees!ReadResolution)
  BY <1>3 DEF Trees!Fetch, Trees!HarnessFails, Trees!PushBranch, Trees!CreatePullRequest,
     Trees!LeaseLapses, Trees!Look, Trees!ReadBranch, Trees!ReadResolution
<1>10. ~(Trees!Verify \/ Trees!DropBranches \/ Trees!CleanerIsKilled \/ Trees!SweepReads
         \/ Trees!Expire \/ Trees!GitHub)
  BY <1>3 DEF Trees!Verify, Trees!DropBranches, Trees!CleanerIsKilled, Trees!SweepReads,
     Trees!Expire, Trees!GitHub
<1>11. QED BY <1>4, <1>5, <1>6, <1>7, <1>8, <1>9, <1>10 DEF Trees!Next

(* The tree a run works in is not removed, and uncommitted work only after *)
(* the retention: where runs are not launched beside a removal, whoever    *)
(* removes the tree has seen the lease free, and the lease is still free   *)
(* (reap.rs, dispatch.rs and worktree.rs).                                 *)
THEOREM TreeKept ==
  ASSUME Trees!Constants, Undisturbed
  PROVE  Trees!Spec => Trees!TreeIsKept
<1> DEFINE Inv == RootedTypes /\ Held
           Keeps == tree # None /\ tree' = None =>
                       /\ run \in {"none", "fetch", "prepare"}
                       /\ tree.dirty => "expired" \in {itemOrder, sweep}
<1>1. Trees!Init => Inv BY TreesInit DEF TreesInv
<1>2. Inv /\ [Trees!Next]_(Trees!vars) => Inv' BY TreesTypeStep, HeldStep, TreesStutter
<1>3. Inv /\ [Trees!Next]_(Trees!vars) => [Keeps]_(Trees!vars)
  <2> SUFFICES ASSUME Inv, Trees!Next, tree # None, tree' = None
               PROVE  /\ run \in {"none", "fetch", "prepare"}
                      /\ tree.dirty => "expired" \in {itemOrder, sweep}
    OBVIOUS
  <2>1. tree \in Trees!Tree BY DEF RootedTypes, Trees!TypeOK
  <2>2. CASE Trees!Remove
    <3>1. Trees!Clean BY <2>2 DEF Trees!Remove, Trees!Removes
    <3>2. dispatch.pc \in Removing \/ reap.pc # "idle" BY <2>2 DEF Trees!Remove, Removing
    <3>3. QED BY <3>1, <3>2 DEF Held, Trees!Clean
  <2>3. CASE Trees!SweepVisits
    <3>1. ~tree.linked \/ sweep = "expired" BY <2>3 DEF Trees!SweepVisits
    <3>2. QED BY <3>1 DEF Held
  <2>4. Trees!Remove \/ Trees!SweepVisits BY <2>1, TreeGoes
  <2>5. QED BY <2>2, <2>3, <2>4
<1>4. QED BY <1>1, <1>2, <1>3, PTL DEF Trees!Spec, Trees!TreeIsKept

(* A commit that was ever made is still somewhere, where besides nobody    *)
(* pushes to a branch after its pull request is merged: such a push is     *)
(* deleted with the branch (dispatch.rs and reap.rs).                      *)
THEOREM WorkKept ==
  ASSUME Trees!Constants, Undisturbed, NoLatePush
  PROVE  Trees!Spec => []Trees!WorkIsKept
<1>1. Trees!Init => TreesInv BY TreesInit
<1>2. TreesInv /\ [Trees!Next]_(Trees!vars) => TreesInv'
  <2> SUFFICES ASSUME TreesInv, [Trees!Next]_(Trees!vars) PROVE TreesInv' OBVIOUS
  <2>1. CASE Trees!Next
    BY <2>1, TreesTypeStep, HeldStep, SettledStep, ClearedStep, SafeStep DEF TreesInv
  <2>2. CASE UNCHANGED Trees!vars BY <2>2, TreesStutter DEF TreesInv
  <2>3. QED BY <2>1, <2>2
<1>3. TreesInv => Trees!WorkIsKept
  <2> DEFINE heads == UNION {Trees!Content(pulls[i].head) : i \in DOMAIN pulls}
             branches == UNION {Trees!Content(local[b]) :
                                b \in {c \in Trees!Branch : local[c] # None}}
             pushed == IF remote = None THEN {} ELSE Trees!Content(remote)
  <2>1. ASSUME NEW c, Kept(c) PROVE c \in main \cup heads \cup branches BY <2>1 DEF Kept
  <2> HIDE DEF heads, branches, pushed
  <2>2. ASSUME TreesInv PROVE 1 .. made \subseteq main \cup heads \cup pushed \cup branches
    BY <2>1, <2>2 DEF TreesInv, Safe
  <2>3. QED BY <2>2 DEF Trees!WorkIsKept, heads, branches, pushed
<1>4. QED BY <1>1, <1>2, <1>3, PTL DEF Trees!Spec
================================================================================
