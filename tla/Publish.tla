-------------------------------- MODULE Publish --------------------------------
(***************************************************************************)
(* Publication (crates/ostrom-store/src/publish.rs): a sweep that was      *)
(* told where derives a public snapshot from the local records and pushes  *)
(* it to the destination's `state` branch, through a private checkout that *)
(* stays between publications.  Several hosts may publish to one           *)
(* destination, each from its own records; a host without gate.jsonl       *)
(* keeps the gate records that are published.                              *)
(*                                                                         *)
(* The queue and the sweep's state are one version number; a day's gate    *)
(* records are one, in the partition of that day.                          *)
(***************************************************************************)
EXTENDS Naturals, Sequences, FiniteSets, SequencesExt

CONSTANTS
    Host,         \* the hosts that publish
    None,         \* no gate.jsonl; no published files
    FirstLands,   \* a first publication that is committed is pushed
    Keep,         \* for how many days a partition is kept: RETAINED_GATE_DAYS
    MaxDay,       \* bound on the days
    MaxEdits,     \* bound on the changes of the local records
    MaxFaults,    \* bound on the failures and crashes
    MaxCommits    \* bound on the commits of a checkout

VARIABLES
    today,
    records,    \* each host's queue and state version, and its gate days
    remote,     \* the commits of the destination's state branch
    head,       \* the commits of the checkout's state branch
    files,      \* what the checkout's work tree holds of a snapshot
    pc,         \* where each host is in publish
    tree,       \* the snapshot it derived: DerivedTree
    base,       \* whether it starts from the published state: CheckoutBase
    edits, faults

vars == <<today, records, remote, head, files, pc, tree, base, edits, faults>>
--------------------------------------------------------------------------------
Day == 1 .. MaxDay

(* The files of a snapshot, by what is in them: the queue and state, the   *)
(* rollup's verdicts by day, the manifest's count of gate records, and the *)
(* days that have a partition under gate/.                                 *)
Snapshot == [queue : Nat, verdicts : SUBSET Day, count : Nat, gate : SUBSET Day]

(* A commit also says whether it preserved the published gate records.     *)
Commit == [files : Snapshot, preserves : BOOLEAN]

Authoritative(h) == ~tree[h].preserves

(* What the constants are.                                                 *)
Constants == /\ MaxDay \in Nat \ {0} /\ None \notin Snapshot /\ None \notin Commit
             /\ \A days \in SUBSET Day : days # None

Init ==
    /\ today = 1
    /\ records = [h \in Host |-> [queue |-> 0, gate |-> None]]
    /\ remote = <<>>
    /\ head = [h \in Host |-> <<>>]
    /\ files = [h \in Host |-> None]
    /\ pc = [h \in Host |-> "idle"]
    /\ tree = [h \in Host |-> None]
    /\ base = [h \in Host |-> "none"]
    /\ edits = 0 /\ faults = 0

Goto(h, label) == pc' = [pc EXCEPT ![h] = label]

Return(h) ==
    /\ Goto(h, "idle")
    /\ tree' = [tree EXCEPT ![h] = None]
    /\ base' = [base EXCEPT ![h] = "none"]
--------------------------------------------------------------------------------
(* derive_tree: the records are read, and of the gate's only the days      *)
(* within the retention get a partition.  The rollup counts them all.      *)
Derived(h) ==
    LET days == IF records[h].gate = None THEN {} ELSE records[h].gate
        kept == {d \in days : d + Keep > today}
    IN [files |-> [queue |-> records[h].queue, verdicts |-> days,
                   count |-> Cardinality(kept), gate |-> kept],
        preserves |-> records[h].gate = None]

(* The tree is derived; a path that is no checkout is moved aside, and one *)
(* is cloned; and ls-remote says whether the destination has the branch.   *)
Begin(h) ==
    /\ pc[h] = "idle"
    /\ tree' = [tree EXCEPT ![h] = Derived(h)]
    /\ \/ UNCHANGED <<head, files, faults>>
       \/ /\ faults < MaxFaults /\ faults' = faults + 1
          /\ head' = [head EXCEPT ![h] = <<>>]
          /\ files' = [files EXCEPT ![h] = None]
    /\ base' = [base EXCEPT ![h] = IF remote = <<>> THEN "empty" ELSE "state"]
    /\ Goto(h, "restore")
    /\ UNCHANGED <<today, records, remote, edits>>

(* The checkout is put back: to the fetched state branch, or, where there  *)
(* is none, to the commits it has of its own, with an empty index.         *)
Restore(h) ==
    /\ pc[h] = "restore"
    /\ head' = IF base[h] = "state" THEN [head EXCEPT ![h] = remote] ELSE head
    /\ files' = [files EXCEPT ![h] = IF head'[h] = <<>> THEN None ELSE Last(head'[h]).files]
    /\ Goto(h, "install")
    /\ UNCHANGED <<today, records, remote, tree, base, edits, faults>>

(* Mutant: the manifest counts the gate records that this host derived.    *)
ReconciledUncounted(h) ==
    IF Authoritative(h) \/ base[h] = "empty" THEN tree[h].files
    ELSE [tree[h].files EXCEPT !.verdicts = files[h].verdicts, !.gate = files[h].gate]

(* reconcile_preserved_gate: a host without gate records takes over the    *)
(* published ones, with their rollup and their count.                      *)
Reconciled(h) ==
    IF Authoritative(h) \/ base[h] = "empty" THEN tree[h].files
    ELSE [tree[h].files EXCEPT !.verdicts = files[h].verdicts, !.gate = files[h].gate,
                               !.count = Cardinality(files[h].gate)]

(* install_tree: git rm takes the published partitions away when this host *)
(* has authority.  Where the index started empty there is nothing to take  *)
(* away, and what lies under gate/ is added with the partitions.           *)
Staged(h) ==
    LET new == Reconciled(h)
    IN IF base[h] = "empty" /\ new.gate # {} /\ files[h] # None
       THEN [new EXCEPT !.gate = @ \cup files[h].gate] ELSE new

(* reuse_previous_time_if_unchanged keeps the published time of a snapshot *)
(* that equals the one in the checkout, so that nothing differs; else the  *)
(* manifest's time does.                                                   *)
Install(h) ==
    /\ pc[h] = "install"
    /\ IF Reconciled(h) = files[h]
       THEN /\ Return(h) /\ UNCHANGED files
       ELSE /\ files' = [files EXCEPT ![h] = Staged(h)]
            /\ Goto(h, "commit")
            /\ UNCHANGED <<tree, base>>
    /\ UNCHANGED <<today, records, remote, head, edits, faults>>

MakeCommit(h) ==
    /\ pc[h] = "commit" /\ Len(head[h]) < MaxCommits
    /\ head' = [head EXCEPT ![h] =
                    Append(@, [files |-> files[h], preserves |-> tree[h].preserves])]
    /\ Goto(h, "push")
    /\ UNCHANGED <<today, records, remote, files, tree, base, edits, faults>>

(* The destination takes the commits when they follow its own.             *)
Push(h) ==
    /\ pc[h] = "push"
    /\ IF IsPrefix(remote, head[h])
       THEN remote' = head[h] /\ Return(h)
       ELSE UNCHANGED remote /\ Return(h)
    /\ UNCHANGED <<today, records, head, files, edits, faults>>

(* A command fails, or the sweep is killed.                                *)
Fail(h) ==
    /\ pc[h] # "idle"
    /\ FirstLands => ~(pc[h] = "push" /\ base[h] = "empty" /\ remote = <<>>)
    /\ faults < MaxFaults /\ faults' = faults + 1
    /\ Return(h)
    /\ UNCHANGED <<today, records, remote, head, files, edits>>
--------------------------------------------------------------------------------
(* The local records: a sweep writes the queue and the state; the gate     *)
(* appends a row, or its file is emptied or taken away.                    *)
Edit(h) ==
    /\ edits < MaxEdits /\ edits' = edits + 1
    /\ \/ records' = [records EXCEPT ![h].queue = @ + 1]
       \/ records' = [records EXCEPT ![h].gate = IF @ = None THEN {today} ELSE @ \cup {today}]
       \/ records[h].gate # None /\ records' = [records EXCEPT ![h].gate = None]
       \/ records' = [records EXCEPT ![h].gate = {}]
    /\ UNCHANGED <<today, remote, head, files, pc, tree, base, faults>>

NextDay ==
    /\ today < MaxDay /\ today' = today + 1
    /\ UNCHANGED <<records, remote, head, files, pc, tree, base, edits, faults>>

Next ==
    \/ \E h \in Host :
          \/ Begin(h) \/ Restore(h) \/ Install(h) \/ MakeCommit(h) \/ Push(h)
          \/ Fail(h) \/ Edit(h)
    \/ NextDay

Spec == Init /\ [][Next]_vars
--------------------------------------------------------------------------------
(* Every variable has its type.                                            *)
TypeOK ==
    /\ today \in Day
    /\ records \in [Host -> [queue : Nat, gate : (SUBSET Day) \cup {None}]]
    /\ remote \in Seq(Commit)
    /\ head \in [Host -> Seq(Commit)]
    /\ files \in [Host -> Snapshot \cup {None}]
    /\ tree \in [Host -> Commit \cup {None}]
    /\ base \in [Host -> {"none", "empty", "state"}]

(* A published snapshot is whole: the manifest counts the gate records     *)
(* that are there and the rollup knows their days, although they may come  *)
(* from another host than the queue; and a host without gate records       *)
(* leaves the published ones as the commit before has them, whoever        *)
(* published in between and whatever a failed publication left in the      *)
(* checkout (docs/publication-binary-cutover.md:41-44).                    *)
PublishedWhole ==
    \A i \in DOMAIN remote :
        LET now == remote[i].files
        IN /\ now.count = Cardinality(now.gate) /\ now.gate \subseteq now.verdicts
           /\ remote[i].preserves /\ i > 1 =>
                 /\ now.gate = remote[i - 1].files.gate
                 /\ now.verdicts = remote[i - 1].files.verdicts

(* A publication that reports that nothing changed finds what it would     *)
(* publish on the destination (docs/publication-binary-cutover.md:45).     *)
AsPublished ==
    \A h \in Host :
        Install(h) /\ pc'[h] = "idle" =>
           \E i \in DOMAIN remote : remote[i].files = Reconciled(h)
UnchangedIsPublished == [][AsPublished]_vars
================================================================================
