-------------------------------- MODULE Repair ---------------------------------
(***************************************************************************)
(* `ostrom repair-prs` (crates/ostrom-store/src/repair.rs): a builder pass *)
(* merges the base branch forward into the builder's own open pull         *)
(* requests whose head GitHub cannot merge, or whose checks fail where the *)
(* base's do not.  It lists the pull requests once, reads the checks of    *)
(* each listed head and of the listed base, and only then fetches, merges  *)
(* and pushes, while people and runs push, merge and delete branches.      *)
(*                                                                         *)
(* A head is the version of the base it has merged and the number of its   *)
(* own commits.                                                            *)
(***************************************************************************)
EXTENDS Naturals, FiniteSets

CONSTANTS
    Pull,         \* the builder's pull requests, one branch each
    None,         \* a deleted branch; no pull request
    Cap,          \* the attempts of one scan: REPAIR_CAP
    BaseStays,    \* the base branch does not move during a scan
    BranchStays,  \* no branch is deleted during a scan
    MaxBase,      \* bound on the versions of the base branch
    MaxOwn        \* bound on the commits of a branch

VARIABLES
    branch,     \* the head of each branch, on GitHub
    open,       \* the pull requests that are open
    checks,     \* the checks of each head
    base,       \* the version of the base branch, on GitHub
    baseChecks, \* the checks of that version
    clash,      \* the branches that do not merge with it
    pc,         \* where the scan is
    seen,       \* what it listed of each pull request
    todo,       \* those whose checks it has not read
    candidates, \* those it will attempt
    attempted,  \* how many it has
    fetched,    \* the candidate it is at, and the head and base it fetched
    repaired    \* how many it has repaired

vars == <<branch, open, checks, base, baseChecks, clash, pc, seen, todo, candidates, attempted,
          fetched, repaired>>
github == <<branch, open, checks, base, baseChecks, clash>>
scan == <<pc, seen, todo, candidates, attempted, fetched, repaired>>
--------------------------------------------------------------------------------
CheckState == {"absent", "pending", "failed", "green"}
Head == [base : 0 .. MaxBase, own : 0 .. MaxOwn + MaxBase]
Seen == [head : Head, base : 0 .. MaxBase, conflicting : BOOLEAN,
         why : {"none", "conflicting", "born-conflicting", "red"}]
Fetched == [pull : Pull, head : Head, base : 0 .. MaxBase]

(* What the constants are.                                                 *)
Constants == /\ Cap \in Nat /\ MaxBase \in Nat /\ MaxOwn \in Nat \ {0}
             /\ None \notin Head /\ None \notin Seen /\ None \notin Fetched

Init ==
    /\ branch = [p \in Pull |-> [base |-> 0, own |-> 1]] /\ open = Pull
    /\ checks \in [Pull -> {"absent", "pending", "failed", "green"}]
    /\ base = 0 /\ baseChecks = "green" /\ clash = {}
    /\ pc = "idle" /\ seen = [p \in Pull |-> None] /\ todo = {} /\ candidates = {}
    /\ attempted = 0 /\ fetched = None /\ repaired = 0

(* The listing of the open pull requests that a bot wrote with the         *)
(* builder's role line, and of what GitHub says of their mergeability.     *)
List ==
    /\ pc = "idle" /\ pc' = "classify"
    /\ todo' = open
    /\ seen' = [p \in Pull |-> IF p \in open
                   THEN [head |-> branch[p], base |-> base, conflicting |-> p \in clash, why |-> "none"]
                   ELSE None]
    /\ UNCHANGED <<github, candidates, attempted, fetched, repaired>>

(* The checks of a listed commit: those of a commit that is no longer the  *)
(* head may have become anything.                                          *)
ChecksOf(p) == IF branch[p] = seen[p].head THEN {checks[p]} ELSE CheckState
BaseChecksOf(p) == IF base = seen[p].base THEN {baseChecks} ELSE {"pending", "failed", "green"}

(* collect_candidates: a green head that conflicts; a head without checks  *)
(* that conflicts and has no merge ref; and a failed head that does not    *)
(* conflict and does not have the listed base, whose checks are green.     *)
Admitted(p, why) ==
    /\ candidates' = candidates \cup {p}
    /\ seen' = [seen EXCEPT ![p].why = why]
Skipped == UNCHANGED <<candidates, seen>>

Classify(p) ==
    /\ pc = "classify" /\ p \in todo /\ todo' = todo \ {p}
    /\ \E state \in ChecksOf(p), baseState \in BaseChecksOf(p) :
          \/ state = "green" /\ seen[p].conflicting /\ Admitted(p, "conflicting")
          \/ state = "absent" /\ seen[p].conflicting /\ (Admitted(p, "born-conflicting") \/ Skipped)
          \/ /\ state = "failed" /\ ~seen[p].conflicting
             /\ baseState = "green" /\ seen[p].head.base < seen[p].base
             /\ Admitted(p, "red")
          \/ /\ \/ state = "pending"
                \/ state = "failed" /\ seen[p].conflicting
                \/ state = "failed" /\ (baseState # "green" \/ seen[p].head.base >= seen[p].base)
                \/ state \in {"green", "absent"} /\ ~seen[p].conflicting
             /\ Skipped
    /\ UNCHANGED <<github, pc, attempted, fetched, repaired>>

(* A read of the checks, of the comparison or of the merge ref fails.      *)
ReadFails(p) ==
    /\ pc = "classify" /\ p \in todo /\ todo' = todo \ {p}
    /\ UNCHANGED <<github, pc, seen, candidates, attempted, fetched, repaired>>

(* Mutant: the fetched head is not compared with the listed one.           *)
FetchAny(p) ==
    /\ pc = "classify" /\ todo = {} /\ fetched = None
    /\ p \in candidates /\ attempted < Cap
    /\ candidates' = candidates \ {p} /\ attempted' = attempted + 1
    /\ fetched' = IF branch[p] = None THEN None
                  ELSE [pull |-> p, head |-> branch[p], base |-> base]
    /\ UNCHANGED <<github, pc, seen, todo, repaired>>

(* Mutant: an attempt is not counted.                                      *)
FetchUncounted(p) ==
    /\ pc = "classify" /\ todo = {} /\ fetched = None
    /\ p \in candidates /\ attempted < Cap
    /\ candidates' = candidates \ {p}
    /\ fetched' = IF branch[p] # seen[p].head THEN None
                  ELSE [pull |-> p, head |-> branch[p], base |-> base]
    /\ UNCHANGED <<github, pc, seen, todo, attempted, repaired>>

(* repair_candidate: both branches are fetched, and a head that is not the *)
(* listed one is left alone.                                               *)
Fetch(p) ==
    /\ pc = "classify" /\ todo = {} /\ fetched = None
    /\ p \in candidates /\ attempted < Cap
    /\ candidates' = candidates \ {p} /\ attempted' = attempted + 1
    /\ fetched' = IF branch[p] # seen[p].head THEN None
                  ELSE [pull |-> p, head |-> branch[p], base |-> base]
    /\ UNCHANGED <<github, pc, seen, todo, repaired>>

(* The base is merged into the head, with the head as the first parent;    *)
(* there has to be something to merge, and no conflict.  The push is an    *)
(* ordinary one: a branch that has moved refuses it.                       *)
Merged == [base |-> fetched.base, own |-> fetched.head.own + 1]
Pushes == branch[fetched.pull] \in {fetched.head, None}

MergeAndPush ==
    /\ fetched # None /\ fetched' = None
    /\ \/ UNCHANGED <<branch, checks, clash, repaired>>      \* a conflict, or a failure
       \/ /\ fetched.head.base < fetched.base /\ Pushes
          /\ branch' = [branch EXCEPT ![fetched.pull] = Merged]
          /\ checks' = [checks EXCEPT ![fetched.pull] = "absent"]
          /\ clash' = IF fetched.base = base THEN clash \ {fetched.pull} ELSE clash
          /\ repaired' = repaired + 1
    /\ UNCHANGED <<open, base, baseChecks, pc, seen, todo, candidates, attempted>>

(* Those beyond the cap are skipped; a scan that repaired something        *)
(* invalidates the sweep's generation.                                     *)
Finish ==
    /\ pc = "classify" /\ todo = {} /\ fetched = None
    /\ candidates = {} \/ attempted >= Cap
    /\ pc' = "idle" /\ candidates' = {} /\ attempted' = 0 /\ repaired' = 0
    /\ seen' = [p \in Pull |-> None]
    /\ UNCHANGED <<github, todo, fetched>>
--------------------------------------------------------------------------------
(* People, runs and GitHub.                                                *)
PushOther(p) ==
    /\ p \in open /\ branch[p].own < MaxOwn
    /\ branch' = [branch EXCEPT ![p].own = @ + 1]
    /\ checks' = [checks EXCEPT ![p] = "absent"]
    /\ UNCHANGED <<open, base, baseChecks, clash, scan>>

ChecksRun(p) ==
    /\ p \in open
    /\ \/ checks[p] = "absent" /\ p \notin clash /\ checks' = [checks EXCEPT ![p] = "pending"]
       \/ checks[p] = "pending" /\ \E c \in {"failed", "green"} : checks' = [checks EXCEPT ![p] = c]
    /\ UNCHANGED <<branch, open, base, baseChecks, clash, scan>>

BaseChecksRun ==
    /\ baseChecks = "pending" /\ baseChecks' \in {"failed", "green"}
    /\ UNCHANGED <<branch, open, checks, base, clash, scan>>

BaseMoves ==
    /\ base < MaxBase /\ (BaseStays => pc = "idle")
    /\ base' = base + 1 /\ baseChecks' = "pending"
    /\ clash' \in SUBSET open
    /\ UNCHANGED <<branch, open, checks, scan>>

(* A pull request is merged or closed, and its branch may be deleted.      *)
Resolve(p) ==
    /\ p \in open /\ open' = open \ {p} /\ clash' = clash \ {p}
    /\ branch' \in {branch} \cup IF BranchStays /\ pc # "idle" THEN {} ELSE {[branch EXCEPT ![p] = None]}
    /\ UNCHANGED <<checks, base, baseChecks, scan>>

Next ==
    \/ List \/ MergeAndPush \/ Finish \/ BaseChecksRun \/ BaseMoves
    \/ \E p \in Pull : Classify(p) \/ ReadFails(p) \/ Fetch(p) \/ PushOther(p) \/ ChecksRun(p) \/ Resolve(p)

Spec == Init /\ [][Next]_vars
--------------------------------------------------------------------------------
(* Every variable has its type.                                            *)
TypeOK ==
    /\ branch \in [Pull -> Head \cup {None}] /\ open \subseteq Pull
    /\ checks \in [Pull -> CheckState] /\ base \in 0 .. MaxBase
    /\ baseChecks \in {"pending", "failed", "green"} /\ clash \subseteq open
    /\ pc \in {"idle", "classify"} /\ seen \in [Pull -> Seen \cup {None}]
    /\ todo \subseteq Pull /\ candidates \subseteq Pull
    /\ attempted \in 0 .. Cap /\ repaired \in 0 .. Cap
    /\ fetched \in Fetched \cup {None}

(* A repair adds to the very head whose checks were read: nothing pushed   *)
(* since is lost, and what is merged is a base the head did not have,      *)
(* and for a failed head the one that was found green (repair.rs:515-560,  *)
(* 663-681; tests/repair_prs.rs:157).                                      *)
RepairStandsOnListing ==
    [][\A p \in Pull :
          repaired' > repaired /\ branch'[p] # branch[p] =>
             /\ branch[p] = seen[p].head /\ seen[p].why # "none"
             /\ branch'[p].base > branch[p].base
             /\ seen[p].why = "red" => branch'[p].base = seen[p].base]_vars
================================================================================
