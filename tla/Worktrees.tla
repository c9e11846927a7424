------------------------------- MODULE Worktrees -------------------------------
(***************************************************************************)
(* The worktree of one item and its branch, here and on GitHub: the runs   *)
(* that work in it (crates/ostrom-store/src/implement.rs), the dispatch    *)
(* that reclaims it for a new run once its pull request is merged          *)
(* (dispatch.rs), `ostrom reap-worktrees` (reap.rs), and the sweep of      *)
(* worktrees that every dispatch of any item does (worktree.rs).  None of  *)
(* the three takes the item's lease to remove the tree.                    *)
(*                                                                         *)
(* A history is the content it was cut from or has merged, and the commits *)
(* made on it.  A landed branch adds its commits to the content of the     *)
(* default branch, whatever commit that becomes.                           *)
(***************************************************************************)
EXTENDS Naturals, Sequences

CONSTANTS
    None,        \* no worktree, no branch, no published tip
    Apart,       \* no run is launched between a reaper's look at the tree and its removal
    Quick,       \* nor while a dispatch sweeps the worktrees
    LatePush,    \* people push to a branch after its pull request is merged
    Switches,    \* people switch the tree to a branch of their own
    MaxWork,     \* bound on the commits
    MaxPulls     \* bound on the pull requests

VARIABLES
    tree,     \* the worktree, if it is there: its branch, uncommitted changes, git's registration
    local,    \* the branches of the source repository
    origin,   \* the content of the default branch as it was last fetched
    objects,  \* the commits the source repository has
    made,     \* how many commits there have been, by anyone
    main, remote, pulls, issue,    \* GitHub: default branch, item's branch, pull requests, item
    order,    \* what the work order's rows say of it; "expired" once retention has passed
    lease,    \* whether the item's lease is in force
    run, preexisting,              \* where a run is, and whether it found commits in the tree
    dispatch, reap, sweep          \* where a dispatch, a reaper and a sweep of worktrees are

vars == <<tree, local, origin, objects, made, main, remote, pulls, issue, order, lease, run,
          preexisting, dispatch, reap, sweep>>
github == <<made, main, remote, pulls, issue>>
source == <<local, origin, objects>>
workers == <<run, preexisting>>
cleaners == <<dispatch, reap, sweep>>
--------------------------------------------------------------------------------
Commit == 1 .. MaxWork
Branch == {"item", "other"}
History == [base : SUBSET Commit, own : SUBSET Commit]
Tree == [branch : Branch, dirty : BOOLEAN, linked : BOOLEAN]
Pull == [state : {"OPEN", "CLOSED", "MERGED"}, head : History]
Cleaner == [pc : {"idle", "list", "delete", "refs", "lease", "verify", "remove", "drop", "launch",
                  "read"},
            branches : SUBSET Branch, tip : History \cup {None}]

Idle == [pc |-> "idle", branches |-> {}, tip |-> None]

(* What the constants are.                                                 *)
Constants == /\ MaxWork \in Nat /\ {Apart, Quick, LatePush, Switches} \subseteq BOOLEAN
             /\ None \notin Tree /\ None \notin History

Init ==
    /\ tree = None /\ local = [b \in Branch |-> None]
    /\ origin = {} /\ objects = {} /\ made = 0 /\ main = {}
    /\ remote = None /\ pulls = <<>> /\ issue = "OPEN"
    /\ order = "none" /\ lease = FALSE
    /\ run = "none" /\ preexisting = FALSE
    /\ dispatch = Idle /\ reap = Idle /\ sweep = "idle"

Content(h) == h.base \cup h.own
Ancestor(a, b) == a.base \subseteq b.base /\ a.own \subseteq b.own
Merged(a, b) == [base |-> a.base \cup b.base, own |-> a.own \cup b.own]

NewCommit == made + 1

Checked == local[tree.branch]    \* HEAD of the worktree
Clean == tree.linked /\ ~tree.dirty

(* has_unpublished_tree, against the default branch as fetched.            *)
HasUnpublishedTree == Content(Checked) # origin

OpenPull == \E i \in DOMAIN pulls : pulls[i].state = "OPEN"

(* An open pull request's head follows the branch.                         *)
Follow(ps, h) == [i \in DOMAIN ps |-> IF ps[i].state = "OPEN" THEN [ps[i] EXCEPT !.head = h] ELSE ps[i]]
--------------------------------------------------------------------------------
(* create_work_order: refused while the last order has no terminal row or  *)
(* the lease is there.  A dispatch works on the order it has read; there   *)
(* is no new one during it.                                                *)
CreateOrder ==
    /\ order \in {"none", "closed", "expired"} /\ ~lease /\ dispatch.pc = "idle"
    /\ order' = "open"
    /\ UNCHANGED <<tree, source, github, lease, workers, cleaners>>

(* The default branch is fetched.                                          *)
Fetch ==
    /\ run = "fetch" /\ run' = "prepare"
    /\ origin' = main /\ objects' = objects \cup main
    /\ UNCHANGED <<tree, local, github, order, lease, preexisting, cleaners>>

EndRun(row) ==
    /\ run' = "none" /\ preexisting' = FALSE
    /\ order' = row /\ lease' = FALSE

FromDefault == [base |-> origin, own |-> {}]

(* prepare_worktree uses the tree as it stands on the item's branch, moves *)
(* a published one there, or makes one; but not of a branch that exists.   *)
Prepare ==
    /\ run = "prepare"
    /\ IF tree # None
       THEN IF ~tree.linked \/ (tree.branch # "item" /\ (tree.dirty \/ HasUnpublishedTree))
            THEN EndRun("closed") /\ UNCHANGED <<tree, local>>
            ELSE /\ tree' = [tree EXCEPT !.branch = "item"]
                 /\ local' = IF local["item"] = None
                             THEN [local EXCEPT !["item"] = FromDefault] ELSE local
                 /\ preexisting' = (local'["item"].own # {})
                 /\ run' = "work" /\ UNCHANGED <<order, lease>>
       ELSE IF local["item"] # None
            THEN EndRun("closed") /\ UNCHANGED <<tree, local>>
            ELSE /\ local' = [local EXCEPT !["item"] = FromDefault]
                 /\ tree' = [branch |-> "item", dirty |-> FALSE, linked |-> TRUE]
                 /\ run' = "work" /\ UNCHANGED <<order, lease, preexisting>>
    /\ UNCHANGED <<origin, objects, github, cleaners>>

(* The harness edits the tree.                                             *)
Edit ==
    /\ run = "work" /\ tree # None /\ ~tree.dirty
    /\ tree' = [tree EXCEPT !.dirty = TRUE]
    /\ UNCHANGED <<source, github, order, lease, workers, cleaners>>

(* The harness fails, is stopped at a ceiling or by a signal, or cannot go *)
(* on: its edits stay.                                                     *)
HarnessFails ==
    /\ run = "work" /\ EndRun("closed")
    /\ UNCHANGED <<tree, source, github, cleaners>>

(* What the harness left is committed.  With nothing changed, and nothing  *)
(* found in the tree, there is nothing to publish.                         *)
CommitWork ==
    /\ run = "work"
    /\ IF tree = None \/ tree.branch # "item"
       THEN EndRun("closed") /\ UNCHANGED <<tree, local, objects, made>>
       ELSE IF tree.dirty
       THEN /\ NewCommit \in Commit /\ made' = NewCommit
            /\ local' = [local EXCEPT !["item"].own = @ \cup {NewCommit}]
            /\ objects' = objects \cup {NewCommit}
            /\ tree' = [tree EXCEPT !.dirty = FALSE]
            /\ run' = "push" /\ UNCHANGED <<preexisting, order, lease>>
       ELSE /\ IF HasUnpublishedTree \/ preexisting
               THEN run' = "push" /\ UNCHANGED <<preexisting, order, lease>>
               ELSE EndRun("closed")
            /\ UNCHANGED <<tree, local, objects, made>>
    /\ UNCHANGED <<origin, main, remote, pulls, issue, cleaners>>

PushFails == EndRun("closed") /\ UNCHANGED <<remote, pulls>>

HasBranch == tree # None /\ local["item"] # None

(* The branch that has advanced is fetched and merged.                     *)
MergeForward ==
    /\ objects' = objects \cup Content(remote)
    /\ local' = [local EXCEPT !["item"] = Merged(local["item"], remote)]

(* publish_branch pushes, or, where the branch has advanced, merges it and *)
(* pushes again.  Nothing published is rewritten.  A merge that conflicts  *)
(* is aborted; one whose push is refused stays.                            *)
PushBranch ==
    /\ run = "push"
    /\ \/ PushFails /\ UNCHANGED <<local, objects>>
       \/ /\ PushFails /\ HasBranch /\ remote # None
          /\ \/ MergeForward
             \/ objects' = objects \cup Content(remote) /\ UNCHANGED local
       \/ /\ HasBranch
          /\ IF remote = None \/ Ancestor(remote, local["item"])
             THEN UNCHANGED <<local, objects>> ELSE MergeForward
          /\ remote' = local'["item"] /\ pulls' = Follow(pulls, remote')
          /\ run' = "pull" /\ UNCHANGED <<preexisting, order, lease>>
    /\ UNCHANGED <<tree, origin, made, main, issue, cleaners>>

CreatePullRequest ==
    /\ run = "pull" /\ EndRun("closed")
    /\ \/ UNCHANGED pulls
       \/ /\ ~OpenPull /\ remote # None /\ Len(pulls) < MaxPulls
          /\ pulls' = Append(pulls, [state |-> "OPEN", head |-> remote])
    /\ UNCHANGED <<tree, source, made, main, remote, issue, cleaners>>

(* A run is killed, perhaps while git adds the tree; its lease stays, until *)
(* it has lapsed and the reaper of stale orders gives its order a row.     *)
RunIsKilled ==
    /\ run # "none" /\ run' = "none" /\ preexisting' = FALSE
    /\ \/ UNCHANGED <<tree, local>>
       \/ /\ run = "prepare" /\ tree = None /\ local["item"] = None
          /\ local' = [local EXCEPT !["item"] = FromDefault]
          /\ tree' = [branch |-> "item", dirty |-> FALSE, linked |-> FALSE]
    /\ UNCHANGED <<origin, objects, github, order, lease, cleaners>>

LeaseLapses ==
    /\ lease /\ run = "none"
    /\ lease' = FALSE /\ order' = "closed"
    /\ UNCHANGED <<tree, source, github, workers, cleaners>>
--------------------------------------------------------------------------------
(* preflight_worktree keeps unpublished work on another branch.            *)
Begin ==
    /\ order = "open" /\ dispatch.pc = "idle"
    /\ IF tree # None /\ tree.linked /\ tree.branch # "item" /\ (tree.dirty \/ HasUnpublishedTree)
       THEN order' = "closed" /\ UNCHANGED dispatch
       ELSE dispatch' = [dispatch EXCEPT !.pc = "list"] /\ UNCHANGED order
    /\ UNCHANGED <<tree, source, github, lease, workers, reap, sweep>>

Refuse == dispatch' = Idle /\ order' = "closed"

(* reject_unlanded_branch: a branch on GitHub stands for work in flight,   *)
(* unless every pull request from it is merged.                            *)
ListBranches ==
    /\ dispatch.pc = "list"
    /\ IF remote = None THEN dispatch' = [dispatch EXCEPT !.pc = "refs"] /\ UNCHANGED order
       ELSE IF pulls # <<>> /\ \A i \in DOMAIN pulls : pulls[i].state = "MERGED"
       THEN dispatch' = [dispatch EXCEPT !.pc = "delete"] /\ UNCHANGED order
       ELSE Refuse
    /\ UNCHANGED <<tree, source, github, lease, workers, reap, sweep>>

(* The merged branch is deleted, whatever commit it is at by now.          *)
DeleteBranch ==
    /\ dispatch.pc = "delete"
    /\ \/ remote' = None /\ dispatch' = [dispatch EXCEPT !.pc = "refs"] /\ UNCHANGED order
       \/ Refuse /\ UNCHANGED remote
    /\ UNCHANGED <<tree, source, made, main, pulls, issue, lease, workers, reap, sweep>>

NewestOf(states) ==
    LET resolved == {i \in DOMAIN pulls : pulls[i].state \in states}
    IN IF resolved = {} THEN None
       ELSE pulls[CHOOSE i \in resolved : \A j \in resolved : j <= i].head

(* reject_closing_pull_requests: an open one refuses the dispatch, and of  *)
(* the merged ones the newest says what GitHub has seen of the branch.     *)
ReadReferences ==
    /\ dispatch.pc = "refs"
    /\ LET tip == NewestOf({"MERGED"})
       IN IF OpenPull THEN Refuse
          ELSE /\ dispatch' = [dispatch EXCEPT !.pc = IF tip = None THEN "launch" ELSE "lease",
                                               !.tip = tip]
               /\ UNCHANGED order
    /\ UNCHANGED <<tree, source, github, lease, workers, reap, sweep>>

(* reclaim_merged_worktree looks at the lease, and at the tree.            *)
LookForDispatch ==
    /\ dispatch.pc = "lease"
    /\ IF lease \/ (tree # None /\ ~Clean) THEN Refuse
       ELSE /\ dispatch' = [dispatch EXCEPT !.pc = "verify",
                                            !.branches = {"item"} \cup IF tree = None THEN {} ELSE {tree.branch}]
            /\ UNCHANGED order
    /\ UNCHANGED <<tree, source, github, lease, workers, reap, sweep>>

(* Mutant: the lease is not looked at.                                     *)
LookAnyLease ==
    /\ reap.pc = "idle" /\ tree # None
    /\ Clean /\ order # "none"
    /\ reap' = [reap EXCEPT !.pc = "refs", !.branches = {tree.branch}]
    /\ UNCHANGED <<tree, source, github, order, lease, workers, dispatch, sweep>>

(* inspect_worktree: no lease in force, a clean tree, and a work order.    *)
Look ==
    /\ reap.pc = "idle" /\ tree # None
    /\ ~lease /\ Clean /\ order # "none"
    /\ reap' = [reap EXCEPT !.pc = "refs", !.branches = {tree.branch}]
    /\ UNCHANGED <<tree, source, github, order, lease, workers, dispatch, sweep>>

(* resolution_state reads the branch first, and then the pull requests.    *)
ReadBranch ==
    /\ reap.pc = "refs"
    /\ reap' = IF "item" \in reap.branches /\ remote # None THEN Idle ELSE [reap EXCEPT !.pc = "read"]
    /\ UNCHANGED <<tree, source, github, order, lease, workers, dispatch, sweep>>

ReadResolution ==
    /\ reap.pc = "read"
    /\ LET tip == IF "item" \in reap.branches THEN NewestOf({"MERGED", "CLOSED"}) ELSE NewestOf({"MERGED"})
       IN reap' = IF OpenPull \/ (tip = None /\ issue = "OPEN") THEN Idle
                  ELSE [reap EXCEPT !.pc = "verify", !.tip = tip]
    /\ UNCHANGED <<tree, source, github, order, lease, workers, dispatch, sweep>>
--------------------------------------------------------------------------------
(* Mutant: a clean tree is taken to be a published one.                    *)
PublishedAnyway(branches, tip) == tip # None

(* branch_tip_is_published: GitHub has seen every commit of the branches.  *)
Published(branches, tip) ==
    /\ tip # None /\ tip.own \subseteq objects
    /\ \A b \in branches : local[b] # None => Ancestor(local[b], tip)

(* reclaim_worktree, for the dispatch or for the reaper: verified, the     *)
(* tree is removed, unless it has changed, and then its branches, unless   *)
(* one is checked out.                                                     *)
Verified(j) ==
    IF (tree # None /\ ~Clean) \/ ~Published(j.branches, j.tip) THEN Idle
    ELSE [j EXCEPT !.pc = "remove"]
Verify ==
    \/ /\ dispatch.pc = "verify" /\ dispatch' = Verified(dispatch)
       /\ order' = IF dispatch' = Idle THEN "closed" ELSE order
       /\ UNCHANGED <<tree, source, github, lease, workers, reap, sweep>>
    \/ /\ reap.pc = "verify" /\ reap' = Verified(reap)
       /\ UNCHANGED <<tree, source, github, order, lease, workers, dispatch, sweep>>

Removes == tree # None => Clean
Remove ==
    /\ \/ /\ dispatch.pc = "remove" /\ UNCHANGED reap
          /\ IF Removes THEN dispatch' = [dispatch EXCEPT !.pc = "drop"] /\ UNCHANGED order ELSE Refuse
       \/ /\ reap.pc = "remove" /\ UNCHANGED <<dispatch, order>>
          /\ reap' = IF Removes THEN [reap EXCEPT !.pc = "drop"] ELSE Idle
    /\ tree' = IF Removes THEN None ELSE tree
    /\ UNCHANGED <<source, github, lease, workers, sweep>>

Dropped(branches) ==
    [b \in Branch |-> IF b \in branches /\ ~(tree # None /\ tree.branch = b) THEN None ELSE local[b]]
DropBranches ==
    /\ \/ /\ dispatch.pc = "drop" /\ UNCHANGED reap
          /\ local' = Dropped(dispatch.branches)
          /\ IF tree = None THEN dispatch' = [Idle EXCEPT !.pc = "launch"] /\ UNCHANGED order ELSE Refuse
       \/ /\ reap.pc = "drop" /\ UNCHANGED <<dispatch, order>>
          /\ local' = Dropped(reap.branches)
          /\ reap' = Idle
    /\ UNCHANGED <<tree, origin, objects, github, lease, workers, sweep>>

(* The run is launched, unless one is at work or an earlier order has no   *)
(* terminal row.                                                           *)
Launch ==
    /\ dispatch.pc = "launch" /\ dispatch' = Idle
    /\ (Apart => reap.pc = "idle") /\ (Quick => sweep = "idle")
    /\ IF lease \/ order # "open" THEN UNCHANGED <<lease, run>>
       ELSE lease' = TRUE /\ run' = "fetch"
    /\ UNCHANGED <<tree, source, github, order, preexisting, reap, sweep>>

(* A dispatch or a reaper is killed.                                       *)
CleanerIsKilled ==
    /\ \/ dispatch.pc # "idle" /\ dispatch' = Idle /\ UNCHANGED reap
       \/ reap.pc # "idle" /\ reap' = Idle /\ UNCHANGED dispatch
    /\ UNCHANGED <<tree, source, github, order, lease, workers, sweep>>

(* sweep_worktrees reads the orders once; a tree that git does not know is *)
(* removed at once, and one whose order closed long ago with --force.      *)
SweepReads ==
    /\ sweep = "idle" /\ tree # None /\ sweep' = order
    /\ UNCHANGED <<tree, source, github, order, lease, workers, dispatch, reap>>

SweepVisits ==
    /\ sweep # "idle" /\ sweep' = "idle"
    /\ tree' = IF tree # None /\ (~tree.linked \/ sweep = "expired") THEN None ELSE tree
    /\ UNCHANGED <<source, github, order, lease, workers, dispatch, reap>>

(* The retention is days: no dispatch lasts as long.                       *)
Expire ==
    /\ order = "closed" /\ ~lease /\ dispatch.pc = "idle" /\ order' = "expired"
    /\ UNCHANGED <<tree, source, github, lease, workers, cleaners>>
--------------------------------------------------------------------------------
(* People: a pull request is merged, closed or reopened, a branch without  *)
(* an open one deleted or pushed to, the item closed or opened again.      *)
GitHub ==
    /\ \/ \E i \in DOMAIN pulls :
             \/ /\ pulls[i].state = "OPEN" /\ issue' = "CLOSED"
                /\ pulls' = [pulls EXCEPT ![i].state = "MERGED"]
                /\ main' = main \cup Content(pulls[i].head)
                /\ UNCHANGED <<made, remote>>
             \/ /\ pulls[i].state = "OPEN" /\ UNCHANGED <<made, main, issue, remote>>
                /\ pulls' = [pulls EXCEPT ![i].state = "CLOSED"]
       \/ /\ ~OpenPull /\ remote # None
          /\ pulls # <<>> /\ Ancestor(remote, pulls[Len(pulls)].head)
          /\ remote' = None /\ UNCHANGED <<made, main, pulls, issue>>
       \/ /\ issue' = IF issue = "OPEN" THEN "CLOSED" ELSE "OPEN"
          /\ UNCHANGED <<made, main, remote, pulls>>
       \/ /\ remote # None /\ (OpenPull \/ LatePush) /\ NewCommit \in Commit
          /\ made' = NewCommit
          /\ remote' = [remote EXCEPT !.own = @ \cup {NewCommit}]
          /\ pulls' = Follow(pulls, remote') /\ UNCHANGED <<main, issue>>
    /\ UNCHANGED <<tree, source, order, lease, workers, cleaners>>

(* In the tree, with no run at work there: a branch of their own.          *)
Switch ==
    /\ Switches /\ run = "none" /\ tree # None /\ Clean /\ tree.branch = "item"
    /\ local["other"] = None /\ local' = [local EXCEPT !["other"] = Checked]
    /\ tree' = [tree EXCEPT !.branch = "other"]
    /\ UNCHANGED <<origin, objects, github, order, lease, workers, cleaners>>

Next ==
    \/ CreateOrder \/ Begin \/ ListBranches \/ DeleteBranch \/ ReadReferences
    \/ LookForDispatch \/ Launch
    \/ Fetch \/ Prepare \/ Edit \/ HarnessFails \/ CommitWork \/ PushBranch
    \/ CreatePullRequest \/ RunIsKilled \/ LeaseLapses
    \/ Look \/ ReadBranch \/ ReadResolution \/ Verify \/ Remove \/ DropBranches \/ CleanerIsKilled
    \/ SweepReads \/ SweepVisits \/ Expire
    \/ GitHub \/ Switch

Spec == Init /\ [][Next]_vars
--------------------------------------------------------------------------------
(* Every variable has its type.                                            *)
TypeOK ==
    /\ tree \in Tree \cup {None} /\ local \in [Branch -> History \cup {None}]
    /\ {origin, objects, main} \subseteq SUBSET Commit
    /\ made \in 0 .. MaxWork
    /\ remote \in History \cup {None} /\ pulls \in Seq(Pull) /\ issue \in {"OPEN", "CLOSED"}
    /\ order \in {"none", "open", "closed", "expired"} /\ lease \in BOOLEAN
    /\ run \in {"none", "fetch", "prepare", "work", "push", "pull"}
    /\ preexisting \in BOOLEAN
    /\ dispatch \in Cleaner /\ reap \in Cleaner
    /\ sweep \in {"idle", "none", "open", "closed", "expired"}

(* A commit that was ever made is still somewhere: on a branch here, or on *)
(* GitHub on the branch, in a pull request, or on the default branch.      *)
WorkIsKept ==
    1 .. made \subseteq
        main \cup (UNION {Content(pulls[i].head) : i \in DOMAIN pulls})
             \cup (IF remote = None THEN {} ELSE Content(remote))
             \cup (UNION {Content(local[b]) : b \in {c \in Branch : local[c] # None}})

(* The tree a run works in is not removed, and what a stopped run left     *)
(* there without committing is removed only after the retention            *)
(* (dispatch.rs:1797-1802, docs/implementer-binary-cutover.md:69-71).      *)
TreeIsKept ==
    [][tree # None /\ tree' = None => run \in {"none", "fetch", "prepare"} /\ (tree.dirty => "expired" \in {order, sweep})]_vars

(* A run is not refused for a branch that an earlier run of the item left. *)
RetryReuses == run = "prepare" => ~(tree = None /\ local["item"] # None)
================================================================================
