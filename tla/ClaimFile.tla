------------------------------- MODULE ClaimFile -------------------------------
(***************************************************************************)
(* The exclusive claim file of crates/ostrom-store/src/claim.rs, at the    *)
(* granularity of its system calls: create_new, write, read, rename,       *)
(* hard_link and unlink.  Several processes, any of which may be killed    *)
(* between two calls, contend for one path.  A claim is an inode; renaming *)
(* moves the name, an open descriptor keeps writing to the inode.          *)
(*                                                                         *)
(* The lease mutation guard (lease.rs) and the stall reaper's claim on a   *)
(* run (stalls.rs) are both this file.                                     *)
(***************************************************************************)
EXTENDS Integers, Sequences, FiniteSets

CONSTANTS
    Proc,          \* the processes that contend for the claim
    Ghost,         \* a process that died before they started
    NoOne,         \* the pid an empty or half-written claim names
    Payload,       \* what a claim can record besides its holder
    NoPayload,     \* the record of an empty claim
    Leftover,      \* what the ghost left: "none", "claim" or "empty"
    WritesFail,    \* whether a write may fail (a full disk)
    MaxInodes      \* bound: how many claim files the behaviour creates

ASSUME ClaimAssumption ==
    /\ Ghost \notin Proc /\ NoOne \notin Proc \cup {Ghost}
    /\ NoPayload \notin Payload
    /\ Leftover \in {"none", "claim", "empty"}
    /\ WritesFail \in BOOLEAN
    /\ MaxInodes \in Nat

VARIABLES
    inodes,    \* the contents of every claim file ever created, by number
    path,      \* the inode the claim's path names, 0 when there is no file
    pc,        \* where each process is in claim.rs
    mine,      \* the inode a process created and holds open, 0 for none
    stale,     \* ClaimFile: the contents a process read and judged dead
    aside,     \* the inode a process moved to its own `.stale` name
    payload,   \* what the process asks to record
    alive,     \* processes not yet killed
    old,       \* inodes last written longer ago than UNVERIFIED_HOLDER_GRACE
    displaced  \* history: a claim of a live process was moved aside

vars == <<inodes, path, pc, mine, stale, aside, payload, alive, old, displaced>>
--------------------------------------------------------------------------------
(* Contents.  The bytes of a claim are its holder and its payload; an      *)
(* inode created but not yet written is empty.                             *)

Content == [pid : Proc \cup {Ghost, NoOne}, payload : Payload \cup {NoPayload}]

Empty == [pid |-> NoOne, payload |-> NoPayload]

(* A claim's holder is Dead when its process is gone, and when it names no *)
(* process and has been so for longer than the grace.                      *)
HolderDead(i) ==
    \/ inodes[i].pid \in (Proc \cup {Ghost}) \ alive
    \/ inodes[i] = Empty /\ i \in old

Owned(p) == path # 0 /\ inodes[path] = inodes[mine[p]]

Running(p, label) == p \in alive /\ pc[p] = label

Goto(p, label) == pc' = [pc EXCEPT ![p] = label]

Init ==
    /\ \/ Leftover = "none" /\ inodes = <<>>
       \/ Leftover = "empty" /\ inodes = <<Empty>>
       \/ Leftover = "claim" /\ \E q \in Payload : inodes = <<[pid |-> Ghost, payload |-> q]>>
    /\ path = Len(inodes)
    /\ pc = [p \in Proc |-> "idle"]
    /\ mine = [p \in Proc |-> 0]
    /\ stale = [p \in Proc |-> Empty]
    /\ aside = [p \in Proc |-> 0]
    /\ payload \in [Proc -> Payload]
    /\ alive = Proc
    /\ old = 1 .. Len(inodes)
    /\ displaced = FALSE
--------------------------------------------------------------------------------
(* create: open with create_new.  Of every process that tries, one wins.   *)

(* Mutant: open with create, which succeeds on an existing file.           *)
CreateAny(p) ==
    /\ Len(inodes) < MaxInodes
    /\ inodes' = Append(inodes, Empty)
    /\ path' = Len(inodes')
    /\ mine' = [mine EXCEPT ![p] = Len(inodes')]
    /\ UNCHANGED <<stale, aside, alive, old, displaced>>

CreateNew(p) ==
    /\ path = 0
    /\ Len(inodes) < MaxInodes
    /\ inodes' = Append(inodes, Empty)
    /\ path' = Len(inodes')
    /\ mine' = [mine EXCEPT ![p] = Len(inodes')]
    /\ UNCHANGED <<stale, aside, alive, old, displaced>>

AlreadyExists(p) ==
    /\ path # 0
    /\ UNCHANGED <<inodes, path, mine, stale, aside, alive, old, displaced>>

(* create_or_take_over, first attempt: AlreadyExists goes on to read.      *)
Create(p, q) ==
    /\ Running(p, "idle")
    /\ payload' = [payload EXCEPT ![p] = q]
    /\ \/ CreateNew(p) /\ Goto(p, "write")
       \/ AlreadyExists(p) /\ Goto(p, "read")

(* The second attempt, after a release seen between the two calls or after *)
(* the stale claim was moved away, is refused when the path is taken.      *)
CreateAgain(p) ==
    /\ Running(p, "create")
    /\ UNCHANGED payload
    /\ \/ CreateNew(p) /\ Goto(p, "write")
       \/ AlreadyExists(p) /\ Goto(p, "idle")

(* write_all on the open descriptor, wherever its name is by now.          *)
Write(p) ==
    /\ Running(p, "write")
    /\ inodes' = [inodes EXCEPT ![mine[p]] = [pid |-> p, payload |-> payload[p]]]
    /\ Goto(p, "holding")
    /\ UNCHANGED <<path, mine, stale, aside, payload, alive, old, displaced>>

(* A failed write removes whatever the path names.                         *)
WriteFails(p) ==
    /\ WritesFail
    /\ Running(p, "write")
    /\ path' = 0
    /\ mine' = [mine EXCEPT ![p] = 0]
    /\ Goto(p, "idle")
    /\ UNCHANGED <<inodes, stale, aside, payload, alive, old, displaced>>

(* read and judge: no file, one more create; a dead holder, take over;     *)
(* alive or unknown, refused.  /proc may be unreadable: then unknown.      *)
ReadClaim(p) ==
    /\ Running(p, "read")
    /\ \/ path = 0 /\ Goto(p, "create") /\ UNCHANGED stale
       \/ /\ path # 0 /\ HolderDead(path)
          /\ Goto(p, "rename")
          /\ stale' = [stale EXCEPT ![p] = inodes[path]]
       \/ path # 0 /\ Goto(p, "idle") /\ UNCHANGED stale
    /\ UNCHANGED <<inodes, path, mine, aside, payload, alive, old, displaced>>

(* Mutant: what was moved aside is never compared.                         *)
RenameUncompared(p) ==
    /\ Running(p, "rename")
    /\ \/ path = 0 /\ Goto(p, "idle") /\ UNCHANGED <<path, aside, displaced>>
       \/ /\ path # 0
          /\ aside' = [aside EXCEPT ![p] = path]
          /\ path' = 0
          /\ displaced' = (displaced \/ \E q \in alive : mine[q] = path)
          /\ Goto(p, "create")
    /\ UNCHANGED <<inodes, mine, stale, payload, alive, old>>

(* take_over: rename the path aside, whatever it names by now.             *)
Rename(p) ==
    /\ Running(p, "rename")
    /\ \/ path = 0 /\ Goto(p, "idle") /\ UNCHANGED <<path, aside, displaced>>
       \/ /\ path # 0
          /\ aside' = [aside EXCEPT ![p] = path]
          /\ path' = 0
          /\ displaced' = (displaced \/ \E q \in alive : mine[q] = path)
          /\ Goto(p, "compare")
    /\ UNCHANGED <<inodes, mine, stale, payload, alive, old>>

(* Mutant: the stale record keeps its holder's pid.                        *)
MatchesWithPid(p) ==
    /\ Running(p, "compare")
    /\ inodes[aside[p]] = stale[p]
    /\ aside' = [aside EXCEPT ![p] = 0]
    /\ payload' = [payload EXCEPT ![p] = stale[p]]
    /\ Goto(p, "create")
    /\ UNCHANGED <<inodes, path, mine, stale, alive, old, displaced>>

(* The moved bytes are the stale ones: drop them and create, keeping the   *)
(* stale payload, which is none when the stale claim was empty.            *)
Matches(p) ==
    /\ Running(p, "compare")
    /\ inodes[aside[p]] = stale[p]
    /\ aside' = [aside EXCEPT ![p] = 0]
    /\ payload' = [payload EXCEPT ![p] = stale[p].payload]
    /\ Goto(p, "create")
    /\ UNCHANGED <<inodes, path, mine, stale, alive, old, displaced>>

(* A racing process replaced the claim: hard_link it back if the path is   *)
(* still free, and unlink the aside name.                                  *)
LinkBack(p) ==
    /\ Running(p, "compare")
    /\ inodes[aside[p]] # stale[p]
    /\ path' = IF path = 0 THEN aside[p] ELSE path
    /\ Goto(p, "unlink")
    /\ UNCHANGED <<inodes, mine, stale, aside, payload, alive, old, displaced>>

UnlinkAside(p) ==
    /\ Running(p, "unlink")
    /\ aside' = [aside EXCEPT ![p] = 0]
    /\ Goto(p, "idle")
    /\ UNCHANGED <<inodes, path, mine, stale, payload, alive, old, displaced>>

(* Claim::remove: read, and unlink only while the bytes are still ours.    *)
CheckOwned(p) ==
    /\ Running(p, "holding")
    /\ \/ Owned(p) /\ Goto(p, "remove") /\ UNCHANGED mine
       \/ ~Owned(p) /\ Goto(p, "idle") /\ mine' = [mine EXCEPT ![p] = 0]
    /\ UNCHANGED <<inodes, path, stale, aside, payload, alive, old, displaced>>

Remove(p) ==
    /\ Running(p, "remove")
    /\ path' = 0
    /\ mine' = [mine EXCEPT ![p] = 0]
    /\ Goto(p, "idle")
    /\ UNCHANGED <<inodes, stale, aside, payload, alive, old, displaced>>

(* Claim::set: write a new record beside the claim and rename it over the  *)
(* path, refused when the claim is no longer this process's.               *)
CheckSet(p) ==
    /\ Running(p, "holding")
    /\ Owned(p)
    /\ Goto(p, "set")
    /\ UNCHANGED <<inodes, path, mine, stale, aside, payload, alive, old, displaced>>

SetRecord(p, q) ==
    /\ Running(p, "set")
    /\ q # payload[p]
    /\ Len(inodes) < MaxInodes
    /\ inodes' = Append(inodes, [pid |-> p, payload |-> q])
    /\ path' = Len(inodes')
    /\ mine' = [mine EXCEPT ![p] = Len(inodes')]
    /\ payload' = [payload EXCEPT ![p] = q]
    /\ Goto(p, "holding")
    /\ UNCHANGED <<stale, aside, alive, old, displaced>>

(* The process is killed.  Its files stay.                                 *)
Kill(p) ==
    /\ p \in alive
    /\ alive' = alive \ {p}
    /\ UNCHANGED <<inodes, path, pc, mine, stale, aside, payload, old, displaced>>

(* The grace passes over a file.  A live creator writes within it.         *)
GrowOld(i) ==
    /\ i \in DOMAIN inodes \ old
    /\ inodes[i] = Empty
    /\ ~ \E p \in Proc : Running(p, "write") /\ mine[p] = i
    /\ old' = old \cup {i}
    /\ UNCHANGED <<inodes, path, pc, mine, stale, aside, payload, alive, displaced>>

Step(p) ==
    \/ \E q \in Payload : Create(p, q) \/ SetRecord(p, q)
    \/ CreateAgain(p) \/ Write(p) \/ WriteFails(p) \/ ReadClaim(p)
    \/ Rename(p) \/ Matches(p) \/ LinkBack(p) \/ UnlinkAside(p)
    \/ CheckOwned(p) \/ Remove(p) \/ CheckSet(p)

Next ==
    \/ \E p \in Proc : Step(p) \/ Kill(p)
    \/ \E i \in 1 .. MaxInodes : GrowOld(i)

Spec == Init /\ [][Next]_vars
--------------------------------------------------------------------------------
Holds(p) == p \in alive /\ pc[p] \in {"holding", "remove", "set"}

Label == {"idle", "create", "write", "read", "rename", "compare", "unlink",
          "holding", "remove", "set"}

(* Every variable has its type: the path, the processes' descriptors and   *)
(* their aside names all name inodes that exist.                           *)
TypeOK ==
    /\ inodes \in Seq(Content)
    /\ path \in 0 .. Len(inodes)
    /\ pc \in [Proc -> Label]
    /\ mine \in [Proc -> 0 .. Len(inodes)]
    /\ stale \in [Proc -> Content]
    /\ aside \in [Proc -> 0 .. Len(inodes)]
    /\ payload \in [Proc -> Payload \cup {NoPayload}]
    /\ alive \in SUBSET Proc
    /\ old \in SUBSET (1 .. Len(inodes))
    /\ displaced \in BOOLEAN

(* "Exactly one process at a time act[s] on something shared" (claim.rs    *)
(* module doc): two live processes never hold the claim together.          *)
Exclusive == \A p, q \in Proc : Holds(p) /\ Holds(q) => p = q

(* The claim file implements the exclusion its users rely on: a process enters *)
(* only when no live process is inside.                                    *)
Promised == INSTANCE Exclusion WITH holders <- {p \in Proc : Holds(p)}

ImplementsExclusion == Promised!Spec

(* A holder's claim is on disk under the path, or under the aside name of  *)
(* a take-over that is putting it back: nobody unlinks a live holder's     *)
(* claim (Claim::remove and take_over check the bytes first).              *)
HeldClaimOnDisk ==
    \A p \in Proc : Holds(p) => path = mine[p] \/ \E q \in Proc : aside[q] = mine[p]

(* The window the module doc admits: two processes hold the claim at once  *)
(* only after a take-over moved a live process's claim aside.              *)
DoubleHoldNeedsDisplacement ==
    displaced \/ Exclusive

(* A complete claim naming a live process is that process's: it holds it,  *)
(* is releasing it or is about to.  claim.rs:15-19 says a fresh claim      *)
(* moved aside is linked back and that only a third contender can make a   *)
(* difference.                                                             *)
LiveClaimIsHeld ==
    path # 0 /\ inodes[path].pid \in alive => mine[inodes[path].pid] = path

(* "A take-over keeps the stale claim's payload, so what its holder        *)
(* decided is carried out rather than decided again" (claim.rs:272-273):   *)
(* the first process to hold the claim after the ghost holds the ghost's   *)
(* payload.                                                                *)
FirstHolderKeepsDecision ==
    \A p \in Proc : Holds(p) /\ mine[p] = 2 => inodes[2].payload = inodes[1].payload
================================================================================
