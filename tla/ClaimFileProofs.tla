---------------------------- MODULE ClaimFileProofs ----------------------------
(***************************************************************************)
(* Proofs about ClaimFile.  For every number of contenders, what a ghost   *)
(* left and writes that fail: two processes hold the claim together only   *)
(* after a take-over moved a live process's claim aside.  And for two      *)
(* contenders, where no write fails and no empty claim was left: they      *)
(* never do, although claims are moved aside and put back, which is what   *)
(* claim.rs says of its window (claim.rs:15-19).                           *)
(*                                                                         *)
(* And about the workers that one `ostrom up` after another launches       *)
(* (LoopSupervisor): for any number of loops, workers and invocations, two *)
(* workers of a loop never work together, and a slot gets one worker.      *)
(***************************************************************************)
EXTENDS MCContest, SequenceTheorems, TLAPS

Creating == {"write", "holding", "remove", "set"}

(* A process has its inode open from its creation to its release, and no   *)
(* two have the same one open.                                             *)
OwnInode ==
    /\ \A p \in Proc : pc[p] \in Creating <=> mine[p] # 0
    /\ \A p, q \in Proc : mine[p] # 0 /\ mine[p] = mine[q] => p = q

(* While nothing of a live process was moved aside, its claim is in place. *)
InPlace == displaced \/ \A p \in alive : mine[p] # 0 => path = mine[p]

IInv == TypeOK /\ OwnInode /\ InPlace

USE ClaimAssumption
--------------------------------------------------------------------------------
(* A claim that a process creates is a new inode, and its own.             *)
LEMMA Created ==
  ASSUME TypeOK, NEW p \in Proc, NEW c \in Content,
         inodes' = Append(inodes, c), path' = Len(inodes'),
         mine' = [mine EXCEPT ![p] = Len(inodes')]
  PROVE  /\ inodes' \in Seq(Content) /\ Len(inodes') = Len(inodes) + 1
         /\ \A i \in 1 .. Len(inodes) : inodes'[i] = inodes[i]
         /\ inodes'[Len(inodes')] = c
         /\ path' \in 0 .. Len(inodes') /\ path' # 0
         /\ mine' \in [Proc -> 0 .. Len(inodes')] /\ mine'[p] = path'
         /\ \A q \in Proc \ {p} : mine'[q] = mine[q] /\ mine'[q] # path'
         /\ aside \in [Proc -> 0 .. Len(inodes')]
         /\ old \subseteq 1 .. Len(inodes') /\ path' \notin old
BY DEF TypeOK

(* An empty file has a content.                                            *)
LEMMA EmptyTyped == Empty \in Content
BY DEF Empty, Content

(* A step that creates no inode keeps the types when what it changes has   *)
(* its type.                                                               *)
LEMMA SameInodes ==
  ASSUME TypeOK, UNCHANGED inodes,
         path' \in 0 .. Len(inodes), pc' \in [Proc -> Label],
         mine' \in [Proc -> 0 .. Len(inodes)], stale' \in [Proc -> Content],
         aside' \in [Proc -> 0 .. Len(inodes)],
         payload' \in [Proc -> Payload \cup {NoPayload}],
         alive' \subseteq Proc, old' \subseteq 1 .. Len(inodes), displaced' \in BOOLEAN
  PROVE  TypeOK'
BY DEF TypeOK

(* Where processes are keeps its type.                                     *)
LEMMA Goes ==
  ASSUME TypeOK, NEW p \in Proc, NEW l \in Label, Goto(p, l)
  PROVE  pc' \in [Proc -> Label]
BY DEF TypeOK, Goto

(* Every variable keeps its type (TypeOK), from every action.              *)
LEMMA TypeStep == TypeOK /\ OwnInode /\ [Next]_vars => TypeOK'
<1> SUFFICES ASSUME TypeOK, OwnInode, [Next]_vars PROVE TypeOK'
  OBVIOUS
<1> {"idle", "create", "write", "read", "rename", "compare", "unlink",
     "holding", "remove", "set"} \subseteq Label
  BY DEF Label
<1>0. /\ Len(inodes) \in Nat /\ path \in 0 .. Len(inodes) /\ pc \in [Proc -> Label]
      /\ mine \in [Proc -> 0 .. Len(inodes)] /\ aside \in [Proc -> 0 .. Len(inodes)]
      /\ stale \in [Proc -> Content] /\ payload \in [Proc -> Payload \cup {NoPayload}]
      /\ alive \subseteq Proc /\ old \subseteq 1 .. Len(inodes) /\ displaced \in BOOLEAN
      /\ \A i \in 1 .. Len(inodes) : inodes[i] \in Content
  BY DEF TypeOK
<1>1. ASSUME NEW p \in Proc, NEW l \in Label, Goto(p, l), CreateNew(p),
             payload' \in [Proc -> Payload \cup {NoPayload}]
      PROVE  TypeOK'
  <2>1. pc' \in [Proc -> Label] BY <1>1, Goes
  <2>2. QED BY <1>0, <1>1, <2>1, EmptyTyped, Created DEF CreateNew, TypeOK
<1>2. ASSUME NEW p \in Proc, NEW l \in Label, Goto(p, l), AlreadyExists(p),
             payload' \in [Proc -> Payload \cup {NoPayload}]
      PROVE  TypeOK'
  <2>1. pc' \in [Proc -> Label] BY <1>2, Goes
  <2>2. QED BY <1>0, <1>2, <2>1, SameInodes DEF AlreadyExists
<1>3. ASSUME NEW p \in Proc, NEW q \in Payload, Create(p, q) PROVE TypeOK'
  <2>1. payload' \in [Proc -> Payload \cup {NoPayload}] BY <1>0, <1>3 DEF Create
  <2>2. QED BY <1>1, <1>2, <1>3, <2>1 DEF Create
<1>4. ASSUME NEW p \in Proc, CreateAgain(p) PROVE TypeOK'
  BY <1>0, <1>1, <1>2, <1>4 DEF CreateAgain
<1>5. ASSUME NEW p \in Proc, NEW q \in Payload, SetRecord(p, q) PROVE TypeOK'
  <2>1. [pid |-> p, payload |-> q] \in Content BY DEF Content
  <2>2. pc' \in [Proc -> Label] BY <1>5, Goes DEF SetRecord
  <2>3. payload' \in [Proc -> Payload \cup {NoPayload}] BY <1>0, <1>5 DEF SetRecord
  <2>4. QED BY <1>0, <1>5, <2>1, <2>2, <2>3, Created DEF SetRecord, TypeOK
<1>6. ASSUME NEW p \in Proc, Write(p) PROVE TypeOK'
  <2>1. [pid |-> p, payload |-> payload[p]] \in Content BY <1>0 DEF Content
  <2>2. inodes' \in Seq(Content) /\ Len(inodes') = Len(inodes)
    <3>1. mine[p] \in 1 .. Len(inodes)
      BY <1>0, <1>6 DEF Write, OwnInode, Creating, Running
    <3>2. QED BY <1>6, <2>1, <3>1, ExceptSeq DEF Write, TypeOK
  <2>3. pc' \in [Proc -> Label] BY <1>6, Goes DEF Write
  <2>4. QED BY <1>0, <1>6, <2>2, <2>3 DEF Write, TypeOK
<1>7. ASSUME NEW p \in Proc, WriteFails(p) \/ Remove(p) PROVE TypeOK'
  <2>1. /\ UNCHANGED <<inodes, stale, aside, payload, alive, old, displaced>> /\ path' = 0
        /\ mine' = [mine EXCEPT ![p] = 0] /\ Goto(p, "idle")
    BY <1>7 DEF WriteFails, Remove
  <2>2. pc' \in [Proc -> Label] BY <2>1, Goes
  <2>3. path' \in 0 .. Len(inodes) /\ mine' \in [Proc -> 0 .. Len(inodes)]
    BY <1>0, <2>1
  <2>4. QED BY <1>0, <2>1, <2>2, <2>3, SameInodes
<1>8. ASSUME NEW p \in Proc, ReadClaim(p) PROVE TypeOK'
  <2>1. pc' \in [Proc -> Label] BY <1>8, Goes DEF ReadClaim
  <2>2. stale' \in [Proc -> Content]
    BY <1>0, <1>8 DEF ReadClaim
  <2>3. QED BY <1>0, <1>8, <2>1, <2>2, SameInodes DEF ReadClaim
<1>9. ASSUME NEW p \in Proc, Rename(p) PROVE TypeOK'
  <2>1. pc' \in [Proc -> Label] BY <1>9, Goes DEF Rename
  <2>2. path' \in 0 .. Len(inodes)
    BY <1>0, <1>9 DEF Rename
  <2>3. aside' \in [Proc -> 0 .. Len(inodes)]
    BY <1>0, <1>9 DEF Rename
  <2>4. displaced' \in BOOLEAN
    BY <1>0, <1>9, Zenon DEF Rename
  <2>5. QED BY <1>0, <1>9, <2>1, <2>2, <2>3, <2>4, SameInodes DEF Rename
<1>10. ASSUME NEW p \in Proc, Matches(p) PROVE TypeOK'
  <2>1. pc' \in [Proc -> Label] BY <1>10, Goes DEF Matches
  <2>2. payload' \in [Proc -> Payload \cup {NoPayload}] /\ aside' \in [Proc -> 0 .. Len(inodes)]
    BY <1>0, <1>10 DEF Matches, Content
  <2>3. QED BY <1>0, <1>10, <2>1, <2>2, SameInodes DEF Matches
<1>11. ASSUME NEW p \in Proc, LinkBack(p) PROVE TypeOK'
  <2>1. pc' \in [Proc -> Label] BY <1>11, Goes DEF LinkBack
  <2>2. path' \in 0 .. Len(inodes) BY <1>0, <1>11 DEF LinkBack
  <2>3. QED BY <1>0, <1>11, <2>1, <2>2, SameInodes DEF LinkBack
<1>12. ASSUME NEW p \in Proc, UnlinkAside(p) PROVE TypeOK'
  <2>1. pc' \in [Proc -> Label] BY <1>12, Goes DEF UnlinkAside
  <2>2. aside' \in [Proc -> 0 .. Len(inodes)] BY <1>0, <1>12 DEF UnlinkAside
  <2>3. QED BY <1>0, <1>12, <2>1, <2>2, SameInodes DEF UnlinkAside
<1>13. ASSUME NEW p \in Proc, CheckOwned(p) PROVE TypeOK'
  <2>1. pc' \in [Proc -> Label] BY <1>13, Goes DEF CheckOwned
  <2>2. mine' \in [Proc -> 0 .. Len(inodes)]
    <3>1. mine' = mine \/ mine' = [mine EXCEPT ![p] = 0] BY <1>13 DEF CheckOwned
    <3>2. CASE mine' = mine BY <1>0, <3>2
    <3>3. CASE mine' = [mine EXCEPT ![p] = 0] BY <1>0, <3>3
    <3>4. QED BY <3>1, <3>2, <3>3
  <2>3. UNCHANGED <<inodes, path, stale, aside, payload, alive, old, displaced>>
    BY <1>13 DEF CheckOwned
  <2>4. QED BY <1>0, <2>1, <2>2, <2>3, SameInodes
<1>14. ASSUME NEW p \in Proc, CheckSet(p) PROVE TypeOK'
  <2>1. pc' \in [Proc -> Label] BY <1>14, Goes DEF CheckSet
  <2>2. QED BY <1>0, <1>14, <2>1, SameInodes DEF CheckSet
<1>15. ASSUME NEW p \in Proc, Kill(p) PROVE TypeOK'
  BY <1>0, <1>15, SameInodes DEF Kill
<1>16. ASSUME NEW i \in 1 .. MaxInodes, GrowOld(i) PROVE TypeOK'
  <2>1. old' \subseteq 1 .. Len(inodes) BY <1>0, <1>16 DEF GrowOld, TypeOK
  <2>2. QED BY <1>0, <1>16, <2>1, SameInodes DEF GrowOld
<1>17. CASE UNCHANGED vars
  BY <1>0, <1>17, SameInodes DEF vars
<1>18. QED
  BY <1>3, <1>4, <1>5, <1>6, <1>7, <1>8, <1>9, <1>10, <1>11, <1>12, <1>13, <1>14, <1>15,
     <1>16, <1>17 DEF Next, Step

(* Whose inode is whose (OwnInode), from every action.                     *)
LEMMA OwnStep == TypeOK /\ OwnInode /\ [Next]_vars => OwnInode'
<1> SUFFICES ASSUME TypeOK, OwnInode, [Next]_vars PROVE OwnInode'
  OBVIOUS
<1> USE EmptyTyped DEF Running, Goto, OwnInode, Creating
<1> pc \in [Proc -> Label] BY DEF TypeOK
<1>1. ASSUME NEW p \in Proc, NEW q \in Payload, Create(p, q) PROVE OwnInode'
  <2>1. CASE CreateNew(p)
    <3>1. Goto(p, "write") /\ pc[p] \notin Creating BY <1>1, <2>1
       DEF Create, CreateNew, AlreadyExists
    <3>2. QED BY ZenonT(60), <2>1, <3>1, Created DEF CreateNew
  <2>2. CASE ~CreateNew(p)
    BY <1>1, <2>2 DEF Create, AlreadyExists
  <2>3. QED BY <2>1, <2>2
<1>2. ASSUME NEW p \in Proc, NEW q \in Payload, SetRecord(p, q) PROVE OwnInode'
  <2>1. [pid |-> p, payload |-> q] \in Content BY DEF Content
  <2>2. QED BY ZenonT(60), <1>2, <2>1, Created DEF SetRecord
<1>3. ASSUME NEW p \in Proc, CreateAgain(p) PROVE OwnInode'
  <2>1. CASE CreateNew(p)
    <3>1. Goto(p, "write") /\ pc[p] \notin Creating BY <1>3, <2>1 DEF CreateAgain, CreateNew,
       AlreadyExists
    <3>2. QED BY ZenonT(60), <2>1, <3>1, Created DEF CreateNew
  <2>2. CASE ~CreateNew(p)
    BY <1>3, <2>2 DEF CreateAgain, AlreadyExists
  <2>3. QED BY <2>1, <2>2
<1>4. ASSUME NEW p \in Proc, Write(p) \/ WriteFails(p) \/ Remove(p) PROVE OwnInode'
  BY <1>4 DEF Write, WriteFails, Remove, TypeOK
<1>5. ASSUME NEW p \in Proc, ReadClaim(p) \/ Rename(p) PROVE OwnInode'
  BY <1>5 DEF ReadClaim, Rename
<1>6. ASSUME NEW p \in Proc, Matches(p) \/ LinkBack(p) \/ UnlinkAside(p) PROVE OwnInode'
  BY <1>6 DEF Matches, LinkBack, UnlinkAside
<1>7. ASSUME NEW p \in Proc, CheckOwned(p) \/ CheckSet(p) PROVE OwnInode'
  BY <1>7 DEF CheckOwned, CheckSet, TypeOK
<1>8. CASE (\E p \in Proc : Kill(p)) \/ (\E i \in 1 .. MaxInodes : GrowOld(i)) \/ UNCHANGED vars
  BY <1>8 DEF Kill, GrowOld, vars
<1>9. QED
  BY <1>1, <1>2, <1>3, <1>4, <1>5, <1>6, <1>7, <1>8 DEF Next, Step

(* A claim of a live process stays in place (InPlace) until one is moved   *)
(* aside: whoever creates finds no file, and whoever removes has its own.  *)
LEMMA PlaceStep == TypeOK /\ OwnInode /\ InPlace /\ [Next]_vars => InPlace'
<1> SUFFICES ASSUME TypeOK, OwnInode, InPlace, [Next]_vars, ~displaced'
             PROVE  InPlace'
  BY DEF InPlace
<1> USE EmptyTyped DEF Running, InPlace
<1>1. ASSUME NEW p \in Proc, CreateNew(p), p \in alive PROVE InPlace'
  BY <1>1, Created DEF CreateNew, TypeOK
<1>2. ASSUME NEW p \in Proc, AlreadyExists(p) PROVE InPlace'
  BY <1>2 DEF AlreadyExists
<1>3. ASSUME NEW p \in Proc, NEW q \in Payload, SetRecord(p, q) PROVE InPlace'
  <2>1. [pid |-> p, payload |-> q] \in Content BY DEF Content
  <2>2. QED BY <1>3, <2>1, Created DEF SetRecord, OwnInode, Creating, TypeOK
<1>4. ASSUME NEW p \in Proc, WriteFails(p) \/ Remove(p) PROVE InPlace'
  BY <1>4 DEF WriteFails, Remove, OwnInode, Creating, TypeOK
<1>5. ASSUME NEW p \in Proc, Rename(p) \/ LinkBack(p) PROVE InPlace'
  BY <1>5 DEF Rename, LinkBack, TypeOK
<1>6. ASSUME NEW p \in Proc, Write(p) \/ ReadClaim(p) \/ Matches(p) \/ UnlinkAside(p)
      PROVE  InPlace'
  BY <1>6 DEF Write, ReadClaim, Matches, UnlinkAside
<1>7. ASSUME NEW p \in Proc, CheckOwned(p) \/ CheckSet(p) \/ Kill(p) PROVE InPlace'
  BY <1>7 DEF CheckOwned, CheckSet, Kill, TypeOK
<1>8. CASE (\E i \in 1 .. MaxInodes : GrowOld(i)) \/ UNCHANGED vars
  BY <1>8 DEF GrowOld, vars
<1>9. QED
  BY <1>1, <1>2, <1>3, <1>4, <1>5, <1>6, <1>7, <1>8 DEF Next, Step, Create, CreateAgain

(* The invariant holds at first.                                           *)
LEMMA InitInv == Init => IInv
<1> SUFFICES ASSUME Init PROVE IInv OBVIOUS
<1>1. inodes \in Seq(Content)
  <2>1. CASE inodes = <<>> BY <2>1
  <2>2. CASE inodes = <<Empty>> BY <2>2, EmptyTyped
  <2>3. ASSUME NEW q \in Payload, inodes = <<[pid |-> Ghost, payload |-> q]>>
        PROVE  inodes \in Seq(Content)
    <3>1. [pid |-> Ghost, payload |-> q] \in Content BY DEF Content
    <3>2. QED BY <2>3, <3>1
  <2>4. QED BY <2>1, <2>2, <2>3 DEF Init
<1>2. Len(inodes) \in Nat /\ pc \in [Proc -> Label] BY <1>1 DEF Init, Label
<1>3. stale \in [Proc -> Content] BY EmptyTyped DEF Init
<1>4. path \in 0 .. Len(inodes) /\ old \subseteq 1 .. Len(inodes) BY <1>2 DEF Init
<1>5. mine \in [Proc -> 0 .. Len(inodes)] /\ aside \in [Proc -> 0 .. Len(inodes)]
  <2>1. 0 \in 0 .. Len(inodes) BY <1>2
  <2>2. QED BY <2>1 DEF Init
<1>. payload \in [Proc -> Payload \cup {NoPayload}]
  BY DEF Init
<1>. alive \subseteq Proc /\ displaced \in BOOLEAN
  BY DEF Init
<1>6. TypeOK BY <1>1, <1>2, <1>3, <1>4, <1>5 DEF TypeOK
<1>7. QED BY <1>6 DEF Init, IInv, OwnInode, Creating, InPlace

(* The invariant holds in every reachable state.                           *)
THEOREM Invariance == Spec => []IInv
<1>1. Init => IInv BY InitInv
<1>2. IInv /\ [Next]_vars => IInv'
  BY TypeStep, OwnStep, PlaceStep DEF IInv
<1>3. QED BY <1>1, <1>2, PTL DEF Spec

(* TypeOK holds in every reachable state.                                  *)
THEOREM Typing == Spec => []TypeOK
<1>1. IInv => TypeOK BY DEF IInv
<1>2. QED BY <1>1, Invariance, PTL

(* DoubleHoldNeedsDisplacement: however many processes contend, whatever   *)
(* fails and whoever is killed, two hold the claim together only once a    *)
(* take-over has moved a live process's claim aside (claim.rs:15-19).      *)
THEOREM WindowOnly == Spec => []DoubleHoldNeedsDisplacement
<1>1. IInv => DoubleHoldNeedsDisplacement
  BY DEF IInv, TypeOK, OwnInode, InPlace, Creating, DoubleHoldNeedsDisplacement, Exclusive, Holds
<1>2. QED BY <1>1, Invariance, PTL
--------------------------------------------------------------------------------
(* Two contenders, neither of whom is killed: what each of them may find.  *)

Couple ==
    /\ \A p, q, r \in Proc : p = q \/ q = r \/ p = r
    /\ Leftover # "empty" /\ ~WritesFail

(* An empty claim is one that is about to be written.                      *)
Awaited(i) == i \notin old /\ \E q \in Proc : pc[q] = "write" /\ mine[q] = i

EmptyIsFresh ==
    alive = Proc => \A i \in 1 .. Len(inodes) : inodes[i] = Empty => Awaited(i)

(* An inode names whoever has it open, or nobody yet.                      *)
NamesOwner == \A p \in Proc : mine[p] # 0 => inodes[mine[p]].pid \in {p, NoOne}

(* What is judged dead is the ghost's.                                     *)
StaleIsGhosts ==
    alive = Proc => \A p \in Proc : pc[p] \in {"rename", "compare"} => stale[p].pid = Ghost

(* One's claim is in place, or the other is about to put it back; and the  *)
(* other has none.                                                         *)
InReach ==
    alive = Proc =>
        \A p, q \in Proc : p # q /\ mine[q] # 0 =>
            /\ mine[p] = 0
            /\ path = mine[q] \/ (path = 0 /\ pc[p] = "compare" /\ aside[p] = mine[q])

PairInv == IInv /\ EmptyIsFresh /\ NamesOwner /\ StaleIsGhosts /\ InReach

(* The steps of one process, apart from kills and the clock.               *)
LEMMA OnlyMine ==
  ASSUME TypeOK, NEW p \in Proc, Step(p)
  PROVE  /\ p \in alive /\ UNCHANGED <<alive, old>>
         /\ \A q \in Proc \ {p} : mine'[q] = mine[q] /\ pc'[q] = pc[q]
                                  /\ stale'[q] = stale[q] /\ aside'[q] = aside[q]
<1> USE DEF TypeOK, Running, Goto
<1>1. CASE \E q \in Payload : Create(p, q) \/ SetRecord(p, q)
  BY <1>1 DEF Create, CreateNew, AlreadyExists, SetRecord
<1>2. CASE CreateAgain(p) \/ Write(p) \/ WriteFails(p) \/ ReadClaim(p)
  BY <1>2 DEF CreateAgain, CreateNew, AlreadyExists, Write, WriteFails, ReadClaim
<1>3. CASE Rename(p) \/ Matches(p) \/ LinkBack(p) \/ UnlinkAside(p)
  BY <1>3 DEF Rename, Matches, LinkBack, UnlinkAside
<1>4. CASE CheckOwned(p) \/ Remove(p) \/ CheckSet(p)
  BY <1>4 DEF CheckOwned, Remove, CheckSet
<1>5. QED BY <1>1, <1>2, <1>3, <1>4 DEF Step

(* NamesOwner is kept by every step: only its creator writes to an inode.  *)
LEMMA NamesStep == IInv /\ NamesOwner /\ [Next]_vars => NamesOwner'
<1> SUFFICES ASSUME IInv, NamesOwner, [Next]_vars PROVE NamesOwner'
  OBVIOUS
<1> USE EmptyTyped DEF NamesOwner
<1>0. TypeOK /\ OwnInode /\ mine \in [Proc -> 0 .. Len(inodes)] /\ Len(inodes) \in Nat
  BY DEF IInv, TypeOK
<1>1. ASSUME NEW p \in Proc, CreateNew(p) PROVE NamesOwner'
  <2>1. \A q \in Proc \ {p} : mine[q] # 0 => inodes'[mine'[q]] = inodes[mine[q]] /\ mine'[q] = mine[q]
    BY <1>0, <1>1, Created DEF CreateNew
  <2>2. inodes'[mine'[p]].pid = NoOne
    BY <1>0, <1>1, Created DEF CreateNew, Empty
  <2>3. QED BY <1>0, <1>1, <2>1, <2>2, Created DEF CreateNew
<1>2. ASSUME NEW p \in Proc, NEW q \in Payload, SetRecord(p, q) PROVE NamesOwner'
  <2>1. [pid |-> p, payload |-> q] \in Content BY DEF Content

   <2>2. \A r \in Proc \ {p} : mine[r] # 0 => inodes'[mine'[r]] = inodes[mine[r]] /\ mine'[r] = mine[r]
    BY <1>0, <1>2, <2>1, Created DEF SetRecord
  <2>3. inodes'[mine'[p]].pid = p
    BY <1>0, <1>2, <2>1, Created DEF SetRecord
  <2>4. QED BY <1>0, <1>2, <2>1, <2>2, <2>3, Created DEF SetRecord
<1>3. ASSUME NEW p \in Proc, Write(p) PROVE NamesOwner'
  <2>1. mine[p] \in 1 .. Len(inodes)
    BY <1>0, <1>3 DEF Write, OwnInode, Creating, Running
  <2>2. DOMAIN inodes = 1 .. Len(inodes) BY DEF IInv, TypeOK
  <2>3. inodes'[mine[p]].pid = p
    BY <1>3, <2>1, <2>2 DEF Write
  <2>4. \A r \in Proc \ {p} : mine[r] # 0 => inodes'[mine[r]] = inodes[mine[r]]
    BY <1>0, <1>3, <2>1, <2>2 DEF Write, OwnInode
  <2>5. QED BY <1>3, <2>3, <2>4 DEF Write
<1>4. ASSUME NEW p \in Proc, UNCHANGED inodes, \A q \in Proc : mine'[q] \in {0, mine[q]}
      PROVE  NamesOwner'
  BY <1>4
<1>5. ASSUME NEW p \in Proc, WriteFails(p) \/ CheckOwned(p) \/ Remove(p) PROVE NamesOwner'
  <2>1. UNCHANGED inodes /\ (UNCHANGED mine \/ mine' = [mine EXCEPT ![p] = 0])
    BY <1>5 DEF WriteFails, CheckOwned, Remove
  <2>2. QED BY <1>0, <1>4, <2>1
<1>6. CASE UNCHANGED <<inodes, mine>>
  BY <1>6
<1>7. ASSUME NEW p \in Proc, AlreadyExists(p) \/ ReadClaim(p) \/ Rename(p) \/ Matches(p)
                             \/ LinkBack(p) \/ UnlinkAside(p) \/ CheckSet(p) \/ Kill(p)
      PROVE  NamesOwner'
  BY <1>6, <1>7 DEF AlreadyExists, ReadClaim, Rename, Matches, LinkBack, UnlinkAside, CheckSet, Kill
<1>8. CASE (\E i \in 1 .. MaxInodes : GrowOld(i)) \/ UNCHANGED vars
  BY <1>6, <1>8 DEF GrowOld, vars
<1>9. QED
  BY <1>1, <1>2, <1>3, <1>5, <1>7, <1>8 DEF Next, Step, Create, CreateAgain

(* EmptyIsFresh is kept by every step.                                     *)
LEMMA FreshStep == Couple /\ IInv /\ EmptyIsFresh /\ [Next]_vars => EmptyIsFresh'
<1> SUFFICES ASSUME Couple, IInv, EmptyIsFresh, [Next]_vars, alive' = Proc
             PROVE  \A i \in 1 .. Len(inodes') : inodes'[i] = Empty => Awaited(i)'
  BY DEF EmptyIsFresh
<1> USE EmptyTyped DEF EmptyIsFresh, Awaited, Running, Goto
<1>0. /\ TypeOK /\ OwnInode /\ mine \in [Proc -> 0 .. Len(inodes)] /\ Len(inodes) \in Nat
      /\ pc \in [Proc -> Label] /\ alive \subseteq Proc /\ DOMAIN inodes = 1 .. Len(inodes)
  BY DEF IInv, TypeOK
<1>1. alive = Proc
  <2>1. alive' \subseteq alive
    BY <1>0, OnlyMine DEF Next, Kill, GrowOld, vars
  <2>2. QED BY <1>0, <2>1
<1>2. ASSUME NEW p \in Proc, CreateNew(p), Goto(p, "write"), pc[p] # "write"
      PROVE  \A i \in 1 .. Len(inodes') : inodes'[i] = Empty => Awaited(i)'
  <2> TAKE i \in 1 .. Len(inodes')
  <2> HAVE inodes'[i] = Empty
  <2>1. CASE i = Len(inodes')
    BY ZenonT(60), <1>0, <1>2, <2>1, Created DEF CreateNew
  <2>2. CASE i \in 1 .. Len(inodes)
    <3>1. PICK q \in Proc : pc[q] = "write" /\ mine[q] = i /\ i \notin old
      BY <1>0, <1>1, <1>2, <2>2, Created DEF CreateNew
    <3>2. q # p /\ pc'[q] = "write" /\ mine'[q] = i /\ old' = old
      BY <1>0, <1>2, <3>1 DEF CreateNew
    <3>3. QED BY <3>1, <3>2
  <2>3. QED BY <1>0, <1>2, <2>1, <2>2, Created DEF CreateNew
<1>3. ASSUME NEW p \in Proc, NEW r \in Payload, SetRecord(p, r)
      PROVE  \A i \in 1 .. Len(inodes') : inodes'[i] = Empty => Awaited(i)'
  <2> TAKE i \in 1 .. Len(inodes')
  <2> HAVE inodes'[i] = Empty
  <2>1. [pid |-> p, payload |-> r] \in Content /\ [pid |-> p, payload |-> r] # Empty
    BY DEF Content, Empty
  <2>2. i \in 1 .. Len(inodes) /\ inodes[i] = Empty
    BY <1>0, <1>3, <2>1, Created DEF SetRecord
  <2>3. PICK q \in Proc : pc[q] = "write" /\ mine[q] = i /\ i \notin old
    BY <1>1, <2>2
  <2>4. q # p /\ pc'[q] = "write" /\ mine'[q] = i /\ old' = old
    BY <1>0, <1>3, <2>3 DEF SetRecord
  <2>5. QED BY <2>3, <2>4
<1>4. ASSUME NEW p \in Proc, Write(p)
      PROVE  \A i \in 1 .. Len(inodes') : inodes'[i] = Empty => Awaited(i)'
  <2> TAKE i \in 1 .. Len(inodes')
  <2> HAVE inodes'[i] = Empty
  <2>1. [pid |-> p, payload |-> payload[p]] # Empty
    BY DEF Empty
  <2>2. mine[p] \in 1 .. Len(inodes) BY <1>0, <1>4 DEF Write, OwnInode, Creating
  <2>3. i \in 1 .. Len(inodes) /\ i # mine[p] /\ inodes[i] = Empty
    BY <1>0, <1>4, <2>1, <2>2 DEF Write
  <2>4. PICK q \in Proc : pc[q] = "write" /\ mine[q] = i /\ i \notin old
    BY <1>1, <2>3
  <2>5. q # p /\ pc'[q] = "write" /\ mine'[q] = i /\ old' = old
    BY <1>0, <1>4, <2>3, <2>4 DEF Write
  <2>6. QED BY <2>4, <2>5
<1>5. ASSUME NEW p \in Proc, pc[p] # "write", UNCHANGED <<inodes, old>>,
             \A q \in Proc \ {p} : mine'[q] = mine[q] /\ pc'[q] = pc[q]
      PROVE  \A i \in 1 .. Len(inodes') : inodes'[i] = Empty => Awaited(i)'
  <2> TAKE i \in 1 .. Len(inodes')
  <2> HAVE inodes'[i] = Empty
  <2>1. PICK q \in Proc : pc[q] = "write" /\ mine[q] = i /\ i \notin old
    BY <1>1, <1>5
  <2>2. QED BY <1>5, <2>1
<1>6. ASSUME NEW p \in Proc, AlreadyExists(p), pc[p] \in {"idle", "create"},
             NEW l \in Label, Goto(p, l)
      PROVE  \A i \in 1 .. Len(inodes') : inodes'[i] = Empty => Awaited(i)'
  BY <1>0, <1>5, <1>6 DEF AlreadyExists
<1>7. ASSUME NEW p \in Proc, ReadClaim(p) \/ Rename(p) \/ Matches(p) \/ LinkBack(p)
                             \/ UnlinkAside(p) \/ CheckOwned(p) \/ Remove(p) \/ CheckSet(p)
      PROVE  \A i \in 1 .. Len(inodes') : inodes'[i] = Empty => Awaited(i)'
  <2>1. pc[p] # "write" /\ UNCHANGED inodes
    BY <1>7 DEF ReadClaim, Rename, Matches, LinkBack, UnlinkAside, CheckOwned, Remove, CheckSet
  <2>2. Step(p) BY <1>7 DEF Step
  <2>3. QED BY <1>0, <1>5, <2>1, <2>2, OnlyMine
<1>8. ASSUME NEW i \in 1 .. MaxInodes, GrowOld(i)
      PROVE  \A k \in 1 .. Len(inodes') : inodes'[k] = Empty => Awaited(k)'
  <2>1. PICK q \in Proc : pc[q] = "write" /\ mine[q] = i
    BY <1>0, <1>1, <1>8 DEF GrowOld
  <2>2. FALSE BY <1>1, <1>8, <2>1 DEF GrowOld
  <2>3. QED BY <2>2
<1>9. ASSUME NEW p \in Proc, Kill(p) PROVE FALSE
  BY <1>0, <1>9 DEF Kill
<1>10. CASE UNCHANGED vars
  BY <1>1, <1>10 DEF vars
<1>11. ASSUME NEW p \in Proc, NEW r \in Payload, Create(p, r)
       PROVE  \A i \in 1 .. Len(inodes') : inodes'[i] = Empty => Awaited(i)'
  <2> {"idle", "create", "read", "write"} \subseteq Label BY DEF Label
  <2>. QED BY <1>2, <1>6, <1>11 DEF Create
<1>12. ASSUME NEW p \in Proc, CreateAgain(p)
       PROVE  \A i \in 1 .. Len(inodes') : inodes'[i] = Empty => Awaited(i)'
  <2> {"idle", "create", "read", "write"} \subseteq Label BY DEF Label
  <2>. QED BY <1>2, <1>6, <1>12 DEF CreateAgain
<1>13. ASSUME NEW p \in Proc PROVE ~WriteFails(p)
  BY DEF Couple, WriteFails
<1>14. CASE \E p \in Proc : Step(p)
  BY <1>3, <1>4, <1>7, <1>11, <1>12, <1>13, <1>14 DEF Step
<1>15. QED BY <1>8, <1>9, <1>10, <1>14 DEF Next

(* StaleIsGhosts is kept by every step.                                    *)
LEMMA StaleStep == Couple /\ IInv /\ EmptyIsFresh /\ StaleIsGhosts /\ [Next]_vars => StaleIsGhosts'
<1> SUFFICES ASSUME Couple, IInv, EmptyIsFresh, StaleIsGhosts, [Next]_vars, alive' = Proc,
                    NEW q \in Proc, pc'[q] \in {"rename", "compare"}
             PROVE  stale'[q].pid = Ghost
  BY DEF StaleIsGhosts
<1> USE DEF StaleIsGhosts, Running, Goto
<1>0. TypeOK /\ pc \in [Proc -> Label] /\ stale \in [Proc -> Content]
      /\ alive \subseteq Proc /\ path \in 0 .. Len(inodes) /\ Len(inodes) \in Nat
  BY DEF IInv, TypeOK
<1>1. alive = Proc
  <2>1. alive' \subseteq alive
    BY <1>0, OnlyMine DEF Next, Kill, GrowOld, vars
  <2>2. QED BY <1>0, <2>1
<1>2. ASSUME NEW p \in Proc, Step(p), p # q PROVE stale'[q].pid = Ghost
  <2>1. pc'[q] = pc[q] /\ stale'[q] = stale[q] BY <1>0, <1>2, OnlyMine
  <2>2. QED BY <1>1, <2>1
<1>3. CASE Step(q)
  <2>1. CASE ReadClaim(q)
    <3>1. HolderDead(path) /\ path \in 1 .. Len(inodes) /\ stale'[q] = inodes[path]
      BY <1>0, <2>1 DEF ReadClaim
    <3>2. CASE inodes[path] = Empty /\ path \in old
      BY <1>1, <3>1, <3>2 DEF EmptyIsFresh, Awaited
    <3>3. CASE inodes[path].pid \in (Proc \cup {Ghost}) \ alive
      BY <1>1, <3>1, <3>3
    <3>4. QED BY <3>1, <3>2, <3>3 DEF HolderDead
  <2>2. CASE Rename(q)
    BY <1>0, <1>1, <2>2 DEF Rename
  <2>3. CASE ~ReadClaim(q) /\ ~Rename(q)
    <3>1. pc'[q] \notin {"rename", "compare"}
      BY <1>0, <1>3, <2>3 DEF Step, Create, CreateNew, AlreadyExists, SetRecord, CreateAgain,
         Write, WriteFails, Matches, LinkBack, UnlinkAside, CheckOwned, Remove, CheckSet
    <3>2. QED BY <3>1
  <2>4. QED BY <2>1, <2>2, <2>3
<1>4. CASE ~ \E p \in Proc : Step(p)
  BY <1>1, <1>4 DEF Next, Kill, GrowOld, vars
<1>5. QED BY <1>2, <1>3, <1>4

(* InReach is kept by every step: the other process can only move a claim  *)
(* aside, and then finds that it is not the ghost's.                       *)
LEMMA ReachStep == Couple /\ PairInv /\ [Next]_vars => InReach'
<1> SUFFICES ASSUME Couple, PairInv, [Next]_vars, alive' = Proc
             PROVE  InReach'
  BY DEF InReach
<1> DEFINE Safe(p, q) ==
        /\ mine[p] = 0
        /\ path = mine[q] \/ (path = 0 /\ pc[p] = "compare" /\ aside[p] = mine[q])
<1> USE EmptyTyped DEF Running, Goto
<1>0. /\ TypeOK /\ OwnInode /\ mine \in [Proc -> 0 .. Len(inodes)] /\ Len(inodes) \in Nat
      /\ pc \in [Proc -> Label] /\ alive \subseteq Proc /\ path \in 0 .. Len(inodes)
      /\ aside \in [Proc -> 0 .. Len(inodes)] /\ NamesOwner /\ StaleIsGhosts
  BY DEF PairInv, IInv, TypeOK
<1>1. alive = Proc
  <2>1. alive' \subseteq alive
    BY <1>0, OnlyMine DEF Next, Kill, GrowOld, vars
  <2>2. QED BY <1>0, <2>1
<1>2. \A p, q \in Proc : p # q /\ mine[q] # 0 => Safe(p, q)
  BY <1>1 DEF PairInv, InReach
<1>3. SUFFICES ASSUME NEW p \in Proc, NEW q \in Proc, p # q, mine'[q] # 0
               PROVE  Safe(p, q)'
  BY DEF InReach
<1> HIDE DEF Safe
<1>4. \A r \in Proc : r = p \/ r = q
  BY <1>3 DEF Couple
<1>5. ASSUME NEW r \in Proc, CreateNew(r), pc[r] \in {"idle", "create"}
      PROVE  Safe(p, q)'
  <2>1. r = q
    <3>1. SUFFICES ASSUME r = p PROVE FALSE BY <1>4
    <3>2. mine[q] # 0 BY <1>0, <1>3, <1>5, <3>1, Created DEF CreateNew
    <3>3. QED BY <1>2, <1>3, <1>5, <3>1, <3>2 DEF Safe, CreateNew
  <2>2. mine[p] = 0
    BY <1>2, <1>3, <1>5, <2>1 DEF Safe, CreateNew
  <2>3. mine'[p] = 0 /\ path' = mine'[q]
    BY <1>0, <1>3, <1>5, <2>1, <2>2, Created DEF CreateNew
  <2>4. QED BY <2>3 DEF Safe
<1>6. ASSUME NEW r \in Proc, NEW x \in Payload, SetRecord(r, x)
      PROVE  Safe(p, q)'
  <2>1. [pid |-> r, payload |-> x] \in Content BY DEF Content
  <2>2. mine[r] # 0 BY <1>0, <1>6 DEF SetRecord, OwnInode, Creating
  <2>3. r = q
    <3>1. SUFFICES ASSUME r = p PROVE FALSE BY <1>4
    <3>2. mine[q] # 0 BY <1>0, <1>3, <1>6, <2>1, <3>1, Created DEF SetRecord
    <3>3. QED BY <1>2, <1>3, <2>2, <3>1, <3>2 DEF Safe
  <2>4. mine[p] = 0 BY <1>2, <1>3, <2>2, <2>3 DEF Safe
  <2>5. mine'[p] = 0 /\ path' = mine'[q]
    BY <1>0, <1>3, <1>6, <2>1, <2>3, <2>4, Created DEF SetRecord
  <2>6. QED BY <2>5 DEF Safe
<1>7. ASSUME NEW r \in Proc, Remove(r) PROVE Safe(p, q)'
  <2>1. mine[r] # 0 BY <1>0, <1>7 DEF Remove, OwnInode, Creating
  <2>2. mine'[r] = 0 BY <1>0, <1>7 DEF Remove
  <2>3. r = p /\ mine[q] # 0 BY <1>0, <1>3, <1>4, <1>7, <2>2 DEF Remove
  <2>4. QED BY <1>2, <1>3, <2>1, <2>3 DEF Safe
<1>8. ASSUME NEW r \in Proc, Rename(r) PROVE Safe(p, q)'
  <2>1. mine' = mine /\ pc[r] = "rename" BY <1>8 DEF Rename
  <2>2. Safe(p, q) BY <1>2, <1>3, <2>1
  <2>3. mine[r] = 0 BY <1>0, <2>1 DEF OwnInode, Creating
  <2>4. r = p /\ path = mine[q] BY <1>3, <1>4, <2>1, <2>2, <2>3 DEF Safe
  <2>5. path' = 0 /\ pc'[p] = "compare" /\ aside'[p] = mine'[q]
    BY <1>0, <1>3, <1>8, <2>1, <2>4 DEF Rename
  <2>6. QED BY <2>1, <2>2, <2>5 DEF Safe
<1>9. ASSUME NEW r \in Proc, Matches(r) PROVE Safe(p, q)'
  <2>1. mine' = mine /\ path' = path /\ pc[r] = "compare" /\ inodes[aside[r]] = stale[r]
    BY <1>9 DEF Matches
  <2>2. Safe(p, q) BY <1>2, <1>3, <2>1
  <2>3. stale[r].pid = Ghost BY <1>0, <1>1, <2>1 DEF StaleIsGhosts
  <2>4. inodes[mine[q]].pid # Ghost BY <1>0, <1>3, <2>1 DEF NamesOwner
  <2>5. r = p BY <1>0, <1>3, <1>4, <2>1 DEF OwnInode, Creating
  <2>6. path = mine[q] BY <2>1, <2>2, <2>3, <2>4, <2>5 DEF Safe
  <2>7. QED BY <2>1, <2>2, <2>6 DEF Safe
<1>10. ASSUME NEW r \in Proc, LinkBack(r) PROVE Safe(p, q)'
  <2>1. mine' = mine /\ pc[r] = "compare" /\ path' = IF path = 0 THEN aside[r] ELSE path
    BY <1>10 DEF LinkBack
  <2>2. Safe(p, q) BY <1>2, <1>3, <2>1
  <2>3. r = p BY <1>0, <1>3, <1>4, <2>1 DEF OwnInode, Creating
  <2>4. path' = mine[q] BY <1>3, <2>1, <2>2, <2>3 DEF Safe
  <2>5. QED BY <2>1, <2>2, <2>4 DEF Safe
<1>11. ASSUME NEW r \in Proc, UnlinkAside(r) PROVE Safe(p, q)'
  <2>1. mine' = mine /\ path' = path /\ pc[r] = "unlink"
    BY <1>11 DEF UnlinkAside
  <2>2. Safe(p, q) BY <1>2, <1>3, <2>1
  <2>3. r = p BY <1>0, <1>3, <1>4, <2>1 DEF OwnInode, Creating
  <2>4. path = mine[q] BY <2>1, <2>2, <2>3 DEF Safe
  <2>5. QED BY <2>1, <2>2, <2>4 DEF Safe
<1>12. ASSUME NEW r \in Proc, UNCHANGED <<path, aside>>, pc[r] # "compare",
              \A x \in Proc : mine'[x] \in {0, mine[x]},
              \A x \in Proc \ {r} : pc'[x] = pc[x]
       PROVE  Safe(p, q)'
  <2>1. mine[q] # 0 /\ mine'[q] = mine[q] BY <1>3, <1>12
  <2>2. Safe(p, q) BY <1>2, <1>3, <2>1
  <2>3. mine'[p] = 0 BY <1>12, <2>2 DEF Safe
  <2>4. QED BY <1>12, <2>1, <2>2, <2>3 DEF Safe
<1>13. ASSUME NEW r \in Proc, Write(r) \/ CheckSet(r) \/ CheckOwned(r) \/ ReadClaim(r)
       PROVE  Safe(p, q)'
  <2>1. UNCHANGED <<path, aside>> /\ pc[r] # "compare" /\ Step(r)
    BY <1>13 DEF Write, CheckSet, CheckOwned, ReadClaim, Step
  <2>2. UNCHANGED mine \/ mine' = [mine EXCEPT ![r] = 0]
    BY <1>13 DEF Write, CheckSet, CheckOwned, ReadClaim
  <2>3. \A x \in Proc : mine'[x] \in {0, mine[x]} BY <1>0, <2>2
  <2>4. QED BY <1>0, <1>12, <2>1, <2>3, OnlyMine
<1>14. ASSUME NEW r \in Proc, AlreadyExists(r), pc[r] \in {"idle", "create"},
              NEW l \in Label, Goto(r, l)
       PROVE  Safe(p, q)'
  BY <1>0, <1>12, <1>14 DEF AlreadyExists
<1>15. ASSUME NEW r \in Proc, NEW x \in Payload, Create(r, x) PROVE Safe(p, q)'
  <2> {"idle", "read", "write"} \subseteq Label BY DEF Label
  <2>. QED BY <1>5, <1>14, <1>15 DEF Create
<1>16. ASSUME NEW r \in Proc, CreateAgain(r) PROVE Safe(p, q)'
  <2> {"idle", "read", "write"} \subseteq Label BY DEF Label
  <2>. QED BY <1>5, <1>14, <1>16 DEF CreateAgain
<1>17. CASE UNCHANGED <<path, aside, mine, pc>>
  <2>1. Safe(p, q) BY <1>2, <1>3, <1>17
  <2>2. QED BY <1>17, <2>1 DEF Safe
<1>18. CASE (\E r \in Proc : Kill(r)) \/ (\E i \in 1 .. MaxInodes : GrowOld(i)) \/ UNCHANGED vars
  BY <1>17, <1>18 DEF Kill, GrowOld, vars
<1>19. ASSUME NEW r \in Proc PROVE ~WriteFails(r)
  BY DEF Couple, WriteFails
<1>20. QED
  BY <1>6, <1>7, <1>8, <1>9, <1>10, <1>11, <1>13, <1>15, <1>16, <1>18, <1>19 DEF Next, Step

(* Of two contenders at most one holds the claim, and none enters while    *)
(* another is inside.                                                      *)
LEMMA PairApart ==
  ASSUME Couple, PairInv, [Next]_vars, NEW p \in Proc, NEW q \in Proc, Holds(p),
         Holds(q) \/ Holds(q)'
  PROVE  p = q
<1> SUFFICES ASSUME p # q PROVE FALSE
  OBVIOUS
<1>0. TypeOK /\ OwnInode /\ alive \subseteq Proc /\ pc \in [Proc -> Label]
  BY DEF PairInv, IInv, TypeOK
<1>1. alive' \subseteq alive
  BY <1>0, OnlyMine DEF Next, Kill, GrowOld, vars
<1>2. alive = Proc
  BY <1>0, <1>1 DEF Couple, Holds
<1>3. mine[p] # 0 /\ mine[q] = 0
  BY <1>0, <1>2 DEF Holds, OwnInode, Creating, PairInv, InReach
<1>4. pc[q] \notin Creating /\ ~Holds(q)
  BY <1>0, <1>3 DEF OwnInode, Creating, Holds
<1>5. ~Step(q)
  <2> SUFFICES ASSUME Step(q) PROVE FALSE OBVIOUS
  <2>1. pc'[q] \in Creating => pc'[q] = "write"
    BY <1>0, <1>4 DEF Creating, Step, Create, CreateNew, AlreadyExists, SetRecord, CreateAgain,
       Write,
       WriteFails, ReadClaim, Rename, Matches, LinkBack, UnlinkAside, CheckOwned, Remove, CheckSet,
       Running, Goto
  <2>2. QED BY <1>4, <2>1 DEF Holds, Creating
<1>6. pc'[q] = pc[q]
  BY <1>0, <1>5, OnlyMine DEF Next, Kill, GrowOld, vars
<1>7. QED BY <1>4, <1>6 DEF Holds, Creating

(* The invariant of two contenders.                                        *)
LEMMA PairInvariance == ASSUME Couple PROVE Spec => []PairInv
<1>1. Init => PairInv
  <2> SUFFICES ASSUME Init PROVE PairInv OBVIOUS
  <2>1. IInv BY InitInv
  <2>2. EmptyIsFresh
    <3>1. CASE inodes = <<>> BY <3>1 DEF EmptyIsFresh
    <3>2. CASE \E q \in Payload : inodes = <<[pid |-> Ghost, payload |-> q]>>
      BY <3>2 DEF EmptyIsFresh, Empty
    <3>3. QED BY <3>1, <3>2 DEF Init, Couple
  <2>3. QED BY <2>1, <2>2 DEF Init, PairInv, NamesOwner, StaleIsGhosts, InReach
<1>2. PairInv /\ [Next]_vars => PairInv'
  BY TypeStep, OwnStep, PlaceStep, FreshStep, NamesStep, StaleStep, ReachStep DEF IInv, PairInv
<1>3. QED BY <1>1, <1>2, PTL DEF Spec

(* The same of one state.                                                  *)
LEMMA PairExclusive == ASSUME Couple PROVE PairInv => Exclusive
<1> SUFFICES ASSUME PairInv, NEW p \in Proc, NEW q \in Proc, Holds(p), Holds(q), p # q
             PROVE  FALSE
  BY DEF Exclusive
<1>1. TypeOK /\ OwnInode /\ alive \subseteq Proc
  BY DEF PairInv, IInv, TypeOK
<1>2. alive = Proc
  BY <1>1 DEF Couple, Holds
<1>3. QED BY <1>1, <1>2 DEF PairInv, InReach, OwnInode, Creating, Holds

(* Exclusive: two contenders never hold the claim together.                *)
THEOREM PairHoldsApart == ASSUME Couple PROVE Spec => []Exclusive
BY PairExclusive, PairInvariance, PTL

(* ImplementsExclusion: two contenders for a dead holder's claim implement *)
(* the exclusion their users rely on, through kills at any system call,    *)
(* claims that are moved aside and put back, and records that replace each *)
(* other.  The remaining window "needs three processes" (claim.rs:18).     *)
THEOREM PairRefinement == ASSUME Couple PROVE Spec => ImplementsExclusion
<1> DEFINE inside == {p \in Proc : Holds(p)}
<1>1. Init => Promised!Init
  BY DEF Init, Promised!Init, Holds
<1>2. ASSUME PairInv, PairInv', [Next]_vars PROVE [Promised!Next]_inside
  <2>1. \A p \in inside, q \in inside \cup inside' : p = q
    BY <1>2, PairApart
  <2>2. \A p, q \in inside' : p = q
    <3>1. Exclusive' BY <1>2, PairExclusive, PTL
    <3>2. QED BY <3>1 DEF Exclusive
  <2>3. inside \subseteq Proc /\ inside' \subseteq Proc
    OBVIOUS
  <2> HIDE DEF inside
  <2>4. CASE inside = {}
    <3>1. CASE inside' = {} BY <2>4, <3>1
    <3>2. ASSUME NEW q \in inside' PROVE Promised!Take(q)
      BY <2>2, <2>4, <3>2 DEF inside, Promised!Take
    <3>3. QED BY <2>3, <3>1, <3>2 DEF Promised!Next
  <2>5. CASE inside # {}
    <3>1. PICK p \in Proc : p \in inside BY <2>3, <2>5
    <3>2. CASE inside' = {}
      <4>1. inside' = inside \ {p} BY <2>1, <3>1, <3>2
      <4>2. QED BY <3>1, <4>1 DEF inside, Promised!Next, Promised!Leave
    <3>3. CASE inside' # {}
      <4>1. inside' = {p} /\ inside = {p} BY <2>1, <3>1, <3>3
      <4>2. QED BY <4>1
    <3>4. QED BY <3>2, <3>3
  <2>6. QED BY <2>4, <2>5
<1>3. QED
  BY <1>1, <1>2, PairInvariance, PTL DEF Spec, ImplementsExclusion, Promised!Spec
--------------------------------------------------------------------------------
(* The workers of a loop (LoopSupervisor), for any number of loops, of     *)
(* workers and of processes that run `ostrom up`, one at a time.           *)

Slotted == {"loops", "write", "spawn"}

Launched(l) == {x \in Worker : args[x] # None /\ args[x].loop = l /\ args[x].version = version}

(* What a loop's file, or what a worker read of it, says of the launches   *)
(* of the current version: none is of a later slot, nor of one held back.  *)
Ahead(l, run) ==
    \A x \in Launched(l) :
        /\ run # None /\ run.version = version /\ args[x].slot <= run.slot
        /\ args[x].slot = run.slot => run.status # "held"

OneUp ==
    /\ \A u, x \in Up : upPc[u] # "idle" /\ upPc[x] # "idle" => u = x
    /\ \A u \in Up : upPc[u] # "idle" => work[u].version = version
    /\ \A x \in Worker : args[x] # None => args[x].version <= version

(* Nothing on file, nor read from it, is of a slot after this one.         *)
Past(n) ==
    /\ \A l \in Loop : state[l] # None => state[l].slot <= n
    /\ \A w \in Worker : read[w] # None => read[w].slot <= n

InTime ==
    /\ Past(slot)
    /\ \A u \in Up : upPc[u] # "idle" /\ work[u].run # None => work[u].run.slot <= slot
    /\ \A u \in Up : upPc[u] \in Slotted => work[u].slot \in 1 .. slot /\ Past(work[u].slot)

OneRuns ==
    \A w, x \in Worker :
        Loops!Running(w) /\ Loops!Running(x) /\ args[w].loop = args[x].loop => w = x

(* A worker that is yet to record itself finds its own launch on file; one *)
(* that did is the process on file; one that closes has read its file.     *)
WorkerOK(w) ==
    /\ w \in Loops!Unrecorded =>
          /\ args[w].version = version
          /\ state[args[w].loop] = Loops!Run(version, args[w].slot, "starting", None)
          /\ \A u \in Up : upPc[u] # "idle" => upPc[u] \in Slotted /\ args[w].loop \notin todo[u]
    /\ Loops!Running(w) /\ w \notin Loops!Unrecorded =>
          /\ state[args[w].loop] # None /\ state[args[w].loop].pid = w
          /\ state[args[w].loop].status \in {"running", "skipped"}
    /\ workerPc[w] \in {"close", "refuse"} => read[w] # None /\ Ahead(args[w].loop, read[w])

NoneOn(l) == \A w \in Worker : Loops!Running(w) => args[w].loop # l

(* What `up` is about to do to a loop is right for whoever runs on it.     *)
UpOK(u) ==
    /\ upPc[u] \in {"stop", "terminate", "stopped"} => \A l \in todo[u] : state[l] # None
    /\ upPc[u] \in {"terminate", "stopped"} =>
          work[u].loop \in todo[u] /\ work[u].run # None /\ Launched(work[u].loop) = {}
    /\ upPc[u] = "terminate" =>
          \A w \in Worker : Loops!Running(w) /\ args[w].loop = work[u].loop => w = work[u].run.pid
    /\ upPc[u] = "stopped" => NoneOn(work[u].loop)
    /\ upPc[u] \in {"write", "spawn"} =>
          /\ work[u].loop \in Loop /\ work[u].next # None
          /\ work[u].next.version = version /\ work[u].next.slot = work[u].slot
          /\ \A x \in Launched(work[u].loop) :
                /\ args[x].slot <= work[u].slot
                /\ work[u].next.status # "skipped" => args[x].slot < work[u].slot
    /\ upPc[u] = "write" =>
          /\ work[u].loop \in todo[u]
          /\ \A w \in Worker : Loops!Running(w) /\ args[w].loop = work[u].loop =>
                work[u].next.status = "skipped" /\ work[u].next.pid = w
          /\ work[u].next.status # "skipped" => work[u].next.pid = None
    /\ upPc[u] = "spawn" =>
          /\ work[u].loop \notin todo[u] /\ NoneOn(work[u].loop)
          /\ work[u].next = Loops!Run(version, work[u].slot, "starting", None)
          /\ state[work[u].loop] = work[u].next

LoopInv ==
    /\ Loops!TypeOK /\ OneUp /\ InTime /\ OneRuns /\ Loops!SlotLaunchedOnce
    /\ \A w \in Worker : WorkerOK(w)
    /\ \A l \in Loop : Ahead(l, state[l])
    /\ \A u \in Up : UpOK(u)

USE LoopConstants DEF Loops!Constants

(* The types, in the parts that the proofs ask for.                        *)
LEMMA LoopTypes ==
  ASSUME Loops!TypeOK
  PROVE  /\ slot \in Nat \ {0} /\ version \in Nat \ {0} /\ slot \in 1 .. MaxSlot
         /\ version \in 1 .. MaxVersion
         /\ state \in [Loop -> Loops!Runs \cup {None}]
         /\ upPc \in [Up -> {"idle", "stop", "terminate", "stopped", "loops", "write", "spawn"}]
         /\ todo \in [Up -> SUBSET Loop] /\ work \in [Up -> Loops!Works \cup {None}]
         /\ \A u \in Up : upPc[u] = "idle" <=> work[u] = None
         /\ workerPc \in [Worker -> {"none", "started", "record", "running", "finish", "fail",
                                     "close", "refuse", "orphan", "gone"}]
         /\ args \in [Worker -> Loops!Launches \cup {None}]
         /\ read \in [Worker -> Loops!Runs \cup {None}]
         /\ \A w \in Worker : workerPc[w] = "none" <=> args[w] = None
         /\ faults \in 0 .. MaxFaults
BY DEF Loops!TypeOK

(* What runs, is launched and is at work have.                             *)
LEMMA LoopFields ==
  /\ \A run \in Loops!Runs : /\ run.version \in 1 .. MaxVersion /\ run.slot \in 1 .. MaxSlot
                             /\ run.status \in Loops!Status /\ run.pid \in Worker \cup {None}
  /\ \A a \in Loops!Launches : /\ a.version \in 1 .. MaxVersion /\ a.slot \in 1 .. MaxSlot
                               /\ a.loop \in Loop
  /\ \A j \in Loops!Works : /\ j.version \in 1 .. MaxVersion /\ j.slot \in 0 .. MaxSlot
                            /\ j.old \in BOOLEAN /\ j.loop \in Loop \cup {None}
                            /\ j.run \in Loops!Runs \cup {None}
                            /\ j.next \in Loops!Runs \cup {None}
BY DEF Loops!Runs, Loops!Launches, Loops!Works

(* A record of a run, of a launch and of what `up` works on is one.        *)
LEMMA RunTyped ==
  ASSUME NEW v \in 1 .. MaxVersion, NEW s \in 1 .. MaxSlot, NEW st \in Loops!Status,
         NEW p \in Worker \cup {None}
  PROVE  /\ Loops!Run(v, s, st, p) \in Loops!Runs
         /\ Loops!Run(v, s, st, p).version = v /\ Loops!Run(v, s, st, p).slot = s
         /\ Loops!Run(v, s, st, p).status = st /\ Loops!Run(v, s, st, p).pid = p
BY DEF Loops!Run, Loops!Runs

(* A worker runs on a loop, and was launched for it.                       *)
LEMMA RunsOn ==
  ASSUME LoopInv, NEW w \in Worker, Loops!Running(w)
  PROVE  /\ args[w] \in Loops!Launches /\ args[w].loop \in Loop /\ args[w].slot \in 1 .. MaxSlot
         /\ args[w].version \in 1 .. MaxVersion
         /\ w \in Loops!Unrecorded \/ (state[args[w].loop] \in Loops!Runs
                                       /\ state[args[w].loop].pid = w)
<1>1. workerPc[w] # "none"
  BY DEF Loops!Running, Loops!Unrecorded, Loops!Working
<1>2. args[w] \in Loops!Launches BY <1>1, LoopTypes DEF LoopInv
<1>3. args[w].loop \in Loop BY <1>2, LoopFields
<1>4. w \notin Loops!Unrecorded => state[args[w].loop] \in Loops!Runs
                                   /\ state[args[w].loop].pid = w
  BY <1>3, LoopTypes DEF LoopInv, WorkerOK
<1>5. QED BY <1>2, <1>3, <1>4, LoopFields

(* A step of `up` that changes nothing but where it is and what it holds.  *)
LEMMA UpMoves ==
  ASSUME LoopInv, NEW u \in Up, UNCHANGED <<slot, overdue, version, state, workerPc, args, read>>,
         \A x \in Up : x # u => upPc'[x] = upPc[x] /\ work'[x] = work[x] /\ todo'[x] = todo[x],
         Loops!TypeOK',
         upPc[u] = "idle" => Loops!Unrecorded = {} /\ \A x \in Up : upPc[x] = "idle",
         upPc'[u] # "idle" =>
             /\ work'[u].version = version
             /\ work'[u].run # None => work'[u].run.slot <= slot
             /\ upPc[u] \in Slotted => upPc'[u] \in Slotted /\ todo'[u] \subseteq todo[u],
         upPc'[u] \in Slotted => work'[u].slot \in 1 .. slot /\ Past(work'[u].slot),
         UpOK(u)'
  PROVE  LoopInv'
<1>1. OneUp' BY DEF LoopInv, OneUp
<1>2. \A n : Past(n) => Past(n)' BY DEF Past
<1>3. InTime'
  <2>1. Past(slot)' BY <1>2 DEF LoopInv, InTime, Past
  <2>2. ASSUME NEW x \in Up, upPc'[x] # "idle", work'[x].run # None PROVE work'[x].run.slot <= slot'
    BY <2>2 DEF LoopInv, InTime
  <2>3. ASSUME NEW x \in Up, upPc'[x] \in Slotted
        PROVE  work'[x].slot \in 1 .. slot' /\ Past(work[x].slot)'
    <3>1. CASE x = u
      <4>1. PICK n : n = work'[u].slot OBVIOUS
      <4>2. n \in 1 .. slot /\ Past(n)' BY <1>2, <2>3, <3>1, <4>1
      <4>3. QED BY <3>1, <4>1, <4>2 DEF Past
    <3>2. CASE x # u
      <4>1. PICK n : n = work[x].slot OBVIOUS
      <4>2. n \in 1 .. slot /\ Past(n)' BY <1>2, <2>3, <3>2, <4>1 DEF LoopInv, InTime
      <4>3. QED BY <3>2, <4>1, <4>2 DEF Past
    <3>3. QED BY <3>1, <3>2
  <2>4. QED BY <2>1, <2>2, <2>3 DEF InTime
<1>4. OneRuns' /\ Loops!SlotLaunchedOnce'
  BY DEF LoopInv, OneRuns, Loops!Running, Loops!Unrecorded, Loops!Working, Loops!SlotLaunchedOnce
<1>5. \A l \in Loop : Ahead(l, state[l])' BY DEF LoopInv, Ahead, Launched
<1>6. ASSUME NEW w \in Worker PROVE WorkerOK(w)'
  <2>1. WorkerOK(w) BY DEF LoopInv
  <2>2. w \in Loops!Unrecorded => \A x \in Up : upPc'[x] # "idle" =>
                                     upPc'[x] \in Slotted /\ args[w].loop \notin todo'[x]
    BY <2>1, LoopTypes DEF WorkerOK, LoopInv, OneUp
  <2>3. QED
    BY <2>1, <2>2 DEF WorkerOK, Ahead, Launched, Loops!Unrecorded, Loops!Running, Loops!Working
<1>7. ASSUME NEW x \in Up PROVE UpOK(x)'
  <2>1. CASE x = u BY <2>1
  <2>2. CASE x # u
    <3>1. UpOK(x) BY DEF LoopInv
    <3>2. QED
      BY <2>2, <3>1 DEF UpOK, Launched, NoneOn, Loops!Unrecorded, Loops!Running, Loops!Working
  <2>3. QED BY <2>1, <2>2
<1>8. QED BY <1>1, <1>3, <1>4, <1>5, <1>6, <1>7 DEF LoopInv

(* A step of a worker, which writes no file but its loop's.                *)
LEMMA WorkerMoves ==
  ASSUME LoopInv, NEW w \in Worker, UNCHANGED <<slot, overdue, version, upPc, todo, work, args>>,
         \A x \in Worker : x # w => workerPc'[x] = workerPc[x] /\ read'[x] = read[x],
         \A l \in Loop : l # args[w].loop => state'[l] = state[l],
         \A l \in Loop : state[l] # None => state'[l] # None,
         Loops!TypeOK',
         Loops!Running(w)' => Loops!Running(w),
         Loops!Running(w) \/ state' = state,
         w \in Loops!Unrecorded' => w \in Loops!Unrecorded,
         WorkerOK(w)',
         \A l \in Loop : l = args[w].loop => Ahead(l, state[l])',
         \A n \in Nat : Past(n) => Past(n)'
  PROVE  LoopInv'
<1> USE DEF Loops!Running, Loops!Unrecorded, Loops!Working
<1>1. OneUp' BY DEF LoopInv, OneUp
<1>2. InTime'
  <2>1. Past(slot)' BY LoopTypes DEF LoopInv, InTime, Past
  <2>2. ASSUME NEW x \in Up, upPc[x] \in Slotted PROVE Past(work[x].slot)'
    <3>1. PICK n : n = work[x].slot OBVIOUS
    <3>2. n \in Nat /\ Past(n) BY <2>2, <3>1, LoopTypes DEF LoopInv, InTime
    <3>3. Past(n)' BY <3>2
    <3>4. QED BY <3>1, <3>3 DEF Past
  <2>3. QED BY <2>1, <2>2 DEF LoopInv, InTime
<1>3. OneRuns' /\ Loops!SlotLaunchedOnce'
  BY DEF LoopInv, OneRuns, Loops!SlotLaunchedOnce
<1>4. \A l : Launched(l)' = Launched(l) BY DEF Launched
<1>5. ASSUME NEW l \in Loop PROVE Ahead(l, state[l])'
  <2>1. CASE l = args[w].loop BY <2>1
  <2>2. CASE l # args[w].loop BY <1>4, <2>2 DEF LoopInv, Ahead
  <2>3. QED BY <2>1, <2>2
<1>6. \A x \in Worker : x # w /\ Loops!Running(x) => state'[args[x].loop] = state[args[x].loop]
  <2>1. \A x \in Worker : Loops!Running(x) => args[x].loop \in Loop BY RunsOn
  <2>2. QED BY <2>1 DEF LoopInv, OneRuns
<1>7. ASSUME NEW x \in Worker PROVE WorkerOK(x)'
  <2>1. CASE x = w BY <2>1
  <2>2. CASE x # w
    <3>1. WorkerOK(x) BY DEF LoopInv
    <3>2. QED BY <1>4, <1>6, <2>2, <3>1 DEF WorkerOK, Ahead
  <2>3. QED BY <2>1, <2>2
<1>8. ASSUME NEW u \in Up PROVE UpOK(u)'
  <2>1. UpOK(u) BY DEF LoopInv
  <2>2. upPc[u] = "spawn" => state'[work[u].loop] = state[work[u].loop]
    BY <2>1 DEF UpOK, NoneOn
  <2>3. NoneOn(work[u].loop) => NoneOn(work[u].loop)' BY DEF NoneOn
  <2>4. \A x \in Worker : Loops!Running(x)' => Loops!Running(x) OBVIOUS
  <2>5. upPc[u] \in {"stop", "terminate", "stopped"} => \A l \in todo[u] : state'[l] # None
    BY <2>1, LoopTypes DEF LoopInv, UpOK
  <2>6. QED BY <1>4, <2>1, <2>2, <2>3, <2>4, <2>5 DEF UpOK
<1>9. QED BY <1>1, <1>2, <1>3, <1>5, <1>7, <1>8 DEF LoopInv

(* The clock and the versions.                                             *)
LEMMA ClockKeeps ==
  ASSUME LoopInv, Loops!GrowOld \/ Loops!NextSlot \/ Loops!Compose
  PROVE  LoopInv'
<1> USE DEF Loops!GrowOld, Loops!NextSlot, Loops!Compose, Loops!Quiet, Loops!Careful,
            Loops!upVars, Loops!workerVars, Loops!clockVars
<1>1. /\ UNCHANGED <<state, upPc, todo, work, workerPc, args, read, faults>>
      /\ slot' >= slot /\ version' >= version /\ version' \in 1 .. MaxVersion
      /\ slot' \in 1 .. MaxSlot
      /\ version' = version \/ (Loops!Unrecorded = {} /\ \A u \in Up : upPc[u] = "idle")
  BY LoopTypes DEF LoopInv
<1>2. Loops!TypeOK' BY <1>1 DEF LoopInv, Loops!TypeOK
<1>3. OneUp'
  <2>1. \A x \in Worker : args[x] # None => args[x].version <= version'
    BY <1>1, LoopTypes, LoopFields DEF LoopInv, OneUp
  <2>2. QED BY <1>1, <2>1 DEF LoopInv, OneUp
<1>4. InTime'
  <2>1. \A n : Past(n) => Past(n)' BY <1>1 DEF Past
  <2>2. Past(slot)'
    <3>1. \A l \in Loop : state[l] # None => state[l].slot <= slot'
      BY <1>1, LoopTypes, LoopFields DEF LoopInv, InTime, Past
    <3>2. \A w \in Worker : read[w] # None => read[w].slot <= slot'
      BY <1>1, LoopTypes, LoopFields DEF LoopInv, InTime, Past
    <3>3. QED BY <1>1, <3>1, <3>2 DEF Past
  <2>3. ASSUME NEW u \in Up, upPc[u] # "idle", work[u].run # None PROVE work[u].run.slot <= slot'
    <3>1. work[u].run \in Loops!Runs BY <2>3, LoopTypes, LoopFields DEF LoopInv
    <3>2. work[u].run.slot \in Nat BY <3>1, LoopFields
    <3>3. QED BY <1>1, <2>3, <3>2, LoopTypes DEF LoopInv, InTime
  <2>4. ASSUME NEW u \in Up, upPc[u] \in Slotted
        PROVE  work[u].slot \in 1 .. slot' /\ Past(work[u].slot)'
    <3>1. work[u].slot \in 1 .. slot /\ Past(work[u].slot) BY <2>4 DEF LoopInv, InTime
    <3>2. QED BY <1>1, <3>1, LoopTypes DEF LoopInv, Past
  <2>5. QED BY <1>1, <2>2, <2>3, <2>4 DEF InTime
<1>5. OneRuns' /\ Loops!SlotLaunchedOnce'
  BY <1>1 DEF LoopInv, OneRuns, Loops!SlotLaunchedOnce, Loops!Running, Loops!Unrecorded,
              Loops!Working
<1>6. version' = version \/ \A l : Launched(l)' = {}
  BY <1>1, LoopTypes, LoopFields DEF LoopInv, OneUp, Launched
<1>7. ASSUME NEW l \in Loop PROVE Ahead(l, state[l])'
  <2>1. CASE version' = version BY <1>1, <2>1 DEF LoopInv, Ahead, Launched
  <2>2. CASE Launched(l)' = {} BY <2>2 DEF Ahead
  <2>3. QED BY <1>6, <2>1, <2>2
<1>8. ASSUME NEW w \in Worker PROVE WorkerOK(w)'
  <2>1. WorkerOK(w) BY DEF LoopInv
  <2>2. workerPc[w] \in {"close", "refuse"} => Ahead(args[w].loop, read[w])'
    BY <1>1, <1>6, <2>1 DEF WorkerOK, Ahead, Launched
  <2>3. QED
    BY <1>1, <2>1, <2>2 DEF WorkerOK, Loops!Unrecorded, Loops!Running, Loops!Working
<1>9. ASSUME NEW u \in Up PROVE UpOK(u)'
  <2>1. UpOK(u) BY DEF LoopInv
  <2>2. CASE version' = version
    BY <1>1, <2>1, <2>2 DEF UpOK, Launched, NoneOn, Loops!Unrecorded, Loops!Running, Loops!Working
  <2>3. CASE upPc[u] = "idle" BY <1>1, <2>3 DEF UpOK
  <2>4. QED BY <1>1, <2>2, <2>3
<1>10. QED BY <1>2, <1>3, <1>4, <1>5, <1>7, <1>8, <1>9 DEF LoopInv

(* A worker that is launched, records itself, ends or is killed            *)
(* (loop_supervisor.rs worker_started, worker_finished).                   *)
LEMMA WorkerKeeps ==
  ASSUME LoopInv, NEW w \in Worker, Loops!WorkerStep(w) \/ Loops!KillWorker(w)
  PROVE  LoopInv'
<1> PICK l : l = args[w].loop OBVIOUS
<1> USE DEF Loops!Running, Loops!Unrecorded, Loops!Working, Loops!WorkerGoto, Loops!upVars,
            Loops!workerVars, Loops!clockVars
<1>1. WorkerOK(w) /\ \A k \in Loop : Ahead(k, state[k]) BY DEF LoopInv
<1>2. /\ state \in [Loop -> Loops!Runs \cup {None}] /\ read \in [Worker -> Loops!Runs \cup {None}]
      /\ workerPc \in [Worker -> {"none", "started", "record", "running", "finish", "fail",
                                  "close", "refuse", "orphan", "gone"}]
      /\ \A x \in Worker : workerPc[x] = "none" <=> args[x] = None
      /\ faults \in 0 .. MaxFaults /\ version \in 1 .. MaxVersion
  BY LoopTypes DEF LoopInv
<1>3. Loops!Running(w) => /\ l \in Loop /\ args[w].slot \in 1 .. MaxSlot
                          /\ args[w].version \in 1 .. MaxVersion
  BY RunsOn
<1>4. ASSUME UNCHANGED <<slot, overdue, version, upPc, todo, work, args>>,
             workerPc' \in [Worker -> {"started", "record", "running", "finish", "fail", "close",
                                       "refuse", "orphan", "gone", "none"}],
             \A x \in Worker : x # w => workerPc'[x] = workerPc[x],
             workerPc[w] # "none" /\ workerPc'[w] # "none",
             state' \in [Loop -> Loops!Runs \cup {None}],
             read' \in [Worker -> Loops!Runs \cup {None}], faults' \in 0 .. MaxFaults
      PROVE  Loops!TypeOK'
  BY <1>2, <1>4 DEF LoopInv, Loops!TypeOK
<1>5. ASSUME UNCHANGED <<slot, overdue, version, upPc, todo, work, args, state>>,
             workerPc[w] # "none",
             NEW label \in {"record", "running", "finish", "fail", "close", "refuse", "orphan",
                            "gone"},
             workerPc' = [workerPc EXCEPT ![w] = label],
             read' = read \/ (Loops!Running(w) /\ read' = [read EXCEPT ![w] = state[l]])
                          \/ read' = [read EXCEPT ![w] = None],
             faults' \in 0 .. MaxFaults,
             label \notin {"orphan", "gone"} => Loops!Running(w),
             label = "record" => w \in Loops!Unrecorded, WorkerOK(w)'
      PROVE  LoopInv'
  <2>1. Loops!TypeOK' BY <1>2, <1>3, <1>4, <1>5
  <2>2. ASSUME NEW n \in Nat, Past(n) PROVE Past(n)' BY <1>2, <1>3, <1>5, <2>2 DEF Past
  <2>3. \A k \in Loop : Ahead(k, state[k])' BY <1>1, <1>5 DEF Ahead, Launched
  <2>4. \A x \in Worker : x # w => workerPc'[x] = workerPc[x] /\ read'[x] = read[x]
    BY <1>2, <1>5
  <2>5. workerPc'[w] = label BY <1>2, <1>5
  <2>6. /\ Loops!Running(w)' => Loops!Running(w)
        /\ w \in Loops!Unrecorded' => w \in Loops!Unrecorded
    BY <1>5, <2>5
  <2>7. QED BY <1>5, <2>1, <2>2, <2>3, <2>4, <2>6, WorkerMoves
<1>6. CASE Loops!CheckIn(w)
  <2>1. workerPc[w] = "started" BY <1>6 DEF Loops!CheckIn
  <2>2. state[l] = Loops!Run(version, args[w].slot, "starting", None) /\ args[w].version = version
    BY <1>1, <2>1 DEF WorkerOK
  <2>3. Loops!Mine(w, state[l]) BY <2>2 DEF Loops!Mine, Loops!Run
  <2>4. workerPc' = [workerPc EXCEPT ![w] = "record"]
        /\ UNCHANGED <<slot, overdue, version, upPc, todo, work, args, state, read, faults>>
    BY <1>6, <2>2, <2>3 DEF Loops!CheckIn
  <2>5. WorkerOK(w)' BY <1>1, <1>2, <2>1, <2>4 DEF WorkerOK
  <2>6. QED BY <1>2, <1>5, <2>1, <2>4, <2>5
<1>7. CASE Loops!WorkEnds(w)
  <2>1. PICK label \in {"finish", "fail"} :
           /\ workerPc' = [workerPc EXCEPT ![w] = label] /\ workerPc[w] = "running"
           /\ UNCHANGED <<slot, overdue, version, upPc, todo, work, args, state, read, faults>>
    BY <1>7 DEF Loops!WorkEnds
  <2>2. WorkerOK(w)' BY <1>1, <1>2, <2>1 DEF WorkerOK
  <2>3. QED BY <1>2, <1>5, <2>1, <2>2
<1>8. CASE Loops!ReadOwn(w)
  <2>1. PICK label \in {"close", "refuse"} :
           /\ workerPc' = [workerPc EXCEPT ![w] = label] /\ workerPc[w] \in {"finish", "fail"}
           /\ read' = [read EXCEPT ![w] = state[l]]
           /\ UNCHANGED <<slot, overdue, version, upPc, todo, work, args, state, faults>>
    BY <1>8 DEF Loops!ReadOwn
  <2>2. read'[w] = state[l] /\ workerPc'[w] = label BY <1>2, <2>1
  <2>3. Ahead(l, state[l]) /\ l \in Loop BY <1>1, <1>3, <2>1
  <2>4. Ahead(args[w].loop, read[w])' BY <2>1, <2>2, <2>3 DEF Ahead, Launched
  <2>5. WorkerOK(w)' BY <1>1, <2>1, <2>2, <2>4 DEF WorkerOK
  <2>6. QED BY <1>2, <1>5, <2>1, <2>5
<1>9. CASE Loops!OrphanEnds(w)
  <2>1. /\ workerPc' = [workerPc EXCEPT ![w] = "gone"] /\ workerPc[w] = "orphan"
        /\ UNCHANGED <<slot, overdue, version, upPc, todo, work, args, state, read, faults>>
    BY <1>9 DEF Loops!OrphanEnds
  <2>2. WorkerOK(w)' BY <1>2, <2>1 DEF WorkerOK
  <2>3. QED BY <1>2, <1>5, <2>1, <2>2
<1>10. CASE Loops!KillWorker(w)
  <2>1. /\ Loops!Running(w) /\ faults' \in 0 .. MaxFaults
        /\ UNCHANGED <<slot, overdue, version, upPc, todo, work, args, state>>
    BY <1>2, <1>10 DEF Loops!KillWorker, Loops!Fault
  <2>2. \/ workerPc' = [workerPc EXCEPT ![w] = "gone"] /\ read' = [read EXCEPT ![w] = None]
        \/ workerPc' = [workerPc EXCEPT ![w] = "orphan"] /\ read' = read
    BY <1>10 DEF Loops!KillWorker, Loops!Exit
  <2>3. WorkerOK(w)' BY <1>2, <2>2 DEF WorkerOK
  <2>4. QED BY <1>5, <2>1, <2>2, <2>3
<1>11. ASSUME NEW run \in Loops!Runs, Loops!Running(w), state' = [state EXCEPT ![l] = run],
              UNCHANGED <<slot, overdue, version, upPc, todo, work, args, faults>>,
              \/ workerPc' = [workerPc EXCEPT ![w] = "running"]
              \/ workerPc' = [workerPc EXCEPT ![w] = "gone"],
              read' = read \/ read' = [read EXCEPT ![w] = None],
              Ahead(l, run), WorkerOK(w)',
              \/ run.slot = state[l].slot /\ state[l] # None
              \/ run.slot = read[w].slot /\ read[w] # None
       PROVE  LoopInv'
  <2>1. l \in Loop /\ workerPc[w] # "none" BY <1>3, <1>11
  <2>2. Loops!TypeOK' BY <1>2, <1>4, <1>11, <2>1
  <2>3. ASSUME NEW n \in Nat, Past(n) PROVE Past(n)' BY <1>2, <1>11, <2>1, <2>3 DEF Past
  <2>4. state'[l] = run BY <1>2, <1>11, <2>1
  <2>5. Ahead(l, state[l])' BY <1>11, <2>4 DEF Ahead, Launched
  <2>6. \A x \in Worker : x # w => workerPc'[x] = workerPc[x] /\ read'[x] = read[x]
    BY <1>2, <1>11
  <2>7. \A k \in Loop : k # l => state'[k] = state[k] BY <1>2, <1>11
  <2>8. w \notin Loops!Unrecorded' BY <1>2, <1>11
  <2>9. \A k \in Loop : state[k] # None => state'[k] # None
    BY <2>4, <2>7, <1>11 DEF Loops!Runs
  <2>10. QED BY <1>11, <2>2, <2>3, <2>5, <2>6, <2>7, <2>8, <2>9, WorkerMoves
<1>12. CASE Loops!RecordRunning(w)
  <2> PICK run : run = Loops!Run(args[w].version, args[w].slot, "running", w) OBVIOUS
  <2>1. /\ workerPc[w] = "record" /\ state' = [state EXCEPT ![l] = run] /\ read' = read
        /\ workerPc' = [workerPc EXCEPT ![w] = "running"]
        /\ UNCHANGED <<slot, overdue, version, upPc, todo, work, args, faults>>
    BY <1>12 DEF Loops!RecordRunning
  <2>2. state[l] = Loops!Run(version, args[w].slot, "starting", None) /\ args[w].version = version
    BY <1>1, <2>1 DEF WorkerOK
  <2>3. l \in Loop /\ Loops!Running(w) BY <1>3, <2>1
  <2>4. /\ run \in Loops!Runs /\ run.slot = args[w].slot /\ run.status = "running" /\ run.pid = w
        /\ run.version = version
    BY <1>3, <2>2, <2>3, RunTyped DEF Loops!Status
  <2>5. state[l] # None /\ state[l].slot = args[w].slot
    BY <1>3, <2>2, <2>3, RunTyped DEF Loops!Status
  <2>6. Ahead(l, run) BY <1>1, <2>3, <2>4, <2>5 DEF Ahead
  <2>7. state'[l] = run /\ workerPc'[w] = "running" BY <1>2, <2>1, <2>3
  <2>8. WorkerOK(w)' BY <2>1, <2>4, <2>7 DEF WorkerOK
  <2>9. \/ run.slot = state[l].slot /\ state[l] # None
        \/ run.slot = read[w].slot /\ read[w] # None
    BY <2>4, <2>5
  <2> HIDE DEF Loops!Running, Loops!Unrecorded, Loops!Working
  <2>10. \/ workerPc' = [workerPc EXCEPT ![w] = "running"]
         \/ workerPc' = [workerPc EXCEPT ![w] = "gone"]
    BY <2>1
  <2>11. read' = read \/ read' = [read EXCEPT ![w] = None] BY <2>1
  <2>12. run \in Loops!Runs BY <2>4
  <2>13. Loops!Running(w) BY <2>3
  <2>14. state' = [state EXCEPT ![l] = run] BY <2>1
  <2>15. UNCHANGED <<slot, overdue, version, upPc, todo, work, args, faults>> BY <2>1
  <2>16. QED BY ONLY <1>11, <2>6, <2>8, <2>9, <2>10, <2>11, <2>12, <2>13, <2>14, <2>15
<1>13. CASE Loops!WriteOwn(w)
  <2>1. workerPc[w] \in {"close", "refuse"} BY <1>13 DEF Loops!WriteOwn
  <2>2. read[w] \in Loops!Runs /\ Ahead(l, read[w]) /\ l \in Loop
    BY <1>1, <1>2, <1>3, <2>1 DEF WorkerOK
  <2>3. PICK st \in {"skipped", "failed", "completed"} :
           state' = [state EXCEPT ![l] = Loops!Run(read[w].version, read[w].slot, st, None)]
    BY <1>13, <2>2 DEF Loops!WriteOwn
  <2> PICK run : run = Loops!Run(read[w].version, read[w].slot, st, None) OBVIOUS
  <2>4. /\ run \in Loops!Runs /\ run.slot = read[w].slot /\ run.version = read[w].version
        /\ run.status # "held"
    <3>1. read[w].version \in 1 .. MaxVersion /\ read[w].slot \in 1 .. MaxSlot
      BY <2>2, LoopFields
    <3>2. st \in Loops!Status /\ st # "held" BY <2>3 DEF Loops!Status
    <3>3. QED BY <3>1, <3>2, RunTyped
  <2>5. Ahead(l, run) BY <2>2, <2>4 DEF Ahead
  <2>6. /\ workerPc' = [workerPc EXCEPT ![w] = "gone"] /\ read' = [read EXCEPT ![w] = None]
        /\ UNCHANGED <<slot, overdue, version, upPc, todo, work, args, faults>>
    BY <1>13 DEF Loops!WriteOwn, Loops!Exit
  <2>7. WorkerOK(w)' BY <1>2, <2>6 DEF WorkerOK
  <2>8. QED BY <1>11, <2>1, <2>2, <2>3, <2>4, <2>5, <2>6, <2>7
<1>14. QED
  BY <1>6, <1>7, <1>8, <1>9, <1>10, <1>12, <1>13 DEF Loops!WorkerStep

(* A step of `up` that writes one loop's file: what it writes is true of   *)
(* whoever runs on the loop, and of all that was launched there.           *)
LEMMA UpWrites ==
  ASSUME LoopInv, NEW u \in Up, upPc[u] # "idle",
         UNCHANGED <<slot, overdue, version, workerPc, args, read>>,
         \A x \in Up : x # u => upPc'[x] = upPc[x] /\ work'[x] = work[x] /\ todo'[x] = todo[x],
         Loops!TypeOK',
         NEW l \in Loop, NEW run \in Loops!Runs, state'[l] = run,
         \A k \in Loop : k # l => state'[k] = state[k],
         run.slot <= slot, Ahead(l, run),
         \A w \in Worker : Loops!Running(w) /\ args[w].loop = l =>
             w \notin Loops!Unrecorded /\ run.pid = w /\ run.status \in {"running", "skipped"},
         upPc'[u] # "idle" =>
             /\ work'[u].version = version
             /\ work'[u].run # None => work'[u].run.slot <= slot
             /\ upPc[u] \in Slotted => upPc'[u] \in Slotted /\ todo'[u] \subseteq todo[u],
         upPc'[u] \in Slotted =>
             upPc[u] \in Slotted /\ work'[u].slot = work[u].slot /\ run.slot <= work[u].slot,
         UpOK(u)'
  PROVE  LoopInv'
<1>1. OneUp' BY DEF LoopInv, OneUp
<1>2. /\ state \in [Loop -> Loops!Runs \cup {None}] /\ state'[l] = run
      /\ \A k \in Loop : k # l => state'[k] = state[k]
  BY LoopTypes DEF LoopInv
<1>3. \A n : Past(n) /\ run.slot <= n => Past(n)' BY <1>2 DEF Past
<1>4. \A x \in Up : x # u => upPc[x] = "idle" /\ upPc'[x] = "idle" BY DEF LoopInv, OneUp
<1>5. InTime'
  <2>1. Past(slot) /\ slot' = slot BY DEF LoopInv, InTime
  <2>2. Past(slot)' BY <1>3, <2>1 DEF Past
  <2>3. ASSUME NEW x \in Up, upPc'[x] # "idle", work'[x].run # None PROVE work'[x].run.slot <= slot'
    BY <1>4, <2>3
  <2>4. ASSUME NEW x \in Up, upPc'[x] \in Slotted
        PROVE  work'[x].slot \in 1 .. slot' /\ Past(work[x].slot)'
    <3>1. x = u BY <1>4, <2>4 DEF Slotted
    <3>2. PICK n : n = work[u].slot OBVIOUS
    <3>3. n \in 1 .. slot /\ Past(n) /\ run.slot <= n /\ work'[u].slot = n
      BY <2>4, <3>1, <3>2 DEF LoopInv, InTime
    <3>4. Past(n)' BY <1>3, <3>3
    <3>5. QED BY <3>1, <3>3, <3>4 DEF Past
  <2>5. QED BY <2>2, <2>3, <2>4 DEF InTime
<1>6. OneRuns' /\ Loops!SlotLaunchedOnce'
  BY DEF LoopInv, OneRuns, Loops!Running, Loops!Unrecorded, Loops!Working, Loops!SlotLaunchedOnce
<1>7. ASSUME NEW k \in Loop PROVE Ahead(k, state[k])'
  <2>1. CASE k = l BY <1>2, <2>1 DEF Ahead, Launched
  <2>2. CASE k # l BY <1>2, <2>2 DEF LoopInv, Ahead, Launched
  <2>3. QED BY <2>1, <2>2
<1>8. ASSUME NEW w \in Worker PROVE WorkerOK(w)'
  <2>1. WorkerOK(w) BY DEF LoopInv
  <2>2. w \in Loops!Unrecorded => \A x \in Up : upPc'[x] # "idle" =>
                                     upPc'[x] \in Slotted /\ args[w].loop \notin todo'[x]
    BY <1>4, <2>1 DEF WorkerOK
  <2>3. Loops!Running(w) => args[w].loop \in Loop BY RunsOn
  <2>4. w \in Loops!Unrecorded => Loops!Running(w)
    BY DEF Loops!Unrecorded, Loops!Running, Loops!Working
  <2>5. run # None BY DEF Loops!Runs
  <2>6. w \in Loops!Unrecorded => state'[args[w].loop] = state[args[w].loop]
    BY <1>2, <2>3, <2>4
  <2>7. Loops!Running(w) /\ w \notin Loops!Unrecorded =>
          /\ state'[args[w].loop] # None /\ state'[args[w].loop].pid = w
          /\ state'[args[w].loop].status \in {"running", "skipped"}
    BY <1>2, <2>1, <2>3, <2>5 DEF WorkerOK
  <2>8. (w \in Loops!Unrecorded' <=> w \in Loops!Unrecorded)
        /\ (Loops!Running(w)' <=> Loops!Running(w))
    BY DEF Loops!Unrecorded, Loops!Running, Loops!Working
  <2>9. QED BY <2>1, <2>2, <2>6, <2>7, <2>8 DEF WorkerOK, Ahead, Launched
<1>9. ASSUME NEW x \in Up PROVE UpOK(x)' BY <1>4, <1>9 DEF UpOK
<1>10. QED BY <1>1, <1>5, <1>6, <1>7, <1>8, <1>9 DEF LoopInv

(* `ostrom up` (loop_supervisor.rs up, stop_obsolete, launch): each of its *)
(* steps that only reads, judges, or leaves.                               *)
LEMMA UpReads ==
  ASSUME LoopInv, NEW u \in Up,
         \/ Loops!Start(u) \/ Loops!KeepRun(u) \/ Loops!JudgeObsolete(u) \/ Loops!ReadClock(u)
         \/ Loops!Leaves(u) \/ Loops!Judge(u) \/ Loops!Finish(u) \/ Loops!UpStops(u)
         \/ Loops!Terminate(u) /\ upPc'[u] = "idle"
  PROVE  LoopInv'
<1> USE DEF Loops!UpGoto, Loops!Leave, Loops!upVars, Loops!workerVars, Loops!clockVars
<1>1. /\ slot \in Nat \ {0} /\ slot \in 1 .. MaxSlot /\ version \in 1 .. MaxVersion
      /\ state \in [Loop -> Loops!Runs \cup {None}]
      /\ upPc \in [Up -> {"idle", "stop", "terminate", "stopped", "loops", "write", "spawn"}]
      /\ todo \in [Up -> SUBSET Loop] /\ work \in [Up -> Loops!Works \cup {None}]
      /\ upPc[u] = "idle" <=> work[u] = None
      /\ faults \in 0 .. MaxFaults
  BY LoopTypes DEF LoopInv
<1>2. /\ UpOK(u)
      /\ upPc[u] # "idle" => work[u].version = version /\ work[u] \in Loops!Works
      /\ upPc[u] # "idle" /\ work[u].run # None => work[u].run.slot <= slot
      /\ upPc[u] \in Slotted => work[u].slot \in 1 .. slot /\ Past(work[u].slot)
      /\ Past(slot)
  BY <1>1 DEF LoopInv, OneUp, InTime
<1>3. ASSUME UNCHANGED <<slot, overdue, version, state, workerPc, args, read>>,
             faults' \in 0 .. MaxFaults,
             NEW label \in {"idle", "stop", "terminate", "loops", "write"},
             NEW loops \in SUBSET Loop, NEW job \in Loops!Works \cup {None}, upPc' = [upPc EXCEPT ![u] = label],
             todo' = [todo EXCEPT ![u] = loops], work' = [work EXCEPT ![u] = job],
             label = "idle" <=> job = None,
             upPc[u] = "idle" => Loops!Unrecorded = {} /\ \A x \in Up : upPc[x] = "idle",
             label # "idle" =>
                 /\ job.version = version
                 /\ job.run # None => job.run.slot <= slot
                 /\ upPc[u] \in Slotted => label \in Slotted /\ loops \subseteq todo[u],
             label \in Slotted => job.slot \in 1 .. slot /\ Past(job.slot),
             UpOK(u)'
      PROVE  LoopInv'
  <2>1. upPc'[u] = label /\ todo'[u] = loops /\ work'[u] = job BY <1>1, <1>3
  <2>2. \A x \in Up : x # u => upPc'[x] = upPc[x] /\ work'[x] = work[x] /\ todo'[x] = todo[x]
    BY <1>1, <1>3
  <2>3. Loops!TypeOK'
    <3>1. \A x \in Up : upPc'[x] = "idle" <=> work'[x] = None
      BY <1>3, <2>1, <2>2, LoopTypes DEF LoopInv
    <3>2. /\ upPc' \in [Up -> {"idle", "stop", "terminate", "stopped", "loops", "write", "spawn"}]
          /\ todo' \in [Up -> SUBSET Loop] /\ work' \in [Up -> Loops!Works \cup {None}]
      BY <1>1, <1>3
    <3>3. QED BY <1>3, <3>1, <3>2 DEF LoopInv, Loops!TypeOK
  <2>4. QED BY <1>3, <2>1, <2>2, <2>3, UpMoves
<1>4. ASSUME UNCHANGED <<slot, overdue, version, state, workerPc, args, read>>,
             faults' \in 0 .. MaxFaults, upPc[u] # "idle", Loops!Leave(u)
      PROVE  LoopInv'
  <2>1. upPc'[u] = "idle" BY <1>1, <1>4
  <2>2. UpOK(u)' BY <2>1 DEF UpOK
  <2>3. QED BY <1>3, <1>4, <2>2 DEF Slotted
<1>5. CASE Loops!Start(u)
  <2> PICK loops : loops = {l \in Loop : state[l] # None} OBVIOUS
  <2> PICK job : job = [version |-> version, slot |-> 0, old |-> FALSE, loop |-> None,
                        run |-> None, next |-> None]
    OBVIOUS
  <2>1. /\ upPc' = [upPc EXCEPT ![u] = "stop"] /\ todo' = [todo EXCEPT ![u] = loops]
        /\ work' = [work EXCEPT ![u] = job]
        /\ UNCHANGED <<slot, overdue, version, state, workerPc, args, read, faults>>
        /\ Loops!Unrecorded = {} /\ \A x \in Up : upPc[x] = "idle"
    BY <1>5 DEF Loops!Start, Loops!Quiet
  <2>2. job \in Loops!Works /\ job # None
    <3>1. job \in Loops!Works BY <1>1 DEF Loops!Works
    <3>2. QED BY <3>1
  <2>3. upPc'[u] = "stop" BY <1>1, <2>1
  <2>4. UpOK(u)' BY <1>1, <2>1, <2>3 DEF UpOK
  <2>5. QED BY <1>1, <1>3, <2>1, <2>2, <2>4 DEF Slotted
<1>6. CASE Loops!KeepRun(u) \/ Loops!Leaves(u)
  <2>1. PICK l \in todo[u] : todo' = [todo EXCEPT ![u] = todo[u] \ {l}]
    BY <1>1, <1>6 DEF Loops!KeepRun, Loops!Leaves
  <2>2. /\ UNCHANGED <<slot, overdue, version, state, upPc, work, workerPc, args, read, faults>>
        /\ upPc[u] \in {"stop", "loops"}
    BY <1>6 DEF Loops!KeepRun, Loops!Leaves
  <2>3. upPc' = [upPc EXCEPT ![u] = upPc[u]] /\ work' = [work EXCEPT ![u] = work[u]]
    BY <1>1, <2>2
  <2>4. UpOK(u)' BY <1>1, <1>2, <2>1, <2>2 DEF UpOK
  <2>5. work[u] # None /\ work[u] \in Loops!Works BY <1>1, <2>2
  <2>6. todo[u] \ {l} \in SUBSET Loop BY <1>1
  <2>7. QED BY <1>1, <1>2, <1>3, <2>1, <2>2, <2>3, <2>4, <2>5, <2>6 DEF Slotted
<1>7. CASE Loops!JudgeObsolete(u)
  <2>1. PICK l \in todo[u] : Loops!Obsolete(u, l)
                             /\ work' = [work EXCEPT ![u] = Loops!At(u, l, state[l], None)]
    BY <1>7 DEF Loops!JudgeObsolete
  <2> PICK job : job = Loops!At(u, l, state[l], None) OBVIOUS
  <2>2. /\ upPc[u] = "stop" /\ upPc' = [upPc EXCEPT ![u] = "terminate"]
        /\ work' = [work EXCEPT ![u] = job]
        /\ UNCHANGED <<slot, overdue, version, state, todo, workerPc, args, read, faults>>
    BY <1>7, <2>1 DEF Loops!JudgeObsolete
  <2>3. l \in Loop /\ todo[u] \in SUBSET Loop BY <1>1
  <2>4. state[l].version # version BY <1>2, <2>1, <2>2 DEF Loops!Obsolete
  <2>5. state[l] # None BY <1>2, <2>2 DEF UpOK
  <2>6. /\ job.version = version /\ job.run = state[l] /\ job.loop = l /\ job.run.slot <= slot
        /\ job \in Loops!Works
    BY <1>1, <1>2, <2>2, <2>3, <2>5, LoopFields DEF Loops!At, Loops!Works, Past
  <2>7. Launched(l) = {} BY <2>3, <2>4 DEF LoopInv, Ahead
  <2>8. ASSUME NEW w \in Worker, Loops!Running(w), args[w].loop = l PROVE w = state[l].pid
    <3>1. w \notin Loops!Unrecorded BY <2>2 DEF LoopInv, WorkerOK, Slotted
    <3>2. QED BY <2>8, <3>1, RunsOn
  <2>9. upPc'[u] = "terminate" /\ work'[u] = job /\ todo'[u] = todo[u] BY <1>1, <2>2
  <2>10. UpOK(u)'
    BY <1>2, <2>2, <2>5, <2>6, <2>7, <2>8, <2>9
    DEF UpOK, Launched, Loops!Running, Loops!Unrecorded, Loops!Working
  <2>11. todo' = [todo EXCEPT ![u] = todo[u]] BY <1>1, <2>2
  <2>12. QED BY <1>1, <1>3, <2>2, <2>3, <2>6, <2>10, <2>11 DEF Slotted
<1>8. CASE Loops!ReadClock(u)
  <2> PICK job : job = [work[u] EXCEPT !.slot = slot, !.old = overdue] OBVIOUS
  <2>1. /\ upPc[u] = "stop" /\ upPc' = [upPc EXCEPT ![u] = "loops"]
        /\ todo' = [todo EXCEPT ![u] = Loop]
        /\ UNCHANGED <<slot, overdue, version, state, workerPc, args, read, faults>>
    BY <1>8 DEF Loops!ReadClock
  <2>2. work' = [work EXCEPT ![u] = job]
    BY <1>1, <1>8 DEF Loops!ReadClock
  <2>3. work[u] \in Loops!Works BY <1>1, <2>1
  <2>4. overdue \in BOOLEAN BY DEF LoopInv, Loops!TypeOK
  <2>5. /\ job \in Loops!Works /\ job.version = version /\ job.slot = slot
        /\ job.run = work[u].run
    <3>1. job = [version |-> work[u].version, slot |-> slot, old |-> overdue,
                 loop |-> work[u].loop, run |-> work[u].run, next |-> work[u].next]
      BY <2>3 DEF Loops!Works
    <3>2. /\ work[u].loop \in Loop \cup {None} /\ work[u].run \in Loops!Runs \cup {None}
          /\ work[u].next \in Loops!Runs \cup {None} /\ work[u].version = version
      BY <1>2, <2>1, <2>3, LoopFields
    <3>3. slot \in 0 .. MaxSlot BY <1>1
    <3>4. QED BY <1>1, <2>4, <3>1, <3>2, <3>3 DEF Loops!Works
  <2>6. upPc'[u] = "loops" BY <1>1, <2>1
  <2>7. UpOK(u)' BY <2>6 DEF UpOK
  <2>8. slot \in 1 .. slot BY <1>1
  <2>9. QED BY <1>1, <1>2, <1>3, <2>1, <2>2, <2>5, <2>7, <2>8 DEF Slotted
<1>9. CASE Loops!Judge(u)
  <2> PICK l \in todo[u] :
          /\ ~Loops!Settled(state[l], work[u].version, work[u].slot)
          /\ \E run \in Loops!NextRun(u, state[l]) :
                /\ run.status = "held" => Loops!Fault
                /\ run.status # "held" => faults' = faults
                /\ work' = [work EXCEPT ![u] = Loops!At(u, l, state[l], run)]
    BY <1>9 DEF Loops!Judge
  <2> PICK run \in Loops!NextRun(u, state[l]) :
          /\ run.status = "held" => Loops!Fault
          /\ run.status # "held" => faults' = faults
          /\ work' = [work EXCEPT ![u] = Loops!At(u, l, state[l], run)]
    OBVIOUS
  <2>1. /\ ~Loops!Settled(state[l], work[u].version, work[u].slot)
        /\ run \in Loops!NextRun(u, state[l])
        /\ run.status = "held" => Loops!Fault
        /\ run.status # "held" => faults' = faults
        /\ work' = [work EXCEPT ![u] = Loops!At(u, l, state[l], run)]
    OBVIOUS
  <2> PICK job : job = Loops!At(u, l, state[l], run) OBVIOUS
  <2>2. /\ upPc[u] = "loops" /\ upPc' = [upPc EXCEPT ![u] = "write"]
        /\ work' = [work EXCEPT ![u] = job]
        /\ UNCHANGED <<slot, overdue, version, state, todo, workerPc, args, read>>
        /\ faults' \in 0 .. MaxFaults
    <3>1. faults' \in 0 .. MaxFaults
      <4>1. Loops!Fault => faults < MaxFaults /\ faults' = faults + 1 BY DEF Loops!Fault
      <4>2. Loops!Fault \/ faults' = faults BY <2>1
      <4>3. QED BY <1>1, <4>1, <4>2
    <3>2. QED BY <1>9, <2>1, <3>1 DEF Loops!Judge
  <2>3. l \in Loop /\ todo[u] \in SUBSET Loop /\ work[u].version = version
    BY <1>1, <1>2, <2>2
  <2>4. work[u].slot \in 1 .. slot /\ Past(work[u].slot) /\ work[u].slot \in 1 .. MaxSlot
    BY <1>1, <1>2, <2>2 DEF Slotted
  <2> PICK v, s : v = work[u].version /\ s = work[u].slot OBVIOUS
  <2>5. \/ /\ run = Loops!Run(v, s, "skipped", state[l].pid)
           /\ state[l] # None /\ state[l].pid # None /\ Loops!Running(state[l].pid)
        \/ /\ run \in {Loops!Run(v, s, st, None) : st \in {"stale", "stopped", "held", "starting"}}
           /\ ~(/\ state[l] # None /\ Loops!MayBeAlive(state[l]) /\ state[l].pid # None
                /\ Loops!Running(state[l].pid))
    BY <2>1 DEF Loops!NextRun
  <2>6. state[l] # None => state[l].pid \in Worker \cup {None} BY <1>1, <2>3, LoopFields
  <2>7. /\ run \in Loops!Runs /\ run.version = version /\ run.slot = s
        /\ run.status \in {"skipped", "stale", "stopped", "held", "starting"}
        /\ run.status = "skipped" => run.pid = state[l].pid
        /\ run.status # "skipped" => run.pid = None
                /\ ~(/\ state[l] # None /\ Loops!MayBeAlive(state[l]) /\ state[l].pid # None
                     /\ Loops!Running(state[l].pid))
    BY <1>1, <2>3, <2>4, <2>5, <2>6, RunTyped DEF Loops!Status
  <2>8. run # None BY <2>7 DEF Loops!Runs
  <2>9. ASSUME NEW w \in Worker, Loops!Running(w), args[w].loop = l
        PROVE  run.status = "skipped" /\ run.pid = w
    <3>1. WorkerOK(w) BY DEF LoopInv
    <3>2. w \notin Loops!Unrecorded BY <2>2, <3>1, <2>9 DEF WorkerOK
    <3>3. /\ state[l] # None /\ state[l].pid = w /\ state[l].status \in {"running", "skipped"}
      BY <2>9, <3>1, <3>2 DEF WorkerOK
    <3>4. Loops!MayBeAlive(state[l]) BY <3>3 DEF Loops!MayBeAlive
    <3>5. w # None OBVIOUS
    <3>6. QED BY <2>7, <2>9, <3>3, <3>4, <3>5
  <2>10. ASSUME NEW x \in Launched(l)
         PROVE  args[x].slot < s
    <3>1. Ahead(l, state[l]) BY <2>3 DEF LoopInv
    <3>2. /\ state[l] # None /\ state[l].version = version /\ args[x].slot <= state[l].slot
          /\ args[x].slot = state[l].slot => state[l].status # "held"
      BY <2>10, <3>1 DEF Ahead
    <3>3. state[l].slot <= s /\ s \in Nat BY <2>3, <2>4, <3>2 DEF Past
    <3>4. ~(state[l].slot = s /\ state[l].status # "held")
      BY <2>1, <2>3, <3>2 DEF Loops!Settled
    <3>5. args[x] \in Loops!Launches BY <2>10, LoopTypes DEF LoopInv, Launched
    <3>6. args[x].slot \in Nat BY <3>5, LoopFields
    <3>7. state[l].slot \in Nat BY <1>1, <2>3, <3>2, LoopFields
    <3>8. QED BY <3>2, <3>3, <3>4, <3>6, <3>7
  <2>11. upPc'[u] = "write" /\ work'[u] = job /\ todo'[u] = todo[u] BY <1>1, <2>2
  <2>12. /\ job.version = version /\ job.slot = s /\ job.loop = l /\ job.run = state[l]
         /\ job.next = run
    BY <2>3 DEF Loops!At
  <2>13. job \in Loops!Works /\ job # None
    <3>1. work[u] \in Loops!Works BY <1>2, <2>2
    <3>2. QED BY <1>1, <2>3, <2>7, <3>1 DEF Loops!At, Loops!Works
  <2>14. \A x \in Launched(l) : args[x].slot <= s /\ args[x].slot < s
    <3>1. ASSUME NEW x \in Launched(l) PROVE args[x].slot \in Nat
      BY <3>1, LoopTypes, LoopFields DEF LoopInv, Launched
    <3>2. QED BY <2>4, <2>10, <3>1
  <2>15. UpOK(u)'
    <3>1. Launched(l)' = Launched(l) /\ args' = args /\ version' = version
          /\ \A w \in Worker : Loops!Running(w)' <=> Loops!Running(w)
      BY <2>2 DEF Launched, Loops!Running, Loops!Unrecorded, Loops!Working
    <3>2. QED BY <2>3, <2>7, <2>8, <2>9, <2>11, <2>12, <2>14, <3>1 DEF UpOK
  <2>16. todo' = [todo EXCEPT ![u] = todo[u]] BY <1>1, <2>2
  <2>17. state[l] # None => state[l].slot <= slot BY <1>2, <2>3 DEF Past
  <2>18. job.run # None => job.run.slot <= slot BY <2>12, <2>17
  <2>19. job.slot \in 1 .. slot /\ Past(job.slot) BY <2>4, <2>12
  <2>20. QED
    BY <1>1, <1>3, <2>2, <2>3, <2>12, <2>13, <2>15, <2>16, <2>18, <2>19 DEF Slotted
<1>10. CASE Loops!Finish(u)
  BY <1>1, <1>4, <1>10 DEF Loops!Finish
<1>11. CASE Loops!UpStops(u)
  BY <1>1, <1>4, <1>11 DEF Loops!UpStops, Loops!Fault
<1>12. CASE Loops!Terminate(u) /\ upPc'[u] = "idle"
  <2>1. Loops!Leave(u) /\ UNCHANGED <<slot, overdue, version, state, workerPc, args, read, faults>>
    BY <1>1, <1>12 DEF Loops!Terminate
  <2>2. QED BY <1>1, <1>4, <1>12, <2>1 DEF Loops!Terminate
<1>13. QED BY <1>5, <1>6, <1>7, <1>8, <1>9, <1>10, <1>11, <1>12

(* The steps of `ostrom up` that write a file, stop a worker or launch one *)
(* (loop_supervisor.rs terminate, write_state, spawn_worker).              *)
LEMMA UpActs ==
  ASSUME LoopInv, NEW u \in Up,
         \/ Loops!Terminate(u) /\ upPc'[u] # "idle"
         \/ Loops!WriteStopped(u) \/ Loops!WriteRun(u) \/ Loops!Spawn(u) \/ Loops!SpawnFails(u)
  PROVE  LoopInv'
<1> USE DEF Loops!UpGoto, Loops!Leave, Loops!upVars, Loops!workerVars, Loops!clockVars
<1> PICK l, new : l = work[u].loop /\ new = state'[l] OBVIOUS
<1>1. /\ slot \in Nat \ {0} /\ slot \in 1 .. MaxSlot /\ version \in 1 .. MaxVersion
      /\ state \in [Loop -> Loops!Runs \cup {None}]
      /\ upPc \in [Up -> {"idle", "stop", "terminate", "stopped", "loops", "write", "spawn"}]
      /\ todo \in [Up -> SUBSET Loop] /\ work \in [Up -> Loops!Works \cup {None}]
      /\ \A x \in Up : upPc[x] = "idle" <=> work[x] = None
      /\ faults \in 0 .. MaxFaults
  BY LoopTypes DEF LoopInv
<1>2. /\ workerPc \in [Worker -> {"none", "started", "record", "running", "finish", "fail",
                                  "close", "refuse", "orphan", "gone"}]
      /\ args \in [Worker -> Loops!Launches \cup {None}]
      /\ read \in [Worker -> Loops!Runs \cup {None}]
      /\ \A w \in Worker : workerPc[w] = "none" <=> args[w] = None
  BY LoopTypes DEF LoopInv
<1>3. /\ UpOK(u)
      /\ upPc[u] # "idle" => work[u].version = version /\ work[u] \in Loops!Works
      /\ upPc[u] # "idle" /\ work[u].run # None => work[u].run.slot <= slot
      /\ upPc[u] \in Slotted => work[u].slot \in 1 .. slot /\ Past(work[u].slot)
      /\ Past(slot)
  BY <1>1 DEF LoopInv, OneUp, InTime
<1>4. upPc[u] # "idle" =>
          \A x \in Up : x # u => upPc[x] = "idle"
  BY DEF LoopInv, OneUp
<1>5. ASSUME NEW w \in Worker, Loops!Running(w), upPc[u] # "idle", args[w].loop \in todo[u]
             \/ upPc[u] \notin Slotted
      PROVE  w \notin Loops!Unrecorded
  BY <1>5 DEF LoopInv, WorkerOK
<1>6. ASSUME l \in Loop, new \in Loops!Runs, state' = [state EXCEPT ![l] = new],
             UNCHANGED <<slot, overdue, version, workerPc, args, read>>, faults' \in 0 .. MaxFaults,
             upPc' \in [Up -> {"idle", "stop", "terminate", "stopped", "loops", "write", "spawn"}],
             todo' \in [Up -> SUBSET Loop], work' \in [Up -> Loops!Works \cup {None}],
             \A x \in Up : x # u => upPc'[x] = upPc[x] /\ work'[x] = work[x] /\ todo'[x] = todo[x],
             upPc'[u] = "idle" <=> work'[u] = None, upPc[u] # "idle",
             upPc'[u] # "idle" => work'[u] = work[u], new.slot <= slot, Ahead(l, new),
             \A w \in Worker : Loops!Running(w) /\ args[w].loop = l =>
                 w \notin Loops!Unrecorded /\ new.pid = w /\ new.status \in {"running", "skipped"},
             upPc'[u] # "idle" /\ upPc[u] \in Slotted =>
                 upPc'[u] \in Slotted /\ todo'[u] \subseteq todo[u],
             upPc'[u] \in Slotted => upPc[u] \in Slotted /\ new.slot <= work[u].slot,
             UpOK(u)'
      PROVE  LoopInv'
  <2>1. Loops!TypeOK'
    <3>1. \A x \in Up : upPc'[x] = "idle" <=> work'[x] = None BY <1>1, <1>6
    <3>2. state' \in [Loop -> Loops!Runs \cup {None}] BY <1>1, <1>6
    <3>3. QED BY <1>6, <3>1, <3>2 DEF LoopInv, Loops!TypeOK
  <2>2. upPc'[u] # "idle" =>
            /\ work'[u].version = version
            /\ work'[u].run # None => work'[u].run.slot <= slot
            /\ upPc[u] \in Slotted => upPc'[u] \in Slotted /\ todo'[u] \subseteq todo[u]
    BY <1>3, <1>6
  <2>3. upPc'[u] \in Slotted =>
            upPc[u] \in Slotted /\ work'[u].slot = work[u].slot /\ new.slot <= work[u].slot
    BY <1>6 DEF Slotted
  <2>4. state'[l] = new /\ \A k \in Loop : k # l => state'[k] = state[k] BY <1>1, <1>6
  <2>5. QED BY <1>6, <2>1, <2>2, <2>3, <2>4, UpWrites
<1>7. CASE Loops!Terminate(u) /\ upPc'[u] # "idle"
  <2> PICK p : p = work[u].run.pid OBVIOUS
  <2>1. /\ upPc[u] = "terminate" /\ p # None
        /\ workerPc' = [workerPc EXCEPT ![p] = "gone"] /\ read' = [read EXCEPT ![p] = None]
        /\ upPc' = [upPc EXCEPT ![u] = "stopped"]
        /\ UNCHANGED <<slot, overdue, version, state, todo, work, args, faults>>
    BY <1>1, <1>7 DEF Loops!Terminate
  <2>2. /\ l \in todo[u] /\ work[u].run # None /\ Launched(l) = {}
        /\ \A w \in Worker : Loops!Running(w) /\ args[w].loop = l => w = p
        /\ \A k \in todo[u] : state[k] # None
    BY <1>3, <2>1 DEF UpOK
  <2>3. p \in Worker
    <3>1. work[u].run \in Loops!Runs BY <1>3, <2>1, <2>2, LoopFields
    <3>2. QED BY <2>1, <3>1, LoopFields
  <2>4. workerPc'[p] = "gone" /\ read'[p] = None /\ upPc'[u] = "stopped"
    BY <1>1, <1>2, <2>1, <2>3
  <2>5. \A w \in Worker : w # p => workerPc'[w] = workerPc[w] /\ read'[w] = read[w]
    BY <1>2, <2>1
  <2>6. \A x \in Up : x # u => upPc[x] = "idle" /\ upPc'[x] = "idle" BY <1>1, <1>4, <2>1
  <2>7. Loops!Group(p)
    <3>1. Loops!Group(p) \/ upPc' = [upPc EXCEPT ![u] = "idle"]
      BY <1>7 DEF Loops!Terminate
    <3>2. QED BY <1>1, <1>7, <3>1
  <2>8. workerPc[p] # "none"
    BY <2>7 DEF Loops!Group, Loops!Running, Loops!Unrecorded, Loops!Working
  <2>9. Loops!TypeOK'
    <3>1. \A w \in Worker : workerPc'[w] = "none" <=> args'[w] = None
      BY <1>2, <2>1, <2>4, <2>5, <2>8
    <3>2. \A x \in Up : upPc'[x] = "idle" <=> work'[x] = None BY <1>1, <2>1, <2>4, <2>6
    <3>3. /\ upPc' \in [Up -> {"idle", "stop", "terminate", "stopped", "loops", "write", "spawn"}]
          /\ workerPc' \in [Worker -> {"none", "started", "record", "running", "finish", "fail",
                                       "close", "refuse", "orphan", "gone"}]
          /\ read' \in [Worker -> Loops!Runs \cup {None}]
      BY <1>1, <1>2, <2>1
    <3>4. QED BY <2>1, <3>1, <3>2, <3>3 DEF LoopInv, Loops!TypeOK
  <2>10. \A w \in Worker : (Loops!Running(w)' => Loops!Running(w) /\ w # p)
                           /\ (w \in Loops!Unrecorded' => w \in Loops!Unrecorded)
    BY <2>4, <2>5 DEF Loops!Running, Loops!Unrecorded, Loops!Working
  <2>11. OneUp' BY <2>1, <2>4, <2>6 DEF LoopInv, OneUp
  <2>12. InTime'
    <3>1. Past(slot)' BY <1>3, <2>1, <2>4, <2>5 DEF Past
    <3>2. \A x \in Up : upPc'[x] \notin Slotted BY <2>4, <2>6 DEF Slotted
    <3>3. QED BY <2>1, <3>1, <3>2, <1>3, <2>6 DEF InTime
  <2>13. OneRuns' /\ Loops!SlotLaunchedOnce'
    BY <2>1, <2>10 DEF LoopInv, OneRuns, Loops!SlotLaunchedOnce
  <2>14. \A k \in Loop : Ahead(k, state[k])' BY <2>1 DEF LoopInv, Ahead, Launched
  <2>15. ASSUME NEW w \in Worker PROVE WorkerOK(w)'
    <3>1. CASE w = p
      BY <2>4, <3>1 DEF WorkerOK, Loops!Running, Loops!Unrecorded, Loops!Working
    <3>2. CASE w # p
      <4>1. WorkerOK(w) /\ w \notin Loops!Unrecorded
        BY <2>1 DEF LoopInv, WorkerOK, Slotted
      <4>2. QED
        BY <2>1, <2>5, <2>10, <3>2, <4>1
        DEF WorkerOK, Ahead, Launched, Loops!Running, Loops!Unrecorded, Loops!Working
    <3>3. QED BY <3>1, <3>2
  <2>16. ASSUME NEW x \in Up PROVE UpOK(x)'
    <3>1. CASE x = u
      <4>1. Launched(l)' = {} BY <2>1, <2>2 DEF Launched
      <4>2. NoneOn(l)' BY <2>1, <2>2, <2>10 DEF NoneOn
      <4>3. QED BY <2>1, <2>2, <2>4, <3>1, <4>1, <4>2 DEF UpOK
    <3>2. CASE x # u BY <2>6, <3>2 DEF UpOK
    <3>3. QED BY <3>1, <3>2
  <2>17. QED BY <2>9, <2>11, <2>12, <2>13, <2>14, <2>15, <2>16 DEF LoopInv
<1>8. CASE Loops!WriteStopped(u)
  <2> PICK run : run = Loops!Run(work[u].run.version, work[u].run.slot, "stopped", None) OBVIOUS
  <2>1. /\ upPc[u] = "stopped" /\ state' = [state EXCEPT ![l] = run]
        /\ todo' = [todo EXCEPT ![u] = todo[u] \ {l}] /\ upPc' = [upPc EXCEPT ![u] = "stop"]
        /\ UNCHANGED <<slot, overdue, version, work, workerPc, args, read, faults>>
    BY <1>1, <1>8 DEF Loops!WriteStopped
  <2>2. /\ l \in todo[u] /\ work[u].run # None /\ Launched(l) = {} /\ NoneOn(l)
        /\ \A k \in todo[u] : state[k] # None
    BY <1>3, <2>1 DEF UpOK
  <2>3. l \in Loop /\ todo[u] \in SUBSET Loop /\ todo[u] \ {l} \in SUBSET Loop BY <1>1, <2>2
  <2>4. work[u].run \in Loops!Runs BY <1>3, <2>1, <2>2, LoopFields
  <2>5. run \in Loops!Runs /\ run.slot = work[u].run.slot
    BY <2>4, LoopFields, RunTyped DEF Loops!Status
  <2>6. run.slot <= slot BY <1>3, <2>1, <2>2, <2>5
  <2>7. Ahead(l, run) BY <2>2 DEF Ahead
  <2>8. /\ upPc'[u] = "stop" /\ todo'[u] = todo[u] \ {l}
        /\ \A k \in Loop : k # l => state'[k] = state[k]
    BY <1>1, <2>1
  <2>9. UpOK(u)' BY <2>2, <2>3, <2>8 DEF UpOK
  <2>10. \A w \in Worker : ~(Loops!Running(w) /\ args[w].loop = l) BY <2>2 DEF NoneOn
  <2>11. /\ faults' \in 0 .. MaxFaults
         /\ upPc' \in [Up -> {"idle", "stop", "terminate", "stopped", "loops", "write", "spawn"}]
         /\ todo' \in [Up -> SUBSET Loop] /\ work' \in [Up -> Loops!Works \cup {None}]
         /\ \A x \in Up : x # u => upPc'[x] = upPc[x] /\ work'[x] = work[x] /\ todo'[x] = todo[x]
    BY <1>1, <2>1, <2>3
  <2>12. upPc[u] # "idle" /\ upPc'[u] \notin Slotted /\ upPc[u] \notin Slotted
         /\ upPc'[u] # "idle" /\ work'[u] # None /\ work'[u] = work[u]
    BY <1>1, <2>1, <2>8 DEF Slotted
  <2>13. run = new BY <1>1, <2>1, <2>3
  <2>14. QED BY <1>6, <2>1, <2>3, <2>5, <2>6, <2>7, <2>9, <2>10, <2>11, <2>12, <2>13
<1>9. CASE Loops!WriteRun(u)
  <2> PICK run : run = work[u].next OBVIOUS
  <2> PICK label : label = IF run.status = "starting" THEN "spawn" ELSE "loops" OBVIOUS
  <2>1. /\ upPc[u] = "write" /\ state' = [state EXCEPT ![l] = run]
        /\ todo' = [todo EXCEPT ![u] = todo[u] \ {l}] /\ upPc' = [upPc EXCEPT ![u] = label]
        /\ UNCHANGED <<slot, overdue, version, work, workerPc, args, read, faults>>
    BY <1>1, <1>9 DEF Loops!WriteRun
  <2>2. /\ l \in Loop /\ run # None /\ run.version = version /\ run.slot = work[u].slot
        /\ \A x \in Launched(l) : /\ args[x].slot <= work[u].slot
                                  /\ run.status # "skipped" => args[x].slot < work[u].slot
        /\ l \in todo[u]
        /\ \A w \in Worker : Loops!Running(w) /\ args[w].loop = l =>
               run.status = "skipped" /\ run.pid = w
        /\ run.status # "skipped" => run.pid = None
    BY <1>3, <2>1 DEF UpOK
  <2>3. todo[u] \in SUBSET Loop /\ todo[u] \ {l} \in SUBSET Loop BY <1>1
  <2>4. run \in Loops!Runs BY <1>3, <2>1, <2>2, LoopFields
  <2>5. work[u].slot \in 1 .. slot BY <1>3, <2>1 DEF Slotted
  <2>6. run.slot <= slot /\ run.slot <= work[u].slot BY <1>1, <2>2, <2>5
  <2>7. Ahead(l, run)
    <3>1. ASSUME NEW x \in Launched(l)
          PROVE  args[x].slot <= run.slot /\ (args[x].slot = run.slot => run.status # "held")
      <4>1. args[x].slot <= work[u].slot BY <2>2, <3>1
      <4>2. run.status = "held" => args[x].slot < work[u].slot BY <2>2, <3>1
      <4>3. args[x] \in Loops!Launches BY <1>2, <3>1 DEF Launched
      <4>4. args[x].slot \in Nat BY <4>3, LoopFields
      <4>5. QED BY <2>2, <2>5, <4>1, <4>2, <4>4
    <3>2. QED BY <2>2, <3>1 DEF Ahead
  <2>8. /\ upPc'[u] = label /\ todo'[u] = todo[u] \ {l} /\ work'[u] = work[u] /\ state'[l] = run
    BY <1>1, <2>1, <2>2
  <2>9. label = "spawn" \/ label = "loops" OBVIOUS
  <2>10. UpOK(u)'
    <3>1. CASE label = "loops" BY <2>8, <3>1 DEF UpOK
    <3>2. CASE label = "spawn"
      <4>1. run.status = "starting" BY <3>2
      <4>2. run = Loops!Run(version, work[u].slot, "starting", None)
        <5>1. run = [version |-> run.version, slot |-> run.slot, status |-> run.status,
                     pid |-> run.pid]
          BY <2>4 DEF Loops!Runs
        <5>2. QED BY <2>2, <4>1, <5>1 DEF Loops!Run
      <4>3. NoneOn(l)' /\ Launched(l)' = Launched(l)
        BY <2>1, <2>2, <4>1
        DEF NoneOn, Launched, Loops!Running, Loops!Unrecorded, Loops!Working
      <4>4. \A x \in Launched(l) : args[x].slot <= work[u].slot /\ args[x].slot < work[u].slot
        BY <2>2, <4>1
      <4>5. work'[u].loop = l /\ work'[u].next = run /\ work'[u].slot = work[u].slot
        BY <2>8
      <4>6. /\ upPc'[u] = "spawn" /\ todo'[u] = todo[u] \ {l} /\ state'[l] = run
            /\ args' = args /\ version' = version
        BY <2>1, <2>8, <3>2
      <4>7. QED BY <2>2, <4>2, <4>3, <4>4, <4>5, <4>6 DEF UpOK, Loops!Run
    <3>3. QED BY <2>9, <3>1, <3>2
  <2>11. \A w \in Worker : Loops!Running(w) /\ args[w].loop = l =>
             w \notin Loops!Unrecorded /\ run.pid = w /\ run.status \in {"running", "skipped"}
    BY <1>5, <2>1, <2>2
  <2>12. /\ faults' \in 0 .. MaxFaults
         /\ upPc' \in [Up -> {"idle", "stop", "terminate", "stopped", "loops", "write", "spawn"}]
         /\ todo' \in [Up -> SUBSET Loop] /\ work' \in [Up -> Loops!Works \cup {None}]
         /\ \A x \in Up : x # u => upPc'[x] = upPc[x] /\ work'[x] = work[x] /\ todo'[x] = todo[x]
    <3>1. label \in {"idle", "stop", "terminate", "stopped", "loops", "write", "spawn"} BY <2>9
    <3>2. QED BY <1>1, <2>1, <2>3, <3>1
  <2>13. upPc[u] # "idle" /\ upPc'[u] \in Slotted /\ upPc[u] \in Slotted
         /\ upPc'[u] # "idle" /\ work'[u] # None /\ work'[u] = work[u]
         /\ todo'[u] \subseteq todo[u]
    BY <1>1, <2>1, <2>8, <2>9 DEF Slotted
  <2>14. /\ l \in Loop /\ new \in Loops!Runs /\ state' = [state EXCEPT ![l] = new]
         /\ new.slot <= slot /\ new.slot <= work[u].slot /\ Ahead(l, new)
         /\ \A w \in Worker : Loops!Running(w) /\ args[w].loop = l =>
                w \notin Loops!Unrecorded /\ new.pid = w /\ new.status \in {"running", "skipped"}
    <3>1. run = new BY <2>8
    <3>2. QED BY <2>1, <2>2, <2>4, <2>6, <2>7, <2>11, <3>1
  <2>15. QED BY <1>6, <2>1, <2>10, <2>12, <2>13, <2>14
<1>10. CASE Loops!SpawnFails(u)
  <2> PICK run : run = [work[u].next EXCEPT !.status = "failed"] OBVIOUS
  <2>1. /\ upPc[u] = "spawn" /\ state' = [state EXCEPT ![l] = run] /\ faults' \in 0 .. MaxFaults
        /\ todo' = [todo EXCEPT ![u] = {}] /\ upPc' = [upPc EXCEPT ![u] = "idle"]
        /\ work' = [work EXCEPT ![u] = None]
        /\ UNCHANGED <<slot, overdue, version, workerPc, args, read>>
    <3>1. Loops!Fault BY <1>10 DEF Loops!SpawnFails
    <3>2. faults' \in 0 .. MaxFaults BY <1>1, <3>1 DEF Loops!Fault
    <3>3. QED BY <1>10, <3>2 DEF Loops!SpawnFails
  <2>2. /\ l \in Loop /\ NoneOn(l) /\ work[u].next.version = version
        /\ work[u].next.slot = work[u].slot
        /\ work[u].next # None
        /\ \A x \in Launched(l) : args[x].slot <= work[u].slot
    BY <1>3, <2>1 DEF UpOK
  <2>3. work[u].next \in Loops!Runs BY <1>3, <2>1, <2>2, LoopFields
  <2>4. /\ run \in Loops!Runs /\ run.slot = work[u].slot /\ run.version = version
        /\ run.status = "failed"
    BY <2>2, <2>3 DEF Loops!Runs, Loops!Status
  <2>5. run.slot <= slot
    <3>1. work[u].slot \in 1 .. slot BY <1>3, <2>1 DEF Slotted
    <3>2. QED BY <1>1, <2>4, <3>1
  <2>6. run # None BY <2>4 DEF Loops!Runs
  <2>7. Ahead(l, run) BY <2>2, <2>4, <2>6 DEF Ahead
  <2>8. upPc'[u] = "idle" BY <1>1, <2>1
  <2>9. UpOK(u)' BY <2>8 DEF UpOK
  <2>10. \A w \in Worker : ~(Loops!Running(w) /\ args[w].loop = l) BY <2>2 DEF NoneOn
  <2>11. /\ faults' \in 0 .. MaxFaults
         /\ upPc' \in [Up -> {"idle", "stop", "terminate", "stopped", "loops", "write", "spawn"}]
         /\ todo' \in [Up -> SUBSET Loop] /\ work' \in [Up -> Loops!Works \cup {None}]
         /\ \A x \in Up : x # u => upPc'[x] = upPc[x] /\ work'[x] = work[x] /\ todo'[x] = todo[x]
    BY <1>1, <2>1
  <2>12. upPc[u] # "idle" /\ upPc'[u] \notin Slotted /\ work'[u] = None
    BY <1>1, <2>1, <2>8 DEF Slotted
  <2>13. run = new BY <1>1, <2>1, <2>2
  <2>14. QED BY <1>6, <2>1, <2>2, <2>4, <2>5, <2>7, <2>8, <2>9, <2>10, <2>11, <2>12, <2>13
<1>11. CASE Loops!Spawn(u)
  <2> PICK w : w = CHOOSE x \in Worker : workerPc[x] = "none" OBVIOUS
  <2> PICK launch : launch = [loop |-> work[u].loop, version |-> work[u].version,
                              slot |-> work[u].slot]
    OBVIOUS
  <2>1. /\ upPc[u] = "spawn" /\ w \in Worker /\ workerPc[w] = "none"
        /\ workerPc' = [workerPc EXCEPT ![w] = "started"] /\ args' = [args EXCEPT ![w] = launch]
        /\ upPc' = [upPc EXCEPT ![u] = "loops"]
        /\ UNCHANGED <<slot, overdue, version, state, todo, work, read, faults>>
    BY <1>1, <1>11 DEF Loops!Spawn
  <2>2. /\ l \in Loop /\ NoneOn(l) /\ l \notin todo[u]
        /\ \A x \in Launched(l) : args[x].slot <= work[u].slot /\ args[x].slot < work[u].slot
        /\ state[l] = Loops!Run(version, work[u].slot, "starting", None)
    BY <1>3, <2>1 DEF UpOK, Loops!Run
  <2>3. work[u].slot \in 1 .. slot /\ work[u].slot \in 1 .. MaxSlot /\ work[u].version = version
    BY <1>1, <1>3, <2>1 DEF Slotted
  <2>4. /\ launch \in Loops!Launches /\ launch.loop = l /\ launch.version = version
        /\ launch.slot = work[u].slot
    BY <1>1, <2>2, <2>3 DEF Loops!Launches
  <2>5. launch # None BY <2>4
  <2>6. /\ workerPc'[w] = "started" /\ args'[w] = launch /\ upPc'[u] = "loops"
        /\ \A x \in Worker : x # w => workerPc'[x] = workerPc[x] /\ args'[x] = args[x]
        /\ \A x \in Up : x # u => upPc'[x] = "idle"
    BY <1>1, <1>2, <1>4, <2>1
  <2>7. Loops!TypeOK'
    <3>1. \A x \in Worker : workerPc'[x] = "none" <=> args'[x] = None
      BY <1>2, <2>5, <2>6
    <3>2. \A x \in Up : upPc'[x] = "idle" <=> work'[x] = None BY <1>1, <1>4, <2>1, <2>6
    <3>3. /\ upPc' \in [Up -> {"idle", "stop", "terminate", "stopped", "loops", "write", "spawn"}]
          /\ workerPc' \in [Worker -> {"none", "started", "record", "running", "finish", "fail",
                                       "close", "refuse", "orphan", "gone"}]
          /\ args' \in [Worker -> Loops!Launches \cup {None}]
      BY <1>1, <1>2, <2>1, <2>4
    <3>4. QED BY <2>1, <3>1, <3>2, <3>3 DEF LoopInv, Loops!TypeOK
  <2>8. \A x \in Worker : x # w => /\ Loops!Running(x)' <=> Loops!Running(x)
                                   /\ x \in Loops!Unrecorded' <=> x \in Loops!Unrecorded
    BY <2>6 DEF Loops!Running, Loops!Unrecorded, Loops!Working
  <2>9. w \in Loops!Unrecorded' /\ workerPc'[w] \notin {"close", "refuse"}
    BY <2>1, <2>6 DEF Loops!Unrecorded
  <2>10. OneUp'
    <3>1. ASSUME NEW x \in Worker, args'[x] # None PROVE args'[x].version <= version
      <4>1. CASE x = w BY <1>1, <2>4, <2>6, <4>1
      <4>2. CASE x # w BY <2>6, <3>1, <4>2 DEF LoopInv, OneUp
      <4>3. QED BY <4>1, <4>2
    <3>2. QED BY <1>4, <2>1, <2>6, <3>1 DEF LoopInv, OneUp
  <2>11. InTime'
    <3>1. \A n : Past(n) => Past(n)' BY <2>1 DEF Past
    <3>2. Past(slot)' BY <1>3, <2>1, <3>1 DEF Past
    <3>3. ASSUME NEW x \in Up, upPc'[x] \in Slotted
          PROVE  work'[x].slot \in 1 .. slot' /\ Past(work[x].slot)'
      <4>1. x = u BY <2>6, <3>3 DEF Slotted
      <4>2. Past(work[u].slot) BY <1>3, <2>1 DEF Slotted
      <4>3. QED BY <2>1, <2>3, <4>1, <4>2 DEF Past
    <3>4. ASSUME NEW x \in Up, upPc'[x] # "idle", work'[x].run # None
          PROVE  work'[x].run.slot <= slot'
      BY <1>3, <2>1, <2>6, <3>4
    <3>5. QED BY <3>2, <3>3, <3>4 DEF InTime
  <2>12. OneRuns'
    <3>1. \A x \in Worker : x # w /\ Loops!Running(x)' => args'[x].loop # l
      BY <2>2, <2>6, <2>8 DEF NoneOn
    <3>2. ASSUME NEW x \in Worker, NEW y \in Worker, Loops!Running(x)', Loops!Running(y)',
                 args'[x].loop = args'[y].loop
          PROVE  x = y
      <4>1. args'[w].loop = l BY <2>4, <2>6
      <4>2. x = w <=> y = w BY <3>1, <3>2, <4>1
      <4>3. CASE x # w /\ y # w BY <2>6, <2>8, <3>2, <4>3 DEF LoopInv, OneRuns
      <4>4. QED BY <4>2, <4>3
    <3>3. QED BY <3>2 DEF OneRuns
  <2>13. Loops!SlotLaunchedOnce'
    <3>1. ASSUME NEW x \in Worker, x # w, args[x] = launch PROVE FALSE
      <4>1. x \in Launched(l) BY <2>4, <2>5, <3>1 DEF Launched
      <4>2. QED BY <2>2, <2>3, <2>4, <3>1, <4>1
    <3>2. ASSUME NEW x \in Worker, NEW y \in Worker, args'[x] # None, args'[x] = args'[y]
          PROVE  x = y
      <4>1. CASE x = w
        <5>1. y # w => args[y] = launch BY <2>6, <3>2, <4>1
        <5>2. QED BY <3>1, <4>1, <5>1
      <4>2. CASE y = w
        <5>1. x # w => args[x] = launch BY <2>6, <3>2, <4>2
        <5>2. QED BY <3>1, <4>2, <5>1
      <4>3. CASE x # w /\ y # w BY <2>6, <3>2, <4>3 DEF LoopInv, Loops!SlotLaunchedOnce
      <4>4. QED BY <4>1, <4>2, <4>3
    <3>3. QED BY <3>2 DEF Loops!SlotLaunchedOnce
  <2>14. ASSUME NEW k \in Loop
         PROVE  Launched(k)' = IF k = l THEN Launched(k) \cup {w} ELSE Launched(k)
    BY <1>2, <2>1, <2>4, <2>5, <2>6 DEF Launched
  <2>15. ASSUME NEW k \in Loop PROVE Ahead(k, state[k])'
    <3>1. Ahead(k, state[k]) BY DEF LoopInv
    <3>2. CASE k # l
      <4>1. \A x \in Launched(k) : args'[x] = args[x]
        BY <1>2, <2>1, <2>6 DEF Launched
      <4>2. QED BY <2>1, <2>14, <3>1, <3>2, <4>1 DEF Ahead
    <3>3. CASE k = l
      <4>1. /\ state[l].version = version /\ state[l].slot = work[u].slot
            /\ state[l].status = "starting" /\ state[l] \in Loops!Runs
        BY <1>1, <2>2, <2>3, RunTyped DEF Loops!Status
      <4>2. state[l] # None BY <4>1
      <4>3. ASSUME NEW x \in Launched(l)' PROVE args'[x].slot <= work[u].slot
        <5>1. CASE x = w BY <2>3, <2>4, <2>6, <5>1
        <5>2. CASE x # w
          <6>1. x \in Launched(l) BY <2>14, <4>3, <5>2, <2>2
          <6>2. QED BY <2>2, <2>6, <5>2, <6>1 DEF Launched
        <5>3. QED BY <5>1, <5>2
      <4>4. QED BY <2>1, <3>3, <4>1, <4>2, <4>3 DEF Ahead
    <3>4. QED BY <3>2, <3>3
  <2>16. ASSUME NEW x \in Worker PROVE WorkerOK(x)'
    <3>1. CASE x = w
      <4>1. \A y \in Up : upPc'[y] # "idle" => upPc'[y] \in Slotted /\ l \notin todo'[y]
        BY <2>1, <2>2, <2>6 DEF Slotted
      <4>2. args'[x].version = version' /\ args'[x].loop = l /\ args'[x].slot = work[u].slot
        BY <2>1, <2>4, <2>6, <3>1
      <4>3. state'[l] = Loops!Run(version', args'[x].slot, "starting", None)
        BY <2>1, <2>2, <4>2 DEF Loops!Run
      <4>4. QED BY <2>9, <3>1, <4>1, <4>2, <4>3 DEF WorkerOK, Loops!Run
    <3>2. CASE x # w
      <4>1. WorkerOK(x) BY DEF LoopInv
      <4>2. x \in Loops!Unrecorded => \A y \in Up : upPc'[y] # "idle" =>
                                         upPc'[y] \in Slotted /\ args'[x].loop \notin todo'[y]
        BY <2>1, <2>6, <3>2, <4>1 DEF WorkerOK, Slotted
      <4>3. workerPc[x] \in {"close", "refuse"} => Ahead(args[x].loop, read[x])'
        <5>1. SUFFICES ASSUME workerPc[x] \in {"close", "refuse"}
                       PROVE  Ahead(args[x].loop, read[x])'
          OBVIOUS
        <5>2. Loops!Running(x) BY <5>1 DEF Loops!Running
        <5>3. args[x].loop # l /\ args[x].loop \in Loop /\ args'[x] = args[x]
          BY <2>2, <2>6, <3>2, <5>2, RunsOn DEF NoneOn
        <5>4. Launched(args[x].loop)' = Launched(args[x].loop) BY <2>14, <5>3
        <5>5. \A y \in Launched(args[x].loop) : args'[y] = args[y]
          BY <1>2, <2>1, <2>6 DEF Launched
        <5>6. QED BY <2>1, <4>1, <5>1, <5>3, <5>4, <5>5 DEF WorkerOK, Ahead
      <4>4. QED BY <2>1, <2>6, <2>8, <3>2, <4>1, <4>2, <4>3 DEF WorkerOK
    <3>3. QED BY <3>1, <3>2
  <2>17. ASSUME NEW x \in Up PROVE UpOK(x)'
    <3>1. CASE x = u BY <2>6, <3>1 DEF UpOK
    <3>2. CASE x # u BY <2>6, <3>2 DEF UpOK
    <3>3. QED BY <3>1, <3>2
  <2>18. QED
    BY <2>7, <2>10, <2>11, <2>12, <2>13, <2>15, <2>16, <2>17 DEF LoopInv
<1>12. QED BY <1>7, <1>8, <1>9, <1>10, <1>11

(* Nothing was launched, read or written yet.                              *)
LEMMA LoopInitial == Loops!Init => LoopInv
<1> SUFFICES ASSUME Loops!Init PROVE LoopInv OBVIOUS
<1> USE DEF Loops!Init
<1>1. \A w \in Worker : workerPc[w] = "none" /\ args[w] = None /\ read[w] = None OBVIOUS
<1>2. \A u \in Up : upPc[u] = "idle" /\ work[u] = None OBVIOUS
<1>3. Loops!TypeOK
  <2>1. slot \in 1 .. MaxSlot /\ version \in 1 .. MaxVersion /\ faults \in 0 .. MaxFaults
    OBVIOUS
  <2>2. /\ overdue \in BOOLEAN /\ state \in [Loop -> Loops!Runs \cup {None}]
        /\ upPc \in [Up -> {"idle", "stop", "terminate", "stopped", "loops", "write", "spawn"}]
        /\ todo \in [Up -> SUBSET Loop] /\ work \in [Up -> Loops!Works \cup {None}]
        /\ workerPc \in [Worker -> {"none", "started", "record", "running", "finish", "fail",
                                    "close", "refuse", "orphan", "gone"}]
        /\ args \in [Worker -> Loops!Launches \cup {None}]
        /\ read \in [Worker -> Loops!Runs \cup {None}]
    OBVIOUS
  <2>3. QED BY <1>1, <1>2, <2>1, <2>2 DEF Loops!TypeOK
<1>4. \A w \in Worker : ~Loops!Running(w) /\ w \notin Loops!Unrecorded
  BY <1>1 DEF Loops!Running, Loops!Unrecorded, Loops!Working
<1>5. \A l \in Loop : state[l] = None /\ Launched(l) = {} BY <1>1 DEF Launched
<1>6. OneUp /\ OneRuns /\ Loops!SlotLaunchedOnce
  BY <1>1, <1>2, <1>4 DEF OneUp, OneRuns, Loops!SlotLaunchedOnce
<1>7. InTime BY <1>1, <1>2, <1>5 DEF InTime, Past, Slotted
<1>8. \A w \in Worker : WorkerOK(w) BY <1>1, <1>4 DEF WorkerOK
<1>9. \A l \in Loop : Ahead(l, state[l]) BY <1>5 DEF Ahead
<1>10. \A u \in Up : UpOK(u) BY <1>2 DEF UpOK
<1>11. QED BY <1>3, <1>6, <1>7, <1>8, <1>9, <1>10 DEF LoopInv

(* Every step of the supervisor and of its workers keeps the invariant.    *)
LEMMA LoopStep == LoopInv /\ Loops!Next => LoopInv'
<1> SUFFICES ASSUME LoopInv, Loops!Next PROVE LoopInv' OBVIOUS
<1>1. CASE Loops!GrowOld \/ Loops!NextSlot \/ Loops!Compose BY <1>1, ClockKeeps
<1>2. CASE \E u \in Up : Loops!Start(u) \/ Loops!UpStep(u) \/ Loops!UpStops(u)
  <2>1. PICK u \in Up : Loops!Start(u) \/ Loops!UpStep(u) \/ Loops!UpStops(u) BY <1>2
  <2>2. CASE Loops!Terminate(u)
    <3>1. CASE upPc'[u] = "idle" BY <2>2, <3>1, UpReads
    <3>2. CASE upPc'[u] # "idle" BY <2>2, <3>2, UpActs
    <3>3. QED BY <3>1, <3>2
  <2>3. CASE ~Loops!Terminate(u) BY <2>1, <2>3, UpReads, UpActs DEF Loops!UpStep
  <2>4. QED BY <2>2, <2>3
<1>3. CASE \E w \in Worker : Loops!WorkerStep(w) \/ Loops!KillWorker(w) BY <1>3, WorkerKeeps
<1>4. QED BY <1>1, <1>2, <1>3 DEF Loops!Next

(* A step of another contest leaves the loops as they are.                 *)
LEMMA LoopStays == LoopInv /\ UNCHANGED loopVars => LoopInv'
BY DEF LoopInv, loopVars, Loops!TypeOK, OneUp, InTime, Past, OneRuns, Loops!SlotLaunchedOnce,
       WorkerOK, UpOK, Ahead, Launched, NoneOn, Loops!Running, Loops!Unrecorded, Loops!Working

(* Two workers of a loop never work at the same time, and a slot gets one  *)
(* worker of a version, through skips, replaced versions, kills and the    *)
(* writes of workers that end late (docs/loops.md:181, 96-97), where one   *)
(* `ostrom up` runs at a time, a worker records itself before the next one *)
(* starts, and versions are replaced with care.                            *)
THEOREM OneWorker == MCSpec => []WorkersApart
<1>1. MCInit => LoopInv BY LoopInitial DEF MCInit
<1>2. LoopInv /\ [MCNext]_<<vars, loopVars, contest>> => LoopInv'
  BY LoopStep, LoopStays DEF MCNext
<1>3. LoopInv => WorkersApart
  <2>1. LoopInv => Loops!OneWorkerPerLoop
    <3>1. Loops!Working \subseteq Worker /\ \A w \in Loops!Working : Loops!Running(w)
      BY DEF Loops!Running, Loops!Working
    <3>2. QED BY <3>1 DEF LoopInv, OneRuns, Loops!OneWorkerPerLoop
  <2>2. QED BY <2>1 DEF LoopInv, WorkersApart
<1>4. QED BY <1>1, <1>2, <1>3, PTL DEF MCSpec
================================================================================
