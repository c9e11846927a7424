------------------------------- MODULE MCContest -------------------------------
(* Contests for what only one may have, in one exploration; contest says   *)
(* which one a behaviour belongs to.  For a claim file: three contenders   *)
(* share a single payload and their writes may fail; a pair chooses        *)
(* between payloads.  For a loop: the workers that one `ostrom up` after   *)
(* another launches.  Contenders and payloads are model values,            *)
(* interchangeable among themselves.                                       *)
EXTENDS ClaimFile, TLC

CONSTANTS
    Pair, Choice,               \* two contenders, and their payloads
    Loop, Worker, Up, None,     \* the loop supervisor
    MaxSlot, MaxVersion, MaxFaults

VARIABLES
    contest,
    slot, overdue, version, state, upPc, todo, work, workerPc, args, read, faults

loopVars == <<slot, overdue, version, state, upPc, todo, work, workerPc, args, read, faults>>

Duo == INSTANCE ClaimFile WITH
    Proc <- Pair, Payload <- Choice, WritesFail <- FALSE
Loops == INSTANCE LoopSupervisor WITH
    Apart <- TRUE, Prompt <- TRUE, Careless <- FALSE, old <- overdue, wpc <- workerPc

ASSUME LoopConstants == Loops!Constants

Interchangeable ==
    Permutations(Proc) \cup Permutations(Pair) \cup Permutations(Choice)

MCInit ==
    /\ Loops!Init
    /\ \/ contest \in {"trio", "loops"} /\ Init
       \/ contest = "duo" /\ Duo!Init

MCNext ==
    /\ UNCHANGED contest
    /\ \/ contest = "trio" /\ Next /\ UNCHANGED loopVars
       \/ contest = "duo" /\ Duo!Next /\ UNCHANGED loopVars
       \/ contest = "loops" /\ Loops!Next /\ UNCHANGED vars

MCSpec == MCInit /\ [][MCNext]_<<vars, loopVars, contest>>
--------------------------------------------------------------------------------
(* Every variable has its type, in every contest.                          *)
AllTyped ==
    CASE contest = "trio" -> TypeOK
      [] contest = "duo" -> Duo!TypeOK
      [] contest = "loops" -> Loops!TypeOK

(* A pair implements the exclusion its users rely on: a process enters     *)
(* only when no live process is inside; and whoever holds the claim finds  *)
(* it on disk, under the path or under the name a take-over moved it to.   *)
PairHolders == {p \in Pair : Duo!Holds(p)}

PairPromise == INSTANCE Exclusion WITH Proc <- Pair, holders <- PairHolders

PairExclusion ==
    /\ contest = "duo" => PairPromise!Init /\ Duo!HeldClaimOnDisk
    /\ [][contest = "duo" => [PairPromise!Next]_PairHolders /\ Duo!HeldClaimOnDisk']_<<contest, vars>>

(* Two workers of a loop never work at the same time, and a slot gets one  *)
(* worker of a version (docs/loops.md:181, 96-97).                         *)
WorkersApart == contest = "loops" => Loops!OneWorkerPerLoop /\ Loops!SlotLaunchedOnce
================================================================================
