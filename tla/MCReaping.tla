------------------------------- MODULE MCReaping -------------------------------
(* Two instances of PassReap in one exploration; scene says which one a    *)
(* behaviour belongs to.  In "apart" a reaper that is never killed watches *)
(* two passes that start apart.  In "killed" the names change places: two  *)
(* reapers that may be killed anywhere, and whose stops may stay           *)
(* unconfirmed, watch one pass that may be killed as well.  The constants  *)
(* that PassLife's constant definitions read are the same in both: TLC     *)
(* evaluates those once for the whole model.                               *)
EXTENDS PassReap, TLC

VARIABLE scene

Pair == INSTANCE PassReap WITH
    Pass <- Reaper, Mortal <- Reaper, Reaper <- Pass,
    WholeClaims <- FALSE, StopsFail <- TRUE, MaxKills <- 2

Interchangeable == Permutations(Pass)

MCInit ==
    \/ scene = "apart" /\ ReapInit
    \/ scene = "killed" /\ Pair!ReapInit

MCNext ==
    /\ UNCHANGED scene
    /\ \/ scene = "apart" /\ ReapNext
       \/ scene = "killed" /\ Pair!ReapNext

MCSpec == MCInit /\ [][MCNext]_<<allVars, scene>>

(* Every variable has its type, in both instances.  OneEndPerHold reads    *)
(* only the trace, so the run lists PassReap's own for both.               *)
AllTyped == IF scene = "apart" THEN ReapTypeOK ELSE Pair!ReapTypeOK

(* Of a run that a reaper stops, and lives to close, the trace says        *)
(* `stalled` whoever writes the row (docs/loops.md:175).                   *)
StoppedSaysStalled == scene = "apart" => SignalledSaysStalled

(* A reaper that stays records an end only for a run that is gone.         *)
EndRecordedGone == [][scene = "apart" => RecordsGone]_<<allVars, scene>>
================================================================================
