------------------------------- MODULE Exclusion -------------------------------
(***************************************************************************)
(* What an exclusive claim, and a lease in force, promise the code that    *)
(* uses them: a process enters only when no other is inside.  It leaves by *)
(* releasing, by finding its claim gone, by lapse or by being killed; what *)
(* a killed process held keeps nobody out.                                 *)
(***************************************************************************)
CONSTANT Proc

VARIABLE holders   \* the live processes that are inside

Init == holders = {}

Take(p) == holders = {} /\ holders' = {p}

Leave(p) == p \in holders /\ holders' = holders \ {p}

Next == \E p \in Proc : Take(p) \/ Leave(p)

Spec == Init /\ [][Next]_holders
================================================================================
