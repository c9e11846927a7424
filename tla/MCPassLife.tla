------------------------------- MODULE MCPassLife ------------------------------
(* Instances of PassLife for TLC.                                          *)
EXTENDS PassLife, TLC

Interchangeable == Permutations(Mortal) \cup Permutations(Pass \ Mortal)
================================================================================
