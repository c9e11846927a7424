------------------------------- MODULE MCDispatch ------------------------------
(* Instances of Dispatch for TLC.                                          *)
EXTENDS Dispatch, TLC

Interchangeable == Permutations(Item)
================================================================================
