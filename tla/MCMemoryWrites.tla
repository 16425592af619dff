----------------------------- MODULE MCMemoryWrites -----------------------------
(* Instances of MemoryWrites for TLC.  A feedback adds 0.05 for each keyword  *)
(* and 0.7 for an interest of the profile; the weight stops at 1.             *)
EXTENDS MemoryWrites, TLC

CONSTANTS x, y

Gains == x :> 15 @@ y :> 1
Symmetry == Permutations(Runs) \cup Permutations(Workers)
================================================================================
