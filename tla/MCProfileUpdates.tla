--------------------------- MODULE MCProfileUpdates ---------------------------
(* Instances of ProfileUpdates: one feedback of the default user and one of   *)
(* another user.                                                              *)
EXTENDS ProfileUpdates, TLC

CONSTANTS f1, f2, u1, u2

OneUser  == [f \in Feedbacks |-> u1]
TwoUsers == [f \in Feedbacks |-> IF f = f1 THEN u1 ELSE u2]

Symmetry == Permutations(Handlers)
================================================================================
