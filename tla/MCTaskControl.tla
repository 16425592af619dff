----------------------------- MODULE MCTaskControl -----------------------------
(* Instances of TaskControl for TLC: one user, up to two article runs and two *)
(* feedback runs, whose feedback says the same or not.                        *)
EXTENDS TaskControl, TLC

CONSTANTS a1, a2, f1, f2, u, c1, c2

OneUser     == [r \in Runs |-> u]
ByName      == [r \in Runs |-> IF r \in {a1, a2} THEN "articles" ELSE "feedback"]
SameContent == [r \in Runs |-> c1]
OwnContent  == [r \in Runs |-> IF r = f1 THEN c1 ELSE c2]

Symmetry == Permutations(Handlers) \cup Permutations(Replicas)
================================================================================
