------------------------------ MODULE InterestLedger ------------------------------
(******************************************************************************)
(* What the graph memory promises: every feedback run counts at most once, by *)
(* one of the contents extracted from it, and what is known of the user's     *)
(* interest is the sum of what counted, up to a limit.                        *)
(******************************************************************************)
EXTENDS Integers, FiniteSetsExt

CONSTANTS Runs, Contents, None,
  Gain,  \* per content: what it adds to the weight
  Limit  \* the largest weight

VARIABLES counted, weight

Total(c) == LET known == {r \in Runs : c[r] # None}
            IN FoldSet(LAMBDA r, sum : sum + Gain[c[r]], 0, known)
Capped(n) == IF n > Limit THEN Limit ELSE n

Init == counted = [r \in Runs |-> None] /\ weight = 0

Count(r, content) ==
  /\ counted[r] = None
  /\ counted' = [counted EXCEPT ![r] = content]
  /\ weight' = Capped(weight + Gain[content])

Next == \E r \in Runs, content \in Contents : Count(r, content)
Spec == Init /\ [][Next]_<<counted, weight>>

(* The order in which runs counted does not show.                             *)
WeightIsTotal == weight = Capped(Total(counted))
================================================================================
