---------------------------- MODULE VersionHistory ----------------------------
(******************************************************************************)
(* What the table user_profile_snapshot promises each user: the versions are  *)
(* 1, 2, 3, ... without a gap or a repetition, one that is written is never   *)
(* changed or removed, and the newest is the only active one.                 *)
(******************************************************************************)
EXTENDS Naturals, FiniteSets

CONSTANT Users
VARIABLES versions,  \* per user: the versions written, each with its content
          active     \* per user: the numbers of the active versions

Init ==
  /\ versions = [u \in Users |-> {}]
  /\ active = [u \in Users |-> {}]

Publish(u) ==
  LET next == Cardinality(versions[u]) + 1 IN
  /\ \E s \in versions'[u] :
       s.version = next /\ versions' = [versions EXCEPT ![u] = @ \cup {s}]
  /\ active' = [active EXCEPT ![u] = {next}]

Next == \E u \in Users : Publish(u)

Spec == Init /\ [][Next]_<<versions, active>>
================================================================================
