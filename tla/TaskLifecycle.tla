----------------------------- MODULE TaskLifecycle -----------------------------
(******************************************************************************)
(* What task control promises about the status of a run: the transitions of   *)
(* canTransitionTaskStatus, which the harness only states (its tests call it, *)
(* its code never does), and the step back to pending at a restart, which     *)
(* README.md promises and canTransitionTaskStatus leaves out.  Nothing is     *)
(* promised of a run once it is disturbed.                                    *)
(******************************************************************************)
EXTENDS TaskStore

CONSTANT Runs
VARIABLES status, disturbed

(* canTransitionTaskStatus; "" and pending go the same ways.                  *)
CanTransition(from, to) ==
  \/ from = to
  \/ from = "pending" /\ to \in {"running", "cancelled", "failed"}
  \/ from = "running" /\ to \in FinalStatuses
  \/ from \in {"failed", "partially_completed"} /\ to \in {"pending", "running", "cancelled"}

Init ==
  /\ status = [r \in Runs |-> "absent"]
  /\ disturbed = {}

Create(r)  == status[r] = "absent" /\ status'[r] = "pending"
Move(r)    == CanTransition(status[r], status'[r])
Recover(r) == status[r] \in ActiveStatuses /\ status'[r] = "pending"

Next ==
  /\ disturbed \subseteq disturbed' /\ disturbed' \subseteq Runs
  /\ status' \in [Runs -> Statuses \cup {"absent"}]
  /\ \A r \in Runs \ disturbed' : Create(r) \/ Move(r) \/ Recover(r)

Spec == Init /\ [][Next]_<<status, disturbed>>
================================================================================
