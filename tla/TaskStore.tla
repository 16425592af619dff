------------------------------- MODULE TaskStore -------------------------------
(******************************************************************************)
(* The statements internal/store/mysql.go runs on the table task_runs, as     *)
(* operators on a row.  A row keeps what the harness decides on: the          *)
(* auto-increment id that orders rows (0: not inserted yet), the status and   *)
(* the flag cancel_requested.  locked_by, retry_count and the summaries are   *)
(* written by the same statements and read by no decision: left out.          *)
(* partial_result_json is in module ArticleRuns, where it matters.            *)
(******************************************************************************)
EXTENDS Naturals

TaskTypes == {"articles", "feedback", "profile_rebuild"}

(* Slips.  An operator whose name ends in "Slip" is a plausible mistake in    *)
(* the definition that follows it; PROJECT.json pairs each with the property  *)
(* that must catch it.  No specification uses one.                            *)

ActiveStatuses    == {"pending", "running"}
RetryableStatuses == {"failed", "partially_completed", "pending"}
FinalStatuses     == {"completed", "failed", "partially_completed", "cancelled"}
Statuses          == ActiveStatuses \cup FinalStatuses

Row    == [id : Nat, status : Statuses \cup {"absent"}, cancel : BOOLEAN]
NoRow  == [id |-> 0, status |-> "absent", cancel |-> FALSE]

IsActive(row) == row.status \in ActiveStatuses

TaskCancelledSlip(row) == row.status = "cancelled"

(* taskCancelled: the flag counts whatever became of the status.              *)
TaskCancelled(row) == row.cancel \/ row.status = "cancelled"

(* INSERT ... ON DUPLICATE KEY UPDATE run_id = run_id: a row that is there    *)
(* already (the run is being retried) stays as it is.                         *)
Inserted(row, id) ==
  IF row.status = "absent"
  THEN [id |-> id, status |-> "pending", cancel |-> FALSE]
  ELSE row

UpdatedSlip(row, status, cancel) ==
  [row EXCEPT !.status = status, !.cancel = cancel]

(* UpdateTaskRun: the status is overwritten whatever it was, the flag         *)
(* cancel_requested can be raised and never lowered.                          *)
Updated(row, status, cancel) ==
  [row EXCEPT !.status = status, !.cancel = cancel \/ row.cancel]

(* MarkTaskRunStatus: overwrites the status, and "cancelled" raises the flag. *)
Marked(row, status) ==
  [row EXCEPT !.status = status, !.cancel = (status = "cancelled") \/ row.cancel]

(* RequestTaskCancellation: the flag is raised on any row, the status changes *)
(* only while the task is pending or running.                                 *)
CancelledByRequest(row) ==
  [row EXCEPT !.cancel = TRUE,
              !.status = IF IsActive(row) THEN "cancelled" ELSE row.status]

RecoveredSlip(row) ==
  IF row.status = "pending" /\ ~row.cancel THEN [row EXCEPT !.status = "pending"] ELSE row

RecoveredStatusSlip(row) ==
  IF IsActive(row) /\ ~row.cancel THEN [row EXCEPT !.status = "interrupted"] ELSE row

(* RecoverInterruptedTaskRuns: every active row that nobody asked to cancel.  *)
Recovered(row) ==
  IF IsActive(row) /\ ~row.cancel THEN [row EXCEPT !.status = "pending"] ELSE row
================================================================================
