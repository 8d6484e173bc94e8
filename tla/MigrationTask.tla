--------------------------- MODULE MigrationTask ---------------------------
(***************************************************************************)
(* One row of the migration_tasks table and the single-row UPDATEs that    *)
(* the backend runs on it.  A row keeps the columns the properties read:   *)
(* the status, the time it was queued (0 is NULL), and whether             *)
(* finished_at and error_message hold a value.  Every UPDATE writes its    *)
(* columns and leaves the others as they are: none of them has a condition *)
(* on the previous status.                                                 *)
(***************************************************************************)
EXTENDS Naturals

Terminal == {"SUCCESS", "FAILED", "CANCELLED"}
Active == {"PREPARING", "RUNNING"}
Status == {"PENDING"} \cup Active \cup Terminal

Row == [status: Status, queued: Nat, finished: BOOLEAN, error: BOOLEAN]

\* A created task: PENDING, and not queued until the user starts it.
NewRow == [status |-> "PENDING", queued |-> 0, finished |-> FALSE, error |-> FALSE]

\* Start and Retry: back in the queue with a new queued_at.
QueuedRow(row, now) ==
  [status |-> "PENDING", queued |-> now, finished |-> FALSE, error |-> FALSE]

CancelledRow(row) == [row EXCEPT !.status = "CANCELLED", !.finished = TRUE]

\* The dispatcher's claim.
ClaimedRow(row) == [row EXCEPT !.status = "PREPARING"]

\* Faulty variant: FAILED without finished_at.
FailedRowUnfinished(row) == [row EXCEPT !.status = "FAILED", !.error = TRUE]

FailedRow(row) ==
  [row EXCEPT !.status = "FAILED", !.finished = TRUE, !.error = TRUE]

SucceededRow(row) == [row EXCEPT !.status = "SUCCESS", !.finished = TRUE]

\* A worker's report.  FAILED and CANCELLED carry an error text, the other
\* statuses an empty one, which leaves error_message alone.
ReportedRow(row, status) ==
  [row EXCEPT !.status = status,
              !.finished = @ \/ status \in Terminal,
              !.error = @ \/ status \in {"FAILED", "CANCELLED"}]

\* Faulty variant: the condition on queued_at is missing.
IsPending(row) == row.status = "PENDING"

\* NextPendingTask's condition: only a started task is in the queue.
IsQueued(row) == row.status = "PENDING" /\ row.queued # 0

\* MarkFailedIfStillActive's condition, and Cancel's.
StillActive(row) == row.status \in {"PENDING", "PREPARING", "RUNNING"}
=============================================================================
