---------------------------- MODULE TaskTable ----------------------------
(***************************************************************************)
(* The tasks table in PostgreSQL, and the SQL statements that the API and  *)
(* the worker run against it.  Every statement is one UPDATE (or INSERT)   *)
(* of a single row, so PostgreSQL makes it atomic; a WHERE clause that     *)
(* does not match affects no row and leaves the table as it is.            *)
(*                                                                         *)
(* Of a row the model keeps its status, whether processing_started_at is   *)
(* set, and whether artifact_key is set.                                   *)
(***************************************************************************)
CONSTANT Tasks       \* task ids (uuids chosen by the API)

VARIABLES
  status,            \* status[t]: the status column, "absent" before INSERT
  started,           \* started[t]: processing_started_at IS NOT NULL
  artifact           \* artifact[t]: artifact_key IS NOT NULL

tableVars == <<status, started, artifact>>

Statuses == {"absent", "pending", "processing", "completed", "failed"}

TableTypeOK ==
  /\ status \in [Tasks -> Statuses]
  /\ started \in [Tasks -> BOOLEAN]
  /\ artifact \in [Tasks -> BOOLEAN]

TableInit ==
  /\ status = [t \in Tasks |-> "absent"]
  /\ started = [t \in Tasks |-> FALSE]
  /\ artifact = [t \in Tasks |-> FALSE]

----------------------------------------------------------------------------
(* The statements of services/api/internal/db.                             *)

\* INSERT with status 'pending'; ids are fresh, so the row is new.
InsertTask(t) ==
  /\ status[t] = "absent"
  /\ status' = [status EXCEPT ![t] = "pending"]
  /\ UNCHANGED <<started, artifact>>

\* Mutant of RejectPending: no condition on the status.
RejectAnyStatus(t) ==
  /\ status' = [status EXCEPT ![t] = "failed"]
  /\ UNCHANGED <<started, artifact>>

\* The API's SetFailed: WHERE status = 'pending'.
RejectPending(t) ==
  /\ status' = [status EXCEPT ![t] = IF @ = "pending" THEN "failed" ELSE @]
  /\ UNCHANGED <<started, artifact>>

\* Mutant of RevertToPendingForRetry: no condition on the status.
ReviveAnyStatus(t) ==
  /\ status' = [status EXCEPT ![t] = "pending"]
  /\ UNCHANGED <<started, artifact>>

\* WHERE status = 'failed'; processing_started_at is left as it was.
RevertToPendingForRetry(t) ==
  /\ status' = [status EXCEPT ![t] = IF @ = "failed" THEN "pending" ELSE @]
  /\ UNCHANGED <<started, artifact>>

----------------------------------------------------------------------------
(* The statements of services/worker/internal/db.                          *)

\* The row SetProcessing's WHERE clause needs; otherwise ErrStateConflict.
Claimable(t) == status[t] = "pending"

\* Mutant of SetProcessing: a redelivery takes over a row in processing.
TakeOver(t) ==
  /\ status[t] \in {"pending", "processing"}
  /\ status' = [status EXCEPT ![t] = "processing"]
  /\ started' = [started EXCEPT ![t] = TRUE]
  /\ UNCHANGED artifact

\* WHERE status = 'pending'; COALESCE keeps an earlier start time.
SetProcessing(t) ==
  /\ Claimable(t)
  /\ status' = [status EXCEPT ![t] = "processing"]
  /\ started' = [started EXCEPT ![t] = TRUE]
  /\ UNCHANGED artifact

\* WHERE status = 'processing'.
SetCompleted(t) ==
  /\ status' = [status EXCEPT ![t] = IF @ = "processing" THEN "completed" ELSE @]
  /\ artifact' = [artifact EXCEPT ![t] = @ \/ status[t] = "processing"]
  /\ UNCHANGED started

\* WHERE status = 'processing'.
SetFailed(t) ==
  /\ status' = [status EXCEPT ![t] = IF @ = "processing" THEN "failed" ELSE @]
  /\ UNCHANGED <<started, artifact>>

\* Mutant of RevertToPending: processing_started_at is kept.
RevertKeepingStart(t) ==
  /\ status' = [status EXCEPT ![t] = IF @ = "processing" THEN "pending" ELSE @]
  /\ UNCHANGED <<started, artifact>>

\* WHERE status = 'processing'; processing_started_at becomes NULL.
RevertToPending(t) ==
  /\ status' = [status EXCEPT ![t] = IF @ = "processing" THEN "pending" ELSE @]
  /\ started' = [started EXCEPT ![t] = @ /\ status[t] # "processing"]
  /\ UNCHANGED artifact
==========================================================================
