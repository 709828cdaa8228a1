------------------------------ MODULE JobStore ------------------------------
(***************************************************************************)
(* The jobs table of internal/storage, the source of truth of the system.  *)
(* Each operation is one SQL statement (SQLite or Postgres), hence one      *)
(* atomic step on `db'; none of them but ResetForRetry looks at the status  *)
(* it overwrites.  (UpdateJobStatus and UpdateJobRetry read the row first,   *)
(* for the label of the counter they increment.)                            *)
(*                                                                         *)
(* Of a row the columns that decide anything are kept; of updated_at only   *)
(* whether it is more than ten minutes ago, the limit the sweepers apply.   *)
(***************************************************************************)
EXTENDS JobOrder, FiniteSets

CONSTANTS
  QType,         \* queue_type of each job
  MaxRetries,    \* max_retries of a new job: 3 in CreateJob
  ExtraRetries,  \* what a manual retry adds to it: 3 in RetryJob
  Backend,       \* "sqlite" or "postgres"
  CountTo        \* model bound: counters stop there, 0 where a run is not
                 \* about them

QueueNames == {"fifo", "priority", "rate-limited"}

ASSUME StoreAssumption ==
  /\ QType \in [Jobs -> QueueNames]
  /\ MaxRetries \in Nat \ {0}
  /\ ExtraRetries \in Nat \ {0}
  /\ Backend \in {"sqlite", "postgres"}
  /\ CountTo \in Nat

VARIABLES db,      \* the row of each job; status "none" when there is no row
          counter  \* the Prometheus counters, of all queue types together

store == <<db, counter>>

Status == {"none", "pending", "processing", "completed", "failed"}

Row == [status : Status, retry : Nat, max : Nat, age : {"fresh", "old"}]

NoRow == [status |-> "none", retry |-> 0, max |-> 0, age |-> "fresh"]

Counters == {"completed", "failed", "retried"}

StoreTypeOK ==
  /\ db \in [Jobs -> Row]
  /\ counter \in [Counters -> 0..CountTo]

\* A process starts with counters of zero.
NoCounts == [k \in Counters |-> 0]

Count(k) ==
  counter' = [counter EXCEPT ![k] = IF @ < CountTo THEN @ + 1 ELSE @]

Terminal(j) == db[j].status \in {"completed", "failed"}

\* The row of a job that CreateJob inserts.
SaveJob(j) ==
  /\ db' = [db EXCEPT ![j] = [status |-> "pending", retry |-> 0,
                              max |-> MaxRetries, age |-> "fresh"]]
  /\ UNCHANGED counter

\* The counters follow the statement, whatever the status was before.
UpdateJobStatus(j, status) ==
  /\ db' = [db EXCEPT ![j].status = status, ![j].age = "fresh"]
  /\ IF status \in Counters THEN Count(status) ELSE UNCHANGED counter

UpdateJobRetry(j, status, retryCount) ==
  /\ db' = [db EXCEPT ![j].status = status, ![j].retry = retryCount,
                      ![j].age = "fresh"]
  /\ Count(IF status = "failed" THEN "failed" ELSE "retried")

\* Mutant: Requeue goes through UpdateJobRetry and counts as a retry.
RequeueCounted(j) == UpdateJobRetry(j, "pending", db[j].retry)

\* A preempted job goes back to pending, retry_count untouched.
Requeue(j) ==
  /\ db' = [db EXCEPT ![j].status = "pending", ![j].age = "fresh"]
  /\ UNCHANGED counter

\* Back to pending with more attempts.
Revived(j, retryCount) ==
  /\ db' = [db EXCEPT ![j].status = "pending", ![j].age = "fresh",
                      ![j].max = @ + ExtraRetries, ![j].retry = retryCount]
  /\ UNCHANGED counter

\* Mutant: both backends clear retry_count.
ResetClears(j) == db[j].status = "failed" /\ Revived(j, 0)

\* The one conditional update: a row that is not failed is left alone and the
\* caller gets an error.  Only the SQLite statement clears retry_count.
ResetForRetry(j) ==
  /\ db[j].status = "failed"
  /\ Revived(j, IF Backend = "sqlite" THEN 0 ELSE db[j].retry)

\* Mutant: jobs that were being processed are not listed.
ListPendingOnly ==
  [j \in Jobs |-> IF db[j].status = "pending" THEN "pending" ELSE "none"]

\* ListPendingJobs: the status each listed job had when the query ran.
\* "stuck" is a job processing for more than ten minutes.
ListPendingJobs ==
  [j \in Jobs |->
     IF db[j].status = "processing" /\ db[j].age = "old" THEN "stuck"
     ELSE IF db[j].status \in {"pending", "processing"} THEN db[j].status
     ELSE "none"]

\* What GET /pending and GET /processing show.
ListAllPendingJobs == {j \in Jobs : db[j].status = "pending"}

GetProcessingJobs == {j \in Jobs : db[j].status = "processing"}
=============================================================================
