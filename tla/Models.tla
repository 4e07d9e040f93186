------------------------------- MODULE Models -------------------------------
(***************************************************************************)
(* The data the programs exchange: job and worker rows (internal/models)   *)
(* and the records published on the Kafka topics (internal/broker).  Only  *)
(* the fields that decide control flow are kept; types, payloads, hosts,   *)
(* error texts and metrics are left out.                                   *)
(*                                                                         *)
(* A job is named by the order in which it was created: j < k means        *)
(* created_at(j) < created_at(k).                                          *)
(***************************************************************************)
EXTENDS Integers, FiniteSets

CONSTANTS
  Jobs,         \* the job ids that may ever be created, numbered by created_at
  Workers,      \* the worker UUIDs: every start of cmd/worker draws a new one
  NoWorker,     \* SQL NULL in jobs.worker_id
  Priority,     \* jobs.priority
  MaxAttempts   \* maxAttempts of the result collector

ASSUME ModelsAssumption ==
  /\ Jobs \subseteq Nat
  /\ IsFiniteSet(Jobs)
  /\ NoWorker \notin Workers
  /\ Priority \in [Jobs -> Int]
  /\ MaxAttempts \in Nat \ {0}

\* The job_status enum of the schema, and "ABSENT" for a row not inserted yet.
JobStatus == {"QUEUED", "RUNNING", "COMPLETED", "FAILED", "RETRYING", "DEAD"}
JobRowStatus == JobStatus \cup {"ABSENT"}

\* The worker_status enum, and "ABSENT" for a worker with no row.
WorkerStatus == {"ACTIVE", "IDLE", "UNHEALTHY", "OFFLINE"}
WorkerRowStatus == WorkerStatus \cup {"ABSENT"}

\* Topic "jobs": one dispatched attempt of a job, addressed to one worker.
JobMessage == [job : Jobs, worker : Workers, attempts : Nat]

\* Topics "results" and "dead-letters": the outcome of one attempt.
ResultMessage ==
  [job : Jobs, worker : Workers, attempts : Nat, success : BOOLEAN]

\* Topic "heartbeats".
HeartbeatMessage == [worker : Workers, running : Nat]

\* The attempt a result is about.
AttemptOf(r) == [job |-> r.job, worker |-> r.worker, attempts |-> r.attempts]
=============================================================================
