----------------------------- MODULE Repository -----------------------------
(***************************************************************************)
(* The PostgreSQL tables jobs and workers and the statements of            *)
(* internal/repository/jobs.go and workers.go that change or decide on     *)
(* them.  Every method is one SQL statement, hence one atomic step.        *)
(*                                                                         *)
(* last_heartbeat is abstracted to what the queries ask of it: whether it  *)
(* lies within the last staleSeconds.                                      *)
(***************************************************************************)
EXTENDS Models

CONSTANT MaxDispatches   \* model bound: how often one job may be dispatched

ASSUME RepositoryAssumption == MaxDispatches \in Nat

VARIABLES
  jobStatus,        \* jobs.status
  jobWorker,        \* jobs.worker_id
  jobAttempts,      \* jobs.attempts
  workerStatus,     \* workers.status
  heartbeatFresh,   \* workers.last_heartbeat > now() - staleSeconds
  runningJobs       \* workers.running_jobs

jobRows == <<jobStatus, jobWorker, jobAttempts>>
workerRows == <<workerStatus, heartbeatFresh, runningJobs>>

RepositoryTypeOK ==
  /\ jobStatus \in [Jobs -> JobRowStatus]
  /\ jobWorker \in [Jobs -> Workers \cup {NoWorker}]
  /\ jobAttempts \in [Jobs -> Nat]
  /\ workerStatus \in [Workers -> WorkerRowStatus]
  /\ heartbeatFresh \in [Workers -> BOOLEAN]
  /\ runningJobs \in [Workers -> Nat]

RepositoryInit ==
  /\ jobStatus = [j \in Jobs |-> "ABSENT"]
  /\ jobWorker = [j \in Jobs |-> NoWorker]
  /\ jobAttempts = [j \in Jobs |-> 0]
  /\ workerStatus = [w \in Workers |-> "ABSENT"]
  /\ heartbeatFresh = [w \in Workers |-> FALSE]
  /\ runningJobs = [w \in Workers |-> 0]

-----------------------------------------------------------------------------
(***************************************************************************)
(* The jobs table.                                                         *)
(***************************************************************************)

\* Rows get their created_at in the order in which they are inserted.
Create(j) ==
  /\ jobStatus[j] = "ABSENT"
  /\ \A k \in Jobs : k < j => jobStatus[k] # "ABSENT"
  /\ jobStatus' = [jobStatus EXCEPT ![j] = "QUEUED"]
  /\ UNCHANGED <<jobWorker, jobAttempts>>

\* RowsAffected() = 0 is ErrNotFound and changes nothing: it is the guard.
Cancel(j) ==
  /\ jobStatus[j] \in {"QUEUED", "RUNNING", "RETRYING"}
  /\ jobStatus' = [jobStatus EXCEPT ![j] = "DEAD"]
  /\ UNCHANGED <<jobWorker, jobAttempts>>

Pending == {j \in Jobs : /\ jobStatus[j] \in {"QUEUED", "RETRYING"}
                         /\ jobAttempts[j] < MaxDispatches}

\* Variant of Before: oldest first, whatever the priority.
BeforeByAge(j, k) == j < k

\* ORDER BY priority DESC, created_at ASC.
Before(j, k) ==
  \/ Priority[j] > Priority[k]
  \/ Priority[j] = Priority[k] /\ j < k

\* The rows the CTE selects: the first `limit' pending ones.
Picked(limit) ==
  {j \in Pending : Cardinality({k \in Pending : Before(k, j)}) < limit}

\* Variant of NextAttempt: attempts is not incremented by the UPDATE.
SameAttempt(j) == jobAttempts[j]

\* attempts = jobs.attempts + 1.
NextAttempt(j) == jobAttempts[j] + 1

\* The rows FetchPending returns, as the messages the dispatcher makes of them.
Fetched(w, limit) ==
  {[job |-> j, worker |-> w, attempts |-> NextAttempt(j)] : j \in Picked(limit)}

\* worker_id = $2 for the rows in S.
ClaimedBy(w, S) == [j \in Jobs |-> IF j \in S THEN w ELSE jobWorker[j]]

FetchPending(w, limit) ==
  /\ jobStatus' = [j \in Jobs |-> IF j \in Picked(limit) THEN "RUNNING"
                                                         ELSE jobStatus[j]]
  /\ jobWorker' = ClaimedBy(w, Picked(limit))
  /\ jobAttempts' = [j \in Jobs |-> IF j \in Picked(limit) THEN NextAttempt(j)
                                                           ELSE jobAttempts[j]]

\* status = 'QUEUED', worker_id = NULL for the rows in S.
Requeue(S) ==
  /\ jobStatus' = [j \in Jobs |-> IF j \in S THEN "QUEUED" ELSE jobStatus[j]]
  /\ jobWorker' = [j \in Jobs |-> IF j \in S THEN NoWorker ELSE jobWorker[j]]
  /\ UNCHANGED jobAttempts

\* Variant of StaleWorkers: every worker that has a row.
AnyRegisteredWorker == {w \in Workers : workerStatus[w] # "ABSENT"}

\* Variant of StaleWorkers: the sweep looks for a status that nobody sets.
OfflineWorkers == {w \in Workers : workerStatus[w] = "OFFLINE"}

StaleWorkers == {w \in Workers : /\ workerStatus[w] # "ABSENT"
                                 /\ \/ ~heartbeatFresh[w]
                                    \/ workerStatus[w] = "UNHEALTHY"}

RequeueStale ==
  Requeue({j \in Jobs : jobStatus[j] = "RUNNING" /\ jobWorker[j] \in StaleWorkers})

\* Variant of RollbackToQueued: worker_id is not set to NULL.
RollbackKeepingWorker(j) ==
  /\ jobStatus' = [k \in Jobs |-> IF k = j /\ jobStatus[k] = "RUNNING"
                                  THEN "QUEUED" ELSE jobStatus[k]]
  /\ UNCHANGED <<jobWorker, jobAttempts>>

\* WHERE id = $1 AND status = 'RUNNING'; worker_id is not compared.
RollbackToQueued(j) == Requeue({k \in {j} : jobStatus[k] = "RUNNING"})

setStatus(j, status) ==
  /\ jobStatus' = [jobStatus EXCEPT ![j] = status]
  /\ UNCHANGED <<jobWorker, jobAttempts>>

MarkCompleted(j) == setStatus(j, "COMPLETED")

\* Variant of FailedStatus: one retry too few.
FailedStatusOffByOne(j) ==
  IF jobAttempts[j] + 1 >= MaxAttempts THEN "DEAD" ELSE "RETRYING"

\* CASE WHEN attempts >= $2 THEN 'DEAD' ELSE 'RETRYING'.
FailedStatus(j) == IF jobAttempts[j] >= MaxAttempts THEN "DEAD" ELSE "RETRYING"

\* The row is updated whatever its status is.
MarkFailed(j) == setStatus(j, FailedStatus(j))

-----------------------------------------------------------------------------
(***************************************************************************)
(* The workers table.                                                      *)
(***************************************************************************)

\* The status after INSERT ... ON CONFLICT DO UPDATE.
RevivedStatus(w) ==
  IF workerStatus[w] \in {"ABSENT", "OFFLINE", "UNHEALTHY"} THEN "IDLE"
                                                            ELSE workerStatus[w]

\* last_heartbeat = now(): the time of arrival, not the message's timestamp.
UpsertHeartbeat(w, running) ==
  /\ workerStatus' = [workerStatus EXCEPT ![w] = RevivedStatus(w)]
  /\ heartbeatFresh' = [heartbeatFresh EXCEPT ![w] = TRUE]
  /\ runningJobs' = [runningJobs EXCEPT ![w] = running]

Healthy == {w \in Workers : /\ workerStatus[w] \notin {"ABSENT", "OFFLINE", "UNHEALTHY"}
                            /\ heartbeatFresh[w]}

\* The rows FetchHealthy returns.  Its ORDER BY running_jobs is applied by the
\* reader of the set; cpu is always reported as 0 and breaks no tie.
HealthyRows == {[worker |-> w, running |-> runningJobs[w]] : w \in Healthy}

MarkUnhealthy ==
  /\ workerStatus' =
       [w \in Workers |->
          IF /\ workerStatus[w] \notin {"ABSENT", "OFFLINE", "UNHEALTHY"}
             /\ ~heartbeatFresh[w]
          THEN "UNHEALTHY" ELSE workerStatus[w]]
  /\ UNCHANGED <<heartbeatFresh, runningJobs>>

\* staleSeconds pass without a heartbeat of w being stored.
HeartbeatGrowsStale(w) ==
  /\ heartbeatFresh[w]
  /\ heartbeatFresh' = [heartbeatFresh EXCEPT ![w] = FALSE]
  /\ UNCHANGED <<workerStatus, runningJobs>>
=============================================================================
