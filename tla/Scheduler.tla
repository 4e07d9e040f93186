----------------------------- MODULE Scheduler ------------------------------
(***************************************************************************)
(* cmd/scheduler: the dispatcher and the heartbeat monitor of every        *)
(* process that believes it leads, and the heartbeat consumer.             *)
(*                                                                         *)
(* The dispatcher is a sequential loop whose position is read off its      *)
(* locals: a message to roll back comes first, then the messages still to  *)
(* publish, then the workers of this tick still to serve; with none of     *)
(* them the next tick begins.                                              *)
(***************************************************************************)
EXTENDS Repository, Broker, Faults

CONSTANTS
  Schedulers,         \* the scheduler processes that run the loops
  MaxJobsPerWorker    \* maxJobsPerWorker

ASSUME SchedulerAssumption == MaxJobsPerWorker \in Nat

VARIABLES
  snapshot,   \* workers: the rows of FetchHealthy this tick has not served yet
  batch,      \* jobs: the fetched rows not published yet, as messages
  undo,       \* the message whose publication failed, before its rollback
  sweeping    \* the monitor is between MarkUnhealthy and RequeueStale

schedulerVars == <<snapshot, batch, undo, sweeping>>

SchedulerTypeOK ==
  /\ snapshot \in [Schedulers -> SUBSET HeartbeatMessage]
  /\ batch \in [Schedulers -> SUBSET JobMessage]
  /\ undo \in [Schedulers -> SUBSET JobMessage]
  /\ sweeping \in [Schedulers -> BOOLEAN]

SchedulerInit ==
  /\ snapshot = [s \in Schedulers |-> {}]
  /\ batch = [s \in Schedulers |-> {}]
  /\ undo = [s \in Schedulers |-> {}]
  /\ sweeping = [s \in Schedulers |-> FALSE]

-----------------------------------------------------------------------------
(***************************************************************************)
(* Dispatcher.tick                                                         *)
(***************************************************************************)

\* tick begins: no error and no healthy worker means nothing to do.
FetchHealthy(s) ==
  /\ undo[s] = {} /\ batch[s] = {} /\ snapshot[s] = {}
  /\ snapshot' = [snapshot EXCEPT ![s] = HealthyRows]
  /\ NoFault
  /\ UNCHANGED <<batch, undo, sweeping, jobRows, workerRows, brokerVars>>

\* The least loaded of the workers left; row.running is as old as the snapshot.
NextWorker(s, row) ==
  /\ undo[s] = {} /\ batch[s] = {}
  /\ row \in snapshot[s]
  /\ \A other \in snapshot[s] : row.running <= other.running

\* Picked(limit) is empty when the capacity is zero or less (the `continue').
Capacity(row) == MaxJobsPerWorker - row.running

AssignJobs(s, row) ==
  /\ NextWorker(s, row)
  /\ FetchPending(row.worker, Capacity(row))
  /\ batch' = [batch EXCEPT ![s] = Fetched(row.worker, Capacity(row))]
  /\ snapshot' = [snapshot EXCEPT ![s] = @ \ {row}]
  /\ NoFault
  /\ UNCHANGED <<undo, sweeping, workerRows, brokerVars>>

\* The UPDATE commits and its reply does not arrive: the tick goes on with the
\* next worker, and nobody holds the jobs just claimed.
AssignJobsReplyLost(s, row) ==
  /\ NextWorker(s, row)
  /\ FetchPending(row.worker, Capacity(row))
  /\ snapshot' = [snapshot EXCEPT ![s] = @ \ {row}]
  /\ Fault("fetch_reply_lost")
  /\ UNCHANGED <<batch, undo, sweeping, workerRows, brokerVars>>

\* Rows are returned in no particular order.
PublishJob(s, m) ==
  /\ undo[s] = {} /\ m \in batch[s]
  /\ jobsTopic' = WriteMessage(jobsTopic, m)
  /\ batch' = [batch EXCEPT ![s] = @ \ {m}]
  /\ NoFault
  /\ UNCHANGED <<snapshot, undo, sweeping, jobRows, workerRows,
                 resultsTopic, heartbeatsTopic, deadLettersTopic>>

\* Variant of ToRollBack: a job whose publication failed is left as it is.
NothingToRollBack(m) == {}

\* The tick remembers the job until RollbackToQueued has been called for it.
ToRollBack(m) == {m}

\* PublishJob returns an error.  Nothing was written, or everything was and
\* only the confirmation is missing.
PublishJobFails(s, m, written) ==
  /\ undo[s] = {} /\ m \in batch[s]
  /\ jobsTopic' = IF written THEN WriteMessage(jobsTopic, m) ELSE jobsTopic
  /\ batch' = [batch EXCEPT ![s] = @ \ {m}]
  /\ undo' = [undo EXCEPT ![s] = ToRollBack(m)]
  /\ Fault(IF written THEN "publish_ambiguous" ELSE "publish_error")
  /\ UNCHANGED <<snapshot, sweeping, jobRows, workerRows,
                 resultsTopic, heartbeatsTopic, deadLettersTopic>>

\* PublishJob returns nil and the message is lost all the same: the writers
\* leave RequiredAcks at its default, which asks for no acknowledgement.
PublishJobUnacked(s, m) ==
  /\ undo[s] = {} /\ m \in batch[s]
  /\ batch' = [batch EXCEPT ![s] = @ \ {m}]
  /\ Fault("unacked_write")
  /\ UNCHANGED <<snapshot, undo, sweeping, jobRows, workerRows, brokerVars>>

\* RollbackToQueued after a failed publication; ErrNotFound is only logged.
Rollback(s, m) ==
  /\ m \in undo[s]
  /\ RollbackToQueued(m.job)
  /\ undo' = [undo EXCEPT ![s] = {}]
  /\ NoFault
  /\ UNCHANGED <<snapshot, batch, sweeping, workerRows, brokerVars>>

\* RollbackToQueued fails: the error is logged and the tick goes on.
RollbackFails(s, m) ==
  /\ m \in undo[s]
  /\ undo' = [undo EXCEPT ![s] = {}]
  /\ Fault("db_error")
  /\ UNCHANGED <<snapshot, batch, sweeping, jobRows, workerRows, brokerVars>>

-----------------------------------------------------------------------------
(***************************************************************************)
(* HearbeatMonitor.tick: two statements, no transaction around them.       *)
(***************************************************************************)

SweepWorkers(s) ==
  /\ ~sweeping[s]
  /\ MarkUnhealthy
  /\ sweeping' = [sweeping EXCEPT ![s] = TRUE]
  /\ NoFault
  /\ UNCHANGED <<snapshot, batch, undo, jobRows, brokerVars>>

SweepJobs(s) ==
  /\ sweeping[s]
  /\ RequeueStale
  /\ sweeping' = [sweeping EXCEPT ![s] = FALSE]
  /\ NoFault
  /\ UNCHANGED <<snapshot, batch, undo, workerRows, brokerVars>>

\* RequeueStale fails: the sweep ends half done.
SweepJobsFails(s) ==
  /\ sweeping[s]
  /\ sweeping' = [sweeping EXCEPT ![s] = FALSE]
  /\ Fault("db_error")
  /\ UNCHANGED <<snapshot, batch, undo, jobRows, workerRows, brokerVars>>

-----------------------------------------------------------------------------
(***************************************************************************)
(* HeartbeatConsumer.Handle, and the commit that follows it.               *)
(***************************************************************************)

HandleHeartbeat(h) ==
  /\ h \in heartbeatsTopic
  /\ UpsertHeartbeat(h.worker, h.running)
  /\ heartbeatsTopic' = CommitMessage(heartbeatsTopic, h)
  /\ NoFault
  /\ UNCHANGED <<jobRows, jobsTopic, resultsTopic, deadLettersTopic, schedulerVars>>

\* The consumer ends between the upsert and the commit.
HandleHeartbeatUncommitted(h) ==
  /\ h \in heartbeatsTopic
  /\ UpsertHeartbeat(h.worker, h.running)
  /\ Fault("redelivery")
  /\ UNCHANGED <<jobRows, brokerVars, schedulerVars>>

-----------------------------------------------------------------------------
\* The process crashes, or is told to stop: its locals are gone.  On SIGTERM
\* loopCtx is cancelled, so PublishJob and RollbackToQueued both fail for the
\* rest of the batch, which has the same effect.  Another process, or the same
\* one restarted, leads next.
StopScheduler(s) ==
  /\ snapshot' = [snapshot EXCEPT ![s] = {}]
  /\ batch' = [batch EXCEPT ![s] = {}]
  /\ undo' = [undo EXCEPT ![s] = {}]
  /\ sweeping' = [sweeping EXCEPT ![s] = FALSE]
  /\ Fault("scheduler_stop")
  /\ UNCHANGED <<jobRows, workerRows, brokerVars>>
=============================================================================
