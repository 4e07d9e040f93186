----------------------------- MODULE WorkerNode -----------------------------
(***************************************************************************)
(* cmd/worker: the heartbeat loop, the Kafka job consumer that feeds       *)
(* jobChan, and the executor that drains it.                               *)
(*                                                                         *)
(* A worker UUID lives once: it is drawn when the process starts and never *)
(* used again after the process ends.  jobChan is a set here; the messages *)
(* in it are executed in any order, of which FIFO is one.                  *)
(***************************************************************************)
EXTENDS Repository, Broker, Faults

CONSTANTS
  MaxConcurr,      \* maxConcurr, the size of the executor's semaphore
  JobChanSize,     \* the jobs received and not started: the buffer of jobChan
                   \* and the one the executor holds while it waits for a slot
  HeartbeatBacklog \* model bound: the heartbeats in flight at a time

ASSUME WorkerNodeAssumption ==
  /\ MaxConcurr \in Nat \ {0}
  /\ JobChanSize \in Nat \ {0}
  /\ HeartbeatBacklog \in Nat \ {0}

VARIABLES
  nodeState,   \* "new" before main, "up" while it runs, "down" after it
  jobChan,     \* jobChan
  executing    \* the jobs whose goroutine runs; runningCount counts them

nodeVars == <<nodeState, jobChan, executing>>

NodeState == {"new", "up", "down"}

WorkerNodeTypeOK ==
  /\ nodeState \in [Workers -> NodeState]
  /\ jobChan \in [Workers -> SUBSET JobMessage]
  /\ executing \in [Workers -> SUBSET JobMessage]
  /\ \A w \in Workers : IsFiniteSet(executing[w])

WorkerNodeInit ==
  /\ nodeState = [w \in Workers |-> "new"]
  /\ jobChan = [w \in Workers |-> {}]
  /\ executing = [w \in Workers |-> {}]

-----------------------------------------------------------------------------
\* Variant of Heartbeat: runningCount is decremented once too often.
HeartbeatMiscounted(w) ==
  [worker |-> w, running |-> Cardinality(executing[w]) - 1]

\* sendHeartbeat reads executor.RunningJobs().
Heartbeat(w) == [worker |-> w, running |-> Cardinality(executing[w])]

PendingHeartbeats(w) == {h \in heartbeatsTopic : h.worker = w}

\* main: the first heartbeat is sent at once.
StartWorker(w) ==
  /\ nodeState[w] = "new"
  /\ Cardinality(heartbeatsTopic) < HeartbeatBacklog
  /\ nodeState' = [nodeState EXCEPT ![w] = "up"]
  /\ heartbeatsTopic' = WriteMessage(heartbeatsTopic, Heartbeat(w))
  /\ NoFault
  /\ UNCHANGED <<jobChan, executing, jobRows, workerRows,
                 jobsTopic, resultsTopic, deadLettersTopic>>

\* A tick of the heartbeat loop.
SendHeartbeat(w) ==
  /\ nodeState[w] = "up"
  /\ Cardinality(heartbeatsTopic) < HeartbeatBacklog
  /\ heartbeatsTopic' = WriteMessage(heartbeatsTopic, Heartbeat(w))
  /\ NoFault
  /\ UNCHANGED <<nodeVars, jobRows, workerRows,
                 jobsTopic, resultsTopic, deadLettersTopic>>

-----------------------------------------------------------------------------
\* Every worker reads the whole topic and drops what is not its own.
AddressedTo(m, w) == m.worker = w

\* handle delivers the job to jobChan; while the channel is full it blocks.
CanReceive(w, m) ==
  /\ nodeState[w] = "up"
  /\ m \in jobsTopic
  /\ AddressedTo(m, w)
  /\ Cardinality(jobChan[w]) < JobChanSize

ReceiveJob(w, m) ==
  /\ CanReceive(w, m)
  /\ jobChan' = [jobChan EXCEPT ![w] = @ \cup {m}]
  /\ jobsTopic' = CommitMessage(jobsTopic, m)
  /\ NoFault
  /\ UNCHANGED <<nodeState, executing, jobRows, workerRows,
                 resultsTopic, heartbeatsTopic, deadLettersTopic>>

\* The commit fails: the message is delivered again.
ReceiveJobUncommitted(w, m) ==
  /\ CanReceive(w, m)
  /\ jobChan' = [jobChan EXCEPT ![w] = @ \cup {m}]
  /\ Fault("redelivery")
  /\ UNCHANGED <<nodeState, executing, jobRows, workerRows, brokerVars>>

SlotFree(w) == Cardinality(executing[w]) < MaxConcurr

\* Executor.Run takes a job from jobChan and starts its goroutine.
StartJob(w, m) ==
  /\ m \in jobChan[w]
  /\ SlotFree(w)
  /\ jobChan' = [jobChan EXCEPT ![w] = @ \ {m}]
  /\ executing' = [executing EXCEPT ![w] = @ \cup {m}]
  /\ NoFault
  /\ UNCHANGED <<nodeState, jobRows, workerRows, brokerVars>>

\* The result carries the worker's own id and the message's attempt.
Result(w, m, ok) ==
  [job |-> m.job, worker |-> w, attempts |-> m.attempts, success |-> ok]

\* execute: the runner returns (or the type has none: a failure) and the
\* outcome is reported.
FinishJob(w, m, ok) ==
  /\ m \in executing[w]
  /\ executing' = [executing EXCEPT ![w] = @ \ {m}]
  /\ resultsTopic' = WriteMessage(resultsTopic, Result(w, m, ok))
  /\ NoFault
  /\ UNCHANGED <<nodeState, jobChan, jobRows, workerRows,
                 jobsTopic, heartbeatsTopic, deadLettersTopic>>

\* ReportResult fails, or its unacknowledged write is lost: the error is at
\* most logged and the worker forgets the job.
FinishJobUnreported(w, m) ==
  /\ m \in executing[w]
  /\ executing' = [executing EXCEPT ![w] = @ \ {m}]
  /\ Fault("report_lost")
  /\ UNCHANGED <<nodeState, jobChan, jobRows, workerRows, brokerVars>>

-----------------------------------------------------------------------------
\* A crash, a signal, or a failed job consumer: main returns without waiting
\* for the executor, and the jobs in jobChan and in flight are gone.
StopWorker(w) ==
  /\ nodeState[w] = "up"
  /\ nodeState' = [nodeState EXCEPT ![w] = "down"]
  /\ jobChan' = [jobChan EXCEPT ![w] = {}]
  /\ executing' = [executing EXCEPT ![w] = {}]
  /\ Fault("worker_stop")
  /\ UNCHANGED <<jobRows, workerRows, brokerVars>>

\* A worker that has ended sends no heartbeat: its last one grows stale.
LastHeartbeatGrowsStale(w) ==
  /\ nodeState[w] = "down"
  /\ HeartbeatGrowsStale(w)
  /\ NoFault
  /\ UNCHANGED <<jobRows, nodeVars, brokerVars>>

\* A pause, a partition or a backlog delays the heartbeats of a live worker.
HeartbeatDelayed(w) ==
  /\ nodeState[w] = "up"
  /\ HeartbeatGrowsStale(w)
  /\ Fault("late_heartbeat")
  /\ UNCHANGED <<jobRows, nodeVars, brokerVars>>
=============================================================================
