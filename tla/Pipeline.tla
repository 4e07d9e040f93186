------------------------------ MODULE Pipeline ------------------------------
(***************************************************************************)
(* The whole job pipeline: the API's writes, the schedulers, the workers   *)
(* and the result collectors, over one database and one broker.            *)
(***************************************************************************)
EXTENDS Scheduler, WorkerNode, ResultCollector

vars == <<jobRows, workerRows, brokerVars, faults,
          schedulerVars, nodeVars, collectorVars>>

\* The faults after which nobody carries a dispatched attempt although its
\* worker lives, and the faults after which a job may be dispatched again
\* although an earlier attempt is still alive.  "publish_error" is neither: the
\* rollback undoes it.
LosingFaults ==
  {"fetch_reply_lost", "unacked_write", "db_error", "scheduler_stop", "report_lost"}
RepeatingFaults ==
  {"publish_ambiguous", "redelivery", "worker_stop", "late_heartbeat", "collector_stop"}

\* Every variable has its type.
TypeOK ==
  /\ RepositoryTypeOK
  /\ BrokerTypeOK
  /\ FaultsTypeOK
  /\ SchedulerTypeOK
  /\ WorkerNodeTypeOK
  /\ ResultCollectorTypeOK

Init ==
  /\ RepositoryInit
  /\ BrokerInit
  /\ FaultsInit
  /\ SchedulerInit
  /\ WorkerNodeInit
  /\ ResultCollectorInit

-----------------------------------------------------------------------------
(***************************************************************************)
(* The API server: handler.SubmitJob and handler.CancelJob, each one       *)
(* statement of the repository.                                            *)
(***************************************************************************)

SubmitJob(j) ==
  /\ Create(j)
  /\ NoFault
  /\ UNCHANGED <<workerRows, brokerVars>>

CancelJob(j) ==
  /\ Cancel(j)
  /\ NoFault
  /\ UNCHANGED <<workerRows, brokerVars>>

ApiStep == \E j \in Jobs : SubmitJob(j) \/ CancelJob(j)

-----------------------------------------------------------------------------
(***************************************************************************)
(* The processes, each apart from its faults.                              *)
(***************************************************************************)

DispatcherStep(s) ==
  \/ FetchHealthy(s)
  \/ \E row \in snapshot[s] : AssignJobs(s, row)
  \/ \E m \in batch[s] : PublishJob(s, m)
  \/ \E m \in undo[s] : Rollback(s, m)

MonitorStep(s) == SweepWorkers(s) \/ SweepJobs(s)

HeartbeatConsumerStep == \E h \in heartbeatsTopic : HandleHeartbeat(h)

NodeStep(w) ==
  \/ StartWorker(w)
  \/ SendHeartbeat(w)
  \/ \E m \in jobsTopic : ReceiveJob(w, m)
  \/ \E m \in jobChan[w] : StartJob(w, m)
  \/ \E m \in executing[w], ok \in BOOLEAN : FinishJob(w, m, ok)
  \/ LastHeartbeatGrowsStale(w)

CollectorStep(c) ==
  \/ \E m \in resultsTopic : HandleSuccess(c, m) \/ HandleFailure(c, m)
  \/ \E m \in handling[c] : PublishDeadLetter(c, m) \/ CommitResult(c, m)

SchedulerFault(s) ==
  \/ \E row \in snapshot[s] : AssignJobsReplyLost(s, row)
  \/ \E m \in batch[s], written \in BOOLEAN : PublishJobFails(s, m, written)
  \/ \E m \in batch[s] : PublishJobUnacked(s, m)
  \/ \E m \in undo[s] : RollbackFails(s, m)
  \/ SweepJobsFails(s)
  \/ StopScheduler(s)

HeartbeatConsumerFault == \E h \in heartbeatsTopic : HandleHeartbeatUncommitted(h)

NodeFault(w) ==
  \/ \E m \in jobsTopic : ReceiveJobUncommitted(w, m)
  \/ \E m \in executing[w] : FinishJobUnreported(w, m)
  \/ StopWorker(w)
  \/ HeartbeatDelayed(w)

CollectorFault(c) ==
  \/ \E m \in handling[c] : PublishDeadLetterUnacked(c, m)
  \/ StopCollector(c)

ApiFrame == UNCHANGED <<schedulerVars, nodeVars, collectorVars>>
SchedulerFrame == UNCHANGED <<nodeVars, collectorVars>>
NodeFrame == UNCHANGED <<schedulerVars, collectorVars>>
CollectorFrame == UNCHANGED <<schedulerVars, nodeVars>>

Next ==
  \/ ApiStep /\ ApiFrame
  \/ /\ \/ \E s \in Schedulers : DispatcherStep(s) \/ MonitorStep(s) \/ SchedulerFault(s)
        \/ HeartbeatConsumerStep \/ HeartbeatConsumerFault
     /\ SchedulerFrame
  \/ (\E w \in Workers : NodeStep(w) \/ NodeFault(w)) /\ NodeFrame
  \/ (\E c \in Collectors : CollectorStep(c) \/ CollectorFault(c)) /\ CollectorFrame

Spec == Init /\ [][Next]_vars

-----------------------------------------------------------------------------
(***************************************************************************)
(* Fairness.  Every goroutine goes on: the dispatcher and the monitor are  *)
(* driven by tickers, the consumers by blocking reads, the runners return. *)
(* No fairness on the API's clients and none on faults.                    *)
(***************************************************************************)

SchedulerFairness(s) ==
  /\ WF_vars(DispatcherStep(s) /\ SchedulerFrame)
  /\ WF_vars(MonitorStep(s) /\ SchedulerFrame)

NodeFairness(w) ==
  /\ WF_vars(StartWorker(w) /\ NodeFrame)
  /\ WF_vars(SendHeartbeat(w) /\ NodeFrame)
  /\ WF_vars((\E h \in PendingHeartbeats(w) : HandleHeartbeat(h)) /\ SchedulerFrame)
  /\ WF_vars((\E m \in jobsTopic : ReceiveJob(w, m)) /\ NodeFrame)
  /\ WF_vars((\E m \in jobChan[w] : StartJob(w, m)) /\ NodeFrame)
  /\ WF_vars((\E m \in executing[w], ok \in BOOLEAN : FinishJob(w, m, ok)) /\ NodeFrame)
  /\ WF_vars(LastHeartbeatGrowsStale(w) /\ NodeFrame)

CollectorFairness(c) == WF_vars(CollectorStep(c) /\ CollectorFrame)

FairSpec ==
  /\ Spec
  /\ \A s \in Schedulers : SchedulerFairness(s)
  /\ \A w \in Workers : NodeFairness(w)
  /\ \A c \in Collectors : CollectorFairness(c)

-----------------------------------------------------------------------------
(***************************************************************************)
(* Properties.                                                             *)
(***************************************************************************)

\* The attempts that are somewhere on their way: fetched by a dispatcher, on
\* the jobs topic, in a worker, or reported and not committed yet.
AtDispatchers == UNION {batch[s] \cup undo[s] : s \in Schedulers}
AtWorkers == UNION {jobChan[w] \cup executing[w] : w \in Workers}
Reported == {AttemptOf(r) : r \in resultsTopic}
Attempts == AtDispatchers \cup jobsTopic \cup AtWorkers \cup Reported

\* jobs.attempts identifies a dispatch: two records of the same attempt of a
\* job, wherever they are (a batch, a topic, a channel, a running goroutine or
\* an unhandled result), name the same worker, however often publications
\* fail, jobs are requeued and messages are delivered twice.  A result or a
\* fence keyed by (job, attempts) would therefore be unambiguous.
AttemptHasOneWorker ==
  \A m, n \in Attempts :
    m.job = n.job /\ m.attempts = n.attempts => m.worker = n.worker

\* A job not inserted yet or QUEUED belongs to nobody, and a RUNNING one belongs
\* to a worker that has a row: RequeueStale finds abandoned jobs through the
\* workers table only, so a RUNNING job without such a worker is never rescued.
OwnershipMatchesStatus ==
  \A j \in Jobs :
    /\ jobStatus[j] \in {"ABSENT", "QUEUED"} => jobWorker[j] = NoWorker
    /\ jobStatus[j] = "RUNNING" =>
         /\ jobWorker[j] \in Workers
         /\ workerStatus[jobWorker[j]] # "ABSENT"

\* The dead letter queue holds no job that could have been retried: when
\* HandleResult publishes to it, the job has used up its attempts.
OnlyExhaustedEnterDLQ ==
  \A m \in deadLettersTopic : ~m.success /\ jobAttempts[m.job] >= MaxAttempts

\* No dead letter is lost: a result that made MarkFailed answer DEAD is on the
\* dead-letters topic or will be handled again, across crashes of the collector
\* between the update, the publication and the commit.
DeadLetterNotLost ==
  condemned \subseteq deadLettersTopic \cup resultsTopic

\* A RUNNING job is never forgotten: its current attempt is still with the
\* dispatcher, on a topic, in its worker or reported, or its worker is down and
\* the monitor's sweep will give the job back.
NoStrandedJob ==
  \A j \in Jobs : jobStatus[j] = "RUNNING" =>
    \/ nodeState[jobWorker[j]] = "down"
    \/ [job |-> j, worker |-> jobWorker[j], attempts |-> jobAttempts[j]] \in Attempts

\* A job never runs on two workers, nor twice on one, at the same time.
NoOverlappingExecution ==
  \A v, w \in Workers : \A m \in executing[v], n \in executing[w] :
    m.job = n.job => v = w /\ m = n

\* The statuses of the jobs change only as the abstract life cycle allows.
Lifecycle == INSTANCE JobLifecycle WITH status <- jobStatus, attempts <- jobAttempts
LifecycleSpec == Lifecycle!Spec

\* Once DEAD, for instance because its owner cancelled it, a job stays DEAD.
DeadIsFinal ==
  [][\A j \in Jobs : jobStatus[j] = "DEAD" => jobStatus'[j] = "DEAD"]_vars

\* Every submitted job comes to an end and stays there: COMPLETED or DEAD.
EveryJobSettles ==
  \A j \in Jobs : <>[](jobStatus[j] \in {"ABSENT", "COMPLETED", "DEAD"})
=============================================================================
