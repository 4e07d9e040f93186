--------------------------- MODULE PipelineProofs ---------------------------
(***************************************************************************)
(* Theorems about the pipeline, for any number of jobs, workers,           *)
(* schedulers, collectors and faults.  In this order:                      *)
(*                                                                         *)
(*   TypeCorrect                            every variable has its type    *)
(*   AttemptUnique                          an attempt has one worker      *)
(*   OwnershipSafe, LifecycleImplemented    the rows of the jobs table     *)
(*   DeadLettersExhausted, DeadLettersSafe  the dead letter queue          *)
(*   NoJobStranded                          no running job is forgotten    *)
(*   NoOverlap                              no job runs twice at once      *)
(***************************************************************************)
EXTENDS Pipeline, FiniteSetTheorems, TLAPS

-----------------------------------------------------------------------------
(***************************************************************************)
(* What the statements of the repository do to the types of the rows.      *)
(***************************************************************************)

LEMMA JobRowsTyped ==
  ASSUME RepositoryTypeOK, UNCHANGED workerRows,
         \/ \E j \in Jobs : \/ Create(j) \/ Cancel(j) \/ RollbackToQueued(j)
                            \/ MarkCompleted(j) \/ MarkFailed(j)
         \/ \E w \in Workers, limit \in Int : FetchPending(w, limit)
         \/ RequeueStale
  PROVE  RepositoryTypeOK'
<1> USE DEF RepositoryTypeOK, JobRowStatus, JobStatus, workerRows
<1>1. CASE \E j \in Jobs : Create(j) \/ Cancel(j)
  BY <1>1 DEF Create, Cancel
<1>2. CASE \E j \in Jobs : RollbackToQueued(j)
  BY <1>2 DEF RollbackToQueued, Requeue
<1>3. CASE \E j \in Jobs : MarkCompleted(j) \/ MarkFailed(j)
  BY <1>3 DEF MarkCompleted, MarkFailed, setStatus, FailedStatus
<1>4. CASE \E w \in Workers, limit \in Int : FetchPending(w, limit)
  BY <1>4 DEF FetchPending, ClaimedBy, NextAttempt
<1>5. CASE RequeueStale
  BY <1>5 DEF RequeueStale, Requeue
<1> QED BY <1>1, <1>2, <1>3, <1>4, <1>5

LEMMA WorkerRowsTyped ==
  ASSUME RepositoryTypeOK, UNCHANGED jobRows,
         \/ \E h \in HeartbeatMessage : UpsertHeartbeat(h.worker, h.running)
         \/ MarkUnhealthy
         \/ \E w \in Workers : HeartbeatGrowsStale(w)
  PROVE  RepositoryTypeOK'
<1> USE DEF RepositoryTypeOK, WorkerRowStatus, WorkerStatus, jobRows
<1>1. CASE \E h \in HeartbeatMessage : UpsertHeartbeat(h.worker, h.running)
  BY <1>1 DEF UpsertHeartbeat, RevivedStatus, HeartbeatMessage
<1>2. CASE MarkUnhealthy
  BY <1>2 DEF MarkUnhealthy
<1>3. CASE \E w \in Workers : HeartbeatGrowsStale(w)
  BY <1>3 DEF HeartbeatGrowsStale
<1> QED BY <1>1, <1>2, <1>3

LEMMA RowsUnchangedTyped ==
  ASSUME RepositoryTypeOK, UNCHANGED <<jobRows, workerRows>>
  PROVE  RepositoryTypeOK'
BY DEF RepositoryTypeOK, jobRows, workerRows

\* Components whose variables a step leaves alone keep their types.
LEMMA BrokerUnchangedTyped ==
  ASSUME BrokerTypeOK, UNCHANGED brokerVars PROVE BrokerTypeOK'
BY DEF BrokerTypeOK, brokerVars

LEMMA SchedulerUnchangedTyped ==
  ASSUME SchedulerTypeOK, UNCHANGED schedulerVars PROVE SchedulerTypeOK'
BY DEF SchedulerTypeOK, schedulerVars

LEMMA NodeUnchangedTyped ==
  ASSUME WorkerNodeTypeOK, UNCHANGED nodeVars PROVE WorkerNodeTypeOK'
BY DEF WorkerNodeTypeOK, nodeVars

LEMMA CollectorUnchangedTyped ==
  ASSUME ResultCollectorTypeOK, UNCHANGED collectorVars PROVE ResultCollectorTypeOK'
BY DEF ResultCollectorTypeOK, collectorVars

LEMMA FaultsTyped ==
  ASSUME FaultsTypeOK, NoFault \/ \E kind : Fault(kind)
  PROVE  FaultsTypeOK'
BY FaultsAssumption DEF FaultsTypeOK, NoFault, Fault

\* The rows a tick fetches are well-formed messages.
LEMMA FetchedTyped ==
  ASSUME RepositoryTypeOK, NEW w \in Workers, NEW limit \in Int
  PROVE  Fetched(w, limit) \subseteq JobMessage
<1>1. Picked(limit) \subseteq Jobs
  BY DEF Picked, Pending
<1>2. \A j \in Jobs : NextAttempt(j) \in Nat
  BY DEF NextAttempt, RepositoryTypeOK
<1> QED BY <1>1, <1>2 DEF Fetched, JobMessage

-----------------------------------------------------------------------------
(***************************************************************************)
(* Type correctness, one lemma per process.                                *)
(***************************************************************************)

LEMMA ApiTyped ==
  ASSUME TypeOK, ApiStep, ApiFrame
  PROVE  TypeOK'
<1>1. PICK j \in Jobs : SubmitJob(j) \/ CancelJob(j)
  BY DEF ApiStep
<1>2. UNCHANGED workerRows /\ (Create(j) \/ Cancel(j)) /\ NoFault
  BY <1>1 DEF SubmitJob, CancelJob
<1>3. UNCHANGED brokerVars
  BY <1>1 DEF SubmitJob, CancelJob
<1>4. RepositoryTypeOK'
  BY <1>2, JobRowsTyped DEF TypeOK
<1> QED
  BY <1>2, <1>3, <1>4, BrokerUnchangedTyped, SchedulerUnchangedTyped,
     NodeUnchangedTyped, CollectorUnchangedTyped, FaultsTyped DEF TypeOK, ApiFrame

LEMMA SchedulerTyped ==
  ASSUME TypeOK, NEW s \in Schedulers,
         DispatcherStep(s) \/ MonitorStep(s) \/ SchedulerFault(s),
         SchedulerFrame
  PROVE  TypeOK'
<1> USE DEF TypeOK
<1>1. WorkerNodeTypeOK' /\ ResultCollectorTypeOK'
  BY NodeUnchangedTyped, CollectorUnchangedTyped DEF SchedulerFrame
<1> SUFFICES RepositoryTypeOK' /\ BrokerTypeOK' /\ FaultsTypeOK' /\ SchedulerTypeOK'
  BY <1>1
<1>2. CASE FetchHealthy(s)
  <2>1. HealthyRows \subseteq HeartbeatMessage
    BY DEF HealthyRows, Healthy, HeartbeatMessage, RepositoryTypeOK
  <2> QED
    BY <1>2, <2>1, RowsUnchangedTyped, BrokerUnchangedTyped, FaultsTyped
    DEF FetchHealthy, SchedulerTypeOK
<1>3. ASSUME NEW row \in snapshot[s], AssignJobs(s, row) \/ AssignJobsReplyLost(s, row)
      PROVE  RepositoryTypeOK' /\ BrokerTypeOK' /\ FaultsTypeOK' /\ SchedulerTypeOK'
  <2>1. row.worker \in Workers /\ Capacity(row) \in Int
    BY SchedulerAssumption DEF SchedulerTypeOK, HeartbeatMessage, Capacity
  <2>2. RepositoryTypeOK'
    BY <1>3, <2>1, JobRowsTyped DEF AssignJobs, AssignJobsReplyLost
  <2>3. SchedulerTypeOK'
    BY <1>3, <2>1, FetchedTyped DEF AssignJobs, AssignJobsReplyLost, SchedulerTypeOK
  <2> QED
    BY <1>3, <2>2, <2>3, BrokerUnchangedTyped, FaultsTyped
    DEF AssignJobs, AssignJobsReplyLost
<1>4. ASSUME NEW m \in batch[s],
             \/ PublishJob(s, m) \/ PublishJobUnacked(s, m)
             \/ \E written \in BOOLEAN : PublishJobFails(s, m, written)
      PROVE  RepositoryTypeOK' /\ BrokerTypeOK' /\ FaultsTypeOK' /\ SchedulerTypeOK'
  <2>1. m \in JobMessage
    BY DEF SchedulerTypeOK
  <2>2. UNCHANGED <<jobRows, workerRows>> /\ (NoFault \/ \E kind : Fault(kind))
    BY <1>4 DEF PublishJob, PublishJobUnacked, PublishJobFails
  <2>3. BrokerTypeOK'
    BY <1>4, <2>1
    DEF PublishJob, PublishJobUnacked, PublishJobFails, WriteMessage, BrokerTypeOK, brokerVars
  <2>4. SchedulerTypeOK'
    BY <1>4, <2>1
    DEF PublishJob, PublishJobUnacked, PublishJobFails, ToRollBack, SchedulerTypeOK
  <2> QED
    BY <2>2, <2>3, <2>4, RowsUnchangedTyped, FaultsTyped
<1>5. ASSUME NEW m \in undo[s], Rollback(s, m) \/ RollbackFails(s, m)
      PROVE  RepositoryTypeOK' /\ BrokerTypeOK' /\ FaultsTypeOK' /\ SchedulerTypeOK'
  <2>1. m.job \in Jobs
    BY DEF SchedulerTypeOK, JobMessage
  <2>2. RepositoryTypeOK'
    BY <1>5, <2>1, JobRowsTyped, RowsUnchangedTyped DEF Rollback, RollbackFails
  <2>3. SchedulerTypeOK'
    BY <1>5 DEF Rollback, RollbackFails, SchedulerTypeOK
  <2> QED
    BY <1>5, <2>2, <2>3, BrokerUnchangedTyped, FaultsTyped DEF Rollback, RollbackFails
<1>6. CASE SweepWorkers(s) \/ SweepJobs(s) \/ SweepJobsFails(s)
  <2>1. RepositoryTypeOK'
    BY <1>6, JobRowsTyped, WorkerRowsTyped, RowsUnchangedTyped
    DEF SweepWorkers, SweepJobs, SweepJobsFails
  <2>2. SchedulerTypeOK'
    BY <1>6 DEF SweepWorkers, SweepJobs, SweepJobsFails, SchedulerTypeOK
  <2> QED
    BY <1>6, <2>1, <2>2, BrokerUnchangedTyped, FaultsTyped
    DEF SweepWorkers, SweepJobs, SweepJobsFails
<1>7. CASE StopScheduler(s)
  BY <1>7, RowsUnchangedTyped, BrokerUnchangedTyped, FaultsTyped
  DEF StopScheduler, SchedulerTypeOK
<1> QED
  BY <1>2, <1>3, <1>4, <1>5, <1>6, <1>7
  DEF DispatcherStep, MonitorStep, SchedulerFault

LEMMA HeartbeatConsumerTyped ==
  ASSUME TypeOK, HeartbeatConsumerStep \/ HeartbeatConsumerFault, SchedulerFrame
  PROVE  TypeOK'
<1>1. PICK h \in heartbeatsTopic : HandleHeartbeat(h) \/ HandleHeartbeatUncommitted(h)
  BY DEF HeartbeatConsumerStep, HeartbeatConsumerFault
<1>2. RepositoryTypeOK'
  BY <1>1, WorkerRowsTyped
  DEF HandleHeartbeat, HandleHeartbeatUncommitted, TypeOK, BrokerTypeOK
<1>3. BrokerTypeOK'
  BY <1>1
  DEF HandleHeartbeat, HandleHeartbeatUncommitted, CommitMessage, TypeOK, BrokerTypeOK, brokerVars
<1>4. SchedulerTypeOK' /\ FaultsTypeOK'
  BY <1>1, SchedulerUnchangedTyped, FaultsTyped
  DEF HandleHeartbeat, HandleHeartbeatUncommitted, TypeOK
<1> QED
  BY <1>2, <1>3, <1>4, NodeUnchangedTyped, CollectorUnchangedTyped DEF TypeOK, SchedulerFrame

LEMMA NodeTyped ==
  ASSUME TypeOK, NEW w \in Workers, NodeStep(w) \/ NodeFault(w), NodeFrame
  PROVE  TypeOK'
<1> USE DEF TypeOK
<1>1. SchedulerTypeOK' /\ ResultCollectorTypeOK'
  BY SchedulerUnchangedTyped, CollectorUnchangedTyped DEF NodeFrame
<1> SUFFICES RepositoryTypeOK' /\ BrokerTypeOK' /\ FaultsTypeOK' /\ WorkerNodeTypeOK'
  BY <1>1
<1>2. CASE StartWorker(w) \/ SendHeartbeat(w)
  <2>1. Heartbeat(w) \in HeartbeatMessage
    BY FS_CardinalityType DEF Heartbeat, HeartbeatMessage, WorkerNodeTypeOK
  <2>2. BrokerTypeOK'
    BY <1>2, <2>1 DEF StartWorker, SendHeartbeat, WriteMessage, BrokerTypeOK
  <2>3. WorkerNodeTypeOK'
    BY <1>2 DEF StartWorker, SendHeartbeat, WorkerNodeTypeOK, NodeState, nodeVars
  <2> QED
    BY <1>2, <2>2, <2>3, RowsUnchangedTyped, FaultsTyped DEF StartWorker, SendHeartbeat
<1>3. ASSUME NEW m \in jobsTopic, ReceiveJob(w, m) \/ ReceiveJobUncommitted(w, m)
      PROVE  RepositoryTypeOK' /\ BrokerTypeOK' /\ FaultsTypeOK' /\ WorkerNodeTypeOK'
  <2>1. m \in JobMessage
    BY DEF BrokerTypeOK
  <2>2. BrokerTypeOK'
    BY <1>3 DEF ReceiveJob, ReceiveJobUncommitted, CommitMessage, BrokerTypeOK, brokerVars
  <2>3. WorkerNodeTypeOK'
    BY <1>3, <2>1 DEF ReceiveJob, ReceiveJobUncommitted, WorkerNodeTypeOK
  <2> QED
    BY <1>3, <2>2, <2>3, RowsUnchangedTyped, FaultsTyped DEF ReceiveJob, ReceiveJobUncommitted
<1>4. ASSUME NEW m \in jobChan[w], StartJob(w, m)
      PROVE  RepositoryTypeOK' /\ BrokerTypeOK' /\ FaultsTypeOK' /\ WorkerNodeTypeOK'
  <2>1. IsFiniteSet(executing[w] \cup {m})
    BY FS_AddElement DEF WorkerNodeTypeOK
  <2>2. WorkerNodeTypeOK'
    BY <1>4, <2>1 DEF StartJob, WorkerNodeTypeOK
  <2> QED
    BY <1>4, <2>2, RowsUnchangedTyped, BrokerUnchangedTyped, FaultsTyped DEF StartJob
<1>5. ASSUME NEW m \in executing[w],
             FinishJobUnreported(w, m) \/ \E ok \in BOOLEAN : FinishJob(w, m, ok)
      PROVE  RepositoryTypeOK' /\ BrokerTypeOK' /\ FaultsTypeOK' /\ WorkerNodeTypeOK'
  <2>1. IsFiniteSet(executing[w] \ {m})
    BY FS_RemoveElement DEF WorkerNodeTypeOK
  <2>2. \A ok \in BOOLEAN : Result(w, m, ok) \in ResultMessage
    BY DEF WorkerNodeTypeOK, JobMessage, ResultMessage, Result
  <2>3. BrokerTypeOK'
    BY <1>5, <2>2 DEF FinishJob, FinishJobUnreported, WriteMessage, BrokerTypeOK, brokerVars
  <2>4. WorkerNodeTypeOK'
    BY <1>5, <2>1 DEF FinishJob, FinishJobUnreported, WorkerNodeTypeOK
  <2> QED
    BY <1>5, <2>3, <2>4, RowsUnchangedTyped, FaultsTyped DEF FinishJob, FinishJobUnreported
<1>6. CASE StopWorker(w)
  BY <1>6, FS_EmptySet, RowsUnchangedTyped, BrokerUnchangedTyped, FaultsTyped
  DEF StopWorker, WorkerNodeTypeOK, NodeState
<1>7. CASE LastHeartbeatGrowsStale(w) \/ HeartbeatDelayed(w)
  BY <1>7, WorkerRowsTyped, NodeUnchangedTyped, BrokerUnchangedTyped, FaultsTyped
  DEF LastHeartbeatGrowsStale, HeartbeatDelayed
<1> QED
  BY <1>2, <1>3, <1>4, <1>5, <1>6, <1>7 DEF NodeStep, NodeFault

LEMMA CollectorTyped ==
  ASSUME TypeOK, NEW c \in Collectors, CollectorStep(c) \/ CollectorFault(c), CollectorFrame
  PROVE  TypeOK'
<1> USE DEF TypeOK
<1>1. SchedulerTypeOK' /\ WorkerNodeTypeOK'
  BY SchedulerUnchangedTyped, NodeUnchangedTyped DEF CollectorFrame
<1> SUFFICES RepositoryTypeOK' /\ BrokerTypeOK' /\ FaultsTypeOK' /\ ResultCollectorTypeOK'
  BY <1>1
<1>2. ASSUME NEW m \in resultsTopic, HandleSuccess(c, m) \/ HandleFailure(c, m)
      PROVE  RepositoryTypeOK' /\ BrokerTypeOK' /\ FaultsTypeOK' /\ ResultCollectorTypeOK'
  <2>1. m \in ResultMessage /\ m.job \in Jobs
    BY DEF BrokerTypeOK, ResultMessage
  <2>2. RepositoryTypeOK'
    BY <1>2, <2>1, JobRowsTyped DEF HandleSuccess, HandleFailure
  <2>3. ResultCollectorTypeOK'
    BY <1>2, <2>1
    DEF HandleSuccess, HandleFailure, FetchResult, AfterFailure, ResultCollectorTypeOK, Stage
  <2> QED
    BY <1>2, <2>2, <2>3, BrokerUnchangedTyped, FaultsTyped DEF HandleSuccess, HandleFailure
<1>3. ASSUME NEW m \in handling[c],
             \/ PublishDeadLetter(c, m) \/ PublishDeadLetterUnacked(c, m)
             \/ CommitResult(c, m)
      PROVE  RepositoryTypeOK' /\ BrokerTypeOK' /\ FaultsTypeOK' /\ ResultCollectorTypeOK'
  <2>1. m \in ResultMessage
    BY DEF ResultCollectorTypeOK
  <2>2. BrokerTypeOK'
    BY <1>3, <2>1
    DEF PublishDeadLetter, PublishDeadLetterUnacked, CommitResult, WriteMessage,
        CommitMessage, BrokerTypeOK, brokerVars
  <2>3. ResultCollectorTypeOK'
    BY <1>3, <2>1
    DEF PublishDeadLetter, PublishDeadLetterUnacked, CommitResult, ResultCollectorTypeOK, Stage
  <2> QED
    BY <1>3, <2>2, <2>3, RowsUnchangedTyped, FaultsTyped
    DEF PublishDeadLetter, PublishDeadLetterUnacked, CommitResult
<1>4. CASE StopCollector(c)
  BY <1>4, RowsUnchangedTyped, BrokerUnchangedTyped, FaultsTyped
  DEF StopCollector, ResultCollectorTypeOK, Stage
<1> QED
  BY <1>2, <1>3, <1>4 DEF CollectorStep, CollectorFault

LEMMA NextTyped ==
  ASSUME TypeOK, [Next]_vars
  PROVE  TypeOK'
<1>1. CASE Next
  BY <1>1, ApiTyped, SchedulerTyped, HeartbeatConsumerTyped, NodeTyped, CollectorTyped
  DEF Next
<1>2. CASE UNCHANGED vars
  <2>1. faults' = faults
    BY <1>2 DEF vars
  <2>2. FaultsTypeOK'
    BY <2>1 DEF TypeOK, FaultsTypeOK
  <2> QED
    BY <1>2, <2>2, RowsUnchangedTyped, BrokerUnchangedTyped, SchedulerUnchangedTyped,
       NodeUnchangedTyped, CollectorUnchangedTyped DEF vars, TypeOK
<1> QED BY <1>1, <1>2

LEMMA InitTyped == Init => TypeOK
BY FaultsAssumption, FS_EmptySet
DEF Init, TypeOK, RepositoryInit, RepositoryTypeOK, JobRowStatus, JobStatus,
    WorkerRowStatus, WorkerStatus, BrokerInit, BrokerTypeOK, FaultsInit, FaultsTypeOK,
    SchedulerInit, SchedulerTypeOK, WorkerNodeInit, WorkerNodeTypeOK, NodeState,
    ResultCollectorInit, ResultCollectorTypeOK, Stage

\* Type correctness of the pipeline, whatever the faults: no statement, message
\* or process of the code ever produces a value of another kind.
THEOREM TypeCorrect == Spec => []TypeOK
<1>1. Init => TypeOK
  BY InitTyped
<1>2. TypeOK /\ [Next]_vars => TypeOK'
  BY NextTyped
<1> QED BY <1>1, <1>2, PTL DEF Spec

-----------------------------------------------------------------------------
(***************************************************************************)
(* Where attempts come from.                                               *)
(***************************************************************************)

\* Membership in Attempts without unions of sets, now and after a step.
Carried(m) ==
  \/ \E s \in Schedulers : m \in batch[s] \/ m \in undo[s]
  \/ m \in jobsTopic
  \/ \E w \in Workers : m \in jobChan[w] \/ m \in executing[w]
  \/ \E r \in resultsTopic : m = AttemptOf(r)

LEMMA UnionMember ==
  ASSUME NEW D, NEW f, NEW g, NEW x
  PROVE  x \in UNION {f[d] \cup g[d] : d \in D} <=> \E d \in D : x \in f[d] \/ x \in g[d]
OBVIOUS

LEMMA AttemptsCarried == \A m : m \in Attempts <=> Carried(m)
<1> TAKE m
<1>1. m \in AtDispatchers <=> \E s \in Schedulers : m \in batch[s] \/ m \in undo[s]
  BY UnionMember DEF AtDispatchers
<1>2. m \in AtWorkers <=> \E w \in Workers : m \in jobChan[w] \/ m \in executing[w]
  BY UnionMember DEF AtWorkers
<1>3. m \in Reported <=> \E r \in resultsTopic : m = AttemptOf(r)
  BY DEF Reported
<1> QED BY <1>1, <1>2, <1>3 DEF Attempts, Carried

LEMMA AttemptsCarriedNext == \A m : m \in Attempts' <=> Carried(m)'
<1> TAKE m
<1>1. m \in AtDispatchers' <=> \E s \in Schedulers : m \in batch'[s] \/ m \in undo'[s]
  BY UnionMember DEF AtDispatchers
<1>2. m \in AtWorkers' <=> \E w \in Workers : m \in jobChan'[w] \/ m \in executing'[w]
  BY UnionMember DEF AtWorkers
<1>3. m \in Reported' <=> \E r \in resultsTopic' : m = AttemptOf(r)
  BY DEF Reported
<1> QED BY <1>1, <1>2, <1>3 DEF Attempts, Carried

\* A worker holds only what is addressed to it.
HeldByAddressee ==
  \A w \in Workers : \A m \in jobChan[w] \cup executing[w] : m.worker = w

\* A step makes no new attempt unless it is a FetchPending, which makes the
\* ones it returns.
AttemptsOnlyFetched ==
  \/ Attempts' \subseteq Attempts /\ jobAttempts' = jobAttempts
  \/ \E w \in Workers, limit \in Int :
       FetchPending(w, limit) /\ Attempts' \subseteq Attempts \cup Fetched(w, limit)

LEMMA SchedulerAttempts ==
  ASSUME TypeOK, NEW s \in Schedulers,
         DispatcherStep(s) \/ MonitorStep(s) \/ SchedulerFault(s), SchedulerFrame
  PROVE  AttemptsOnlyFetched
<1> USE DEF SchedulerFrame, nodeVars, collectorVars
<1>1. CASE FetchHealthy(s) \/ SweepWorkers(s) \/ SweepJobs(s) \/ SweepJobsFails(s)
  <2>1. jobAttempts' = jobAttempts
    BY <1>1 DEF FetchHealthy, SweepWorkers, SweepJobs, SweepJobsFails, RequeueStale, Requeue, jobRows
  <2>2. Attempts' \subseteq Attempts
    BY <1>1, AttemptsCarried, AttemptsCarriedNext
    DEF FetchHealthy, SweepWorkers, SweepJobs, SweepJobsFails, brokerVars, Carried
  <2> QED BY <2>1, <2>2 DEF AttemptsOnlyFetched
<1>2. ASSUME NEW row \in snapshot[s], AssignJobs(s, row)
      PROVE  AttemptsOnlyFetched
  <2>1. row.worker \in Workers /\ Capacity(row) \in Int
    BY SchedulerAssumption DEF TypeOK, SchedulerTypeOK, HeartbeatMessage, Capacity
  <2>2. Attempts' \subseteq Attempts \cup Fetched(row.worker, Capacity(row))
    BY <1>2, AttemptsCarried, AttemptsCarriedNext
    DEF AssignJobs, brokerVars, Carried, TypeOK, SchedulerTypeOK
  <2> QED BY <1>2, <2>1, <2>2 DEF AssignJobs, AttemptsOnlyFetched
<1>3. ASSUME NEW row \in snapshot[s], AssignJobsReplyLost(s, row)
      PROVE  AttemptsOnlyFetched
  <2>1. row.worker \in Workers /\ Capacity(row) \in Int
    BY SchedulerAssumption DEF TypeOK, SchedulerTypeOK, HeartbeatMessage, Capacity
  <2>2. Attempts' \subseteq Attempts
    BY <1>3, AttemptsCarried, AttemptsCarriedNext
    DEF AssignJobsReplyLost, brokerVars, Carried
  <2> QED BY <1>3, <2>1, <2>2 DEF AssignJobsReplyLost, AttemptsOnlyFetched
<1>4. ASSUME NEW m \in batch[s],
             \/ PublishJob(s, m) \/ PublishJobUnacked(s, m)
             \/ \E written \in BOOLEAN : PublishJobFails(s, m, written)
      PROVE  AttemptsOnlyFetched
  <2>1. Attempts' \subseteq Attempts
    BY <1>4, AttemptsCarried, AttemptsCarriedNext
    DEF PublishJob, PublishJobUnacked, PublishJobFails, ToRollBack, WriteMessage,
        brokerVars, Carried, TypeOK, SchedulerTypeOK
  <2> QED
    BY <1>4, <2>1
    DEF PublishJob, PublishJobUnacked, PublishJobFails, jobRows, AttemptsOnlyFetched
<1>5. ASSUME NEW m \in undo[s], Rollback(s, m) \/ RollbackFails(s, m)
      PROVE  AttemptsOnlyFetched
  <2>1. Attempts' \subseteq Attempts
    BY <1>5, AttemptsCarried, AttemptsCarriedNext
    DEF Rollback, RollbackFails, brokerVars, Carried, TypeOK, SchedulerTypeOK
  <2> QED
    BY <1>5, <2>1
    DEF Rollback, RollbackFails, RollbackToQueued, Requeue, jobRows, AttemptsOnlyFetched
<1>6. CASE StopScheduler(s)
  <2>1. Attempts' \subseteq Attempts
    BY <1>6, AttemptsCarried, AttemptsCarriedNext
    DEF StopScheduler, brokerVars, Carried, TypeOK, SchedulerTypeOK
  <2> QED BY <1>6, <2>1 DEF StopScheduler, jobRows, AttemptsOnlyFetched
<1> QED
  BY <1>1, <1>2, <1>3, <1>4, <1>5, <1>6
  DEF DispatcherStep, MonitorStep, SchedulerFault

LEMMA NodeAttempts ==
  ASSUME TypeOK, HeldByAddressee,
         NEW w \in Workers, NodeStep(w) \/ NodeFault(w), NodeFrame
  PROVE  AttemptsOnlyFetched /\ HeldByAddressee'
<1> USE DEF NodeFrame, schedulerVars, collectorVars, TypeOK, WorkerNodeTypeOK
<1>1. jobAttempts' = jobAttempts
  BY DEF NodeStep, NodeFault, StartWorker, SendHeartbeat, ReceiveJob,
         ReceiveJobUncommitted, StartJob, FinishJob, FinishJobUnreported, StopWorker,
         LastHeartbeatGrowsStale, HeartbeatDelayed, jobRows
<1> SUFFICES Attempts' \subseteq Attempts /\ HeldByAddressee'
  BY <1>1 DEF AttemptsOnlyFetched
<1>2. CASE \/ StartWorker(w) \/ SendHeartbeat(w)
           \/ LastHeartbeatGrowsStale(w) \/ HeartbeatDelayed(w)
  BY <1>2, AttemptsCarried, AttemptsCarriedNext
  DEF StartWorker, SendHeartbeat, LastHeartbeatGrowsStale, HeartbeatDelayed, nodeVars,
      brokerVars, Carried, HeldByAddressee
<1>3. ASSUME NEW m \in jobsTopic, ReceiveJob(w, m) \/ ReceiveJobUncommitted(w, m)
      PROVE  Attempts' \subseteq Attempts /\ HeldByAddressee'
  <2>1. Attempts' \subseteq Attempts
    BY <1>3, AttemptsCarried, AttemptsCarriedNext
    DEF ReceiveJob, ReceiveJobUncommitted, CommitMessage, brokerVars, Carried
  <2>2. HeldByAddressee'
    BY <1>3 DEF ReceiveJob, ReceiveJobUncommitted, CanReceive, AddressedTo, HeldByAddressee
  <2> QED BY <2>1, <2>2
<1>4. ASSUME NEW m \in jobChan[w], StartJob(w, m)
      PROVE  Attempts' \subseteq Attempts /\ HeldByAddressee'
  <2>1. Attempts' \subseteq Attempts
    BY <1>4, AttemptsCarried, AttemptsCarriedNext DEF StartJob, brokerVars, Carried
  <2>2. HeldByAddressee'
    BY <1>4 DEF StartJob, HeldByAddressee
  <2> QED BY <2>1, <2>2
<1>5. ASSUME NEW m \in executing[w],
             FinishJobUnreported(w, m) \/ \E ok \in BOOLEAN : FinishJob(w, m, ok)
      PROVE  Attempts' \subseteq Attempts /\ HeldByAddressee'
  <2>1. \A ok \in BOOLEAN : AttemptOf(Result(w, m, ok)) = m
    BY DEF HeldByAddressee, AttemptOf, Result, JobMessage
  <2>2. Attempts' \subseteq Attempts
    BY <1>5, <2>1, AttemptsCarried, AttemptsCarriedNext
    DEF FinishJob, FinishJobUnreported, WriteMessage, brokerVars, Carried
  <2>3. HeldByAddressee'
    BY <1>5 DEF FinishJob, FinishJobUnreported, HeldByAddressee
  <2> QED BY <2>2, <2>3
<1>6. CASE StopWorker(w)
  BY <1>6, AttemptsCarried, AttemptsCarriedNext DEF StopWorker, brokerVars, Carried, HeldByAddressee
<1> QED
  BY <1>2, <1>3, <1>4, <1>5, <1>6 DEF NodeStep, NodeFault

LEMMA CollectorAttempts ==
  ASSUME NEW c \in Collectors, CollectorStep(c) \/ CollectorFault(c), CollectorFrame
  PROVE  AttemptsOnlyFetched
<1>1. jobAttempts' = jobAttempts
  BY DEF CollectorStep, CollectorFault, HandleSuccess, HandleFailure, MarkCompleted,
         MarkFailed, setStatus, PublishDeadLetter, PublishDeadLetterUnacked, CommitResult,
         StopCollector, jobRows
<1>2. resultsTopic' \subseteq resultsTopic /\ jobsTopic' = jobsTopic
  BY DEF CollectorStep, CollectorFault, HandleSuccess, HandleFailure, PublishDeadLetter,
         PublishDeadLetterUnacked, CommitResult, StopCollector, CommitMessage, brokerVars
<1> QED
  BY <1>1, <1>2, AttemptsCarried, AttemptsCarriedNext
  DEF AttemptsOnlyFetched, Carried, CollectorFrame, schedulerVars, nodeVars

LEMMA NextAttempts ==
  ASSUME TypeOK, HeldByAddressee, [Next]_vars
  PROVE  AttemptsOnlyFetched /\ HeldByAddressee'
<1>1. CASE ApiStep /\ ApiFrame
  <2>1. jobAttempts' = jobAttempts /\ UNCHANGED brokerVars
    BY <1>1 DEF ApiStep, SubmitJob, CancelJob, Create, Cancel
  <2> QED
    BY <1>1, <2>1, AttemptsCarried, AttemptsCarriedNext
    DEF ApiFrame, schedulerVars, nodeVars, brokerVars, AttemptsOnlyFetched, Carried,
        HeldByAddressee
<1>2. ASSUME NEW s \in Schedulers,
             DispatcherStep(s) \/ MonitorStep(s) \/ SchedulerFault(s), SchedulerFrame
      PROVE  AttemptsOnlyFetched /\ HeldByAddressee'
  BY <1>2, SchedulerAttempts DEF SchedulerFrame, nodeVars, HeldByAddressee
<1>3. CASE (HeartbeatConsumerStep \/ HeartbeatConsumerFault) /\ SchedulerFrame
  <2>1. /\ UNCHANGED <<jobRows, schedulerVars>>
        /\ jobsTopic' = jobsTopic /\ resultsTopic' = resultsTopic
    BY <1>3
    DEF HeartbeatConsumerStep, HeartbeatConsumerFault, HandleHeartbeat,
        HandleHeartbeatUncommitted, brokerVars
  <2> QED
    BY <1>3, <2>1, AttemptsCarried, AttemptsCarriedNext
    DEF SchedulerFrame, schedulerVars, nodeVars, jobRows, AttemptsOnlyFetched, Carried,
        HeldByAddressee
<1>4. ASSUME NEW w \in Workers, NodeStep(w) \/ NodeFault(w), NodeFrame
      PROVE  AttemptsOnlyFetched /\ HeldByAddressee'
  BY <1>4, NodeAttempts
<1>5. ASSUME NEW c \in Collectors, CollectorStep(c) \/ CollectorFault(c), CollectorFrame
      PROVE  AttemptsOnlyFetched /\ HeldByAddressee'
  BY <1>5, CollectorAttempts DEF CollectorFrame, nodeVars, HeldByAddressee
<1>6. CASE UNCHANGED vars
  BY <1>6, AttemptsCarried, AttemptsCarriedNext
  DEF vars, jobRows, brokerVars, schedulerVars, nodeVars, AttemptsOnlyFetched, Carried,
      HeldByAddressee
<1> QED
  BY <1>1, <1>2, <1>3, <1>4, <1>5, <1>6 DEF Next

-----------------------------------------------------------------------------
(***************************************************************************)
(* An attempt has one worker.  The invariant is inductive together with    *)
(* two facts: a worker holds only what is addressed to it, so a result     *)
(* names the worker the attempt was given to; and jobs.attempts is never   *)
(* behind an attempt in flight, so the next dispatch gets a fresh number.  *)
(***************************************************************************)

AttemptsDispatched ==
  \A m \in Attempts : 0 < m.attempts /\ m.attempts <= jobAttempts[m.job]

AttemptInv ==
  /\ HeldByAddressee
  /\ AttemptsDispatched
  /\ AttemptHasOneWorker

\* Attempts are messages.
LEMMA AttemptsTyped ==
  ASSUME TypeOK
  PROVE  Attempts \subseteq JobMessage
<1>1. \A r \in ResultMessage : AttemptOf(r) \in JobMessage
  BY DEF ResultMessage, AttemptOf, JobMessage
<1> QED
  BY <1>1, AttemptsCarried
  DEF TypeOK, SchedulerTypeOK, BrokerTypeOK, WorkerNodeTypeOK, Carried

LEMMA AttemptInvInductive ==
  ASSUME TypeOK, AttemptInv, [Next]_vars
  PROVE  AttemptInv'
<1>1. HeldByAddressee' /\ AttemptsOnlyFetched
  BY NextAttempts DEF AttemptInv
<1>2. CASE Attempts' \subseteq Attempts /\ jobAttempts' = jobAttempts
  BY <1>1, <1>2 DEF AttemptInv, AttemptsDispatched, AttemptHasOneWorker
<1>3. ASSUME NEW w \in Workers, NEW limit \in Int, FetchPending(w, limit),
             Attempts' \subseteq Attempts \cup Fetched(w, limit)
      PROVE  AttemptInv'
  <2>1. /\ Picked(limit) \subseteq Jobs
        /\ jobAttempts \in [Jobs -> Nat]
        /\ Attempts \subseteq JobMessage
    BY AttemptsTyped DEF Picked, Pending, TypeOK, RepositoryTypeOK
  <2>2. \A j \in Jobs : /\ jobAttempts'[j] \in Nat
                        /\ jobAttempts'[j] >= jobAttempts[j]
                        /\ j \in Picked(limit) => jobAttempts'[j] = jobAttempts[j] + 1
    BY <1>3, <2>1 DEF FetchPending, NextAttempt
  <2>3. \A m \in Fetched(w, limit) :
          /\ m.job \in Jobs
          /\ m.worker = w
          /\ m.attempts = jobAttempts[m.job] + 1
          /\ m.attempts = jobAttempts'[m.job]
    BY <2>1, <2>2 DEF Fetched, NextAttempt
  <2>4. \A m \in Attempts :
          /\ m.job \in Jobs /\ m.attempts \in Nat
          /\ 0 < m.attempts /\ m.attempts <= jobAttempts[m.job]
    BY <2>1 DEF AttemptInv, AttemptsDispatched, JobMessage
  <2>5. AttemptsDispatched'
    BY <1>3, <2>1, <2>2, <2>3, <2>4 DEF AttemptsDispatched
  <2>6. AttemptHasOneWorker'
    <3> SUFFICES ASSUME NEW m \in Attempts', NEW n \in Attempts',
                        m.job = n.job, m.attempts = n.attempts
                 PROVE  m.worker = n.worker
      BY DEF AttemptHasOneWorker
    <3>1. CASE m \in Attempts /\ n \in Attempts
      BY <3>1 DEF AttemptInv, AttemptHasOneWorker
    <3>2. CASE m \in Fetched(w, limit) /\ n \in Fetched(w, limit)
      BY <3>2, <2>3
    <3>3. m.job \in Jobs /\ jobAttempts[m.job] \in Nat
      BY <1>3, <2>1, <2>3, <2>4
    <3>4. CASE m \in Attempts /\ n \in Fetched(w, limit)
      BY <3>3, <3>4, <2>3, <2>4
    <3>5. CASE m \in Fetched(w, limit) /\ n \in Attempts
      BY <3>3, <3>5, <2>3, <2>4
    <3> QED BY <1>3, <3>1, <3>2, <3>4, <3>5
  <2> QED BY <1>1, <2>5, <2>6 DEF AttemptInv
<1> QED
  BY <1>1, <1>2, <1>3 DEF AttemptsOnlyFetched

LEMMA AttemptInvInit == Init => AttemptInv
<1> SUFFICES ASSUME Init PROVE AttemptInv
  OBVIOUS
<1>1. Attempts = {}
  BY AttemptsCarried DEF Init, SchedulerInit, BrokerInit, WorkerNodeInit, Carried
<1> QED
  BY <1>1
  DEF AttemptInv, HeldByAddressee, AttemptsDispatched, AttemptHasOneWorker, Init, WorkerNodeInit

\* In every behaviour of the pipeline, with any faults and any number of
\* schedulers that believe they lead, an attempt number of a job is given to
\* one worker only.
THEOREM AttemptUnique == Spec => []AttemptHasOneWorker
<1>1. Init => AttemptInv
  BY AttemptInvInit
<1>2. TypeOK /\ AttemptInv /\ [Next]_vars => AttemptInv'
  BY AttemptInvInductive
<1>3. AttemptInv => AttemptHasOneWorker
  BY DEF AttemptInv
<1> QED BY <1>1, <1>2, <1>3, TypeCorrect, PTL DEF Spec

-----------------------------------------------------------------------------
(***************************************************************************)
(* A step of the pipeline changes the jobs table by one statement or not   *)
(* at all, and never takes a worker's row away.                            *)
(***************************************************************************)

JobRowsStep ==
  \/ UNCHANGED jobRows
  \/ \E j \in Jobs : Create(j) \/ Cancel(j) \/ RollbackToQueued(j)
  \/ \E r \in resultsTopic : MarkCompleted(r.job) \/ MarkFailed(r.job)
  \/ \E s \in Schedulers : \E row \in snapshot[s] : FetchPending(row.worker, Capacity(row))
  \/ RequeueStale

LEMMA NextJobRows ==
  ASSUME TypeOK, [Next]_vars
  PROVE  JobRowsStep
<1>1. CASE ApiStep
  BY <1>1 DEF ApiStep, SubmitJob, CancelJob, JobRowsStep
<1>2. ASSUME NEW s \in Schedulers, DispatcherStep(s)
      PROVE  JobRowsStep
  <2>1. \A m \in undo[s] : m.job \in Jobs
    BY DEF TypeOK, SchedulerTypeOK, JobMessage
  <2> QED
    BY <1>2, <2>1
    DEF DispatcherStep, FetchHealthy, AssignJobs, PublishJob, Rollback, JobRowsStep
<1>3. ASSUME NEW s \in Schedulers, MonitorStep(s) \/ SchedulerFault(s)
      PROVE  JobRowsStep
  BY <1>3
  DEF MonitorStep, SweepWorkers, SweepJobs, SchedulerFault, AssignJobsReplyLost,
      PublishJobFails, PublishJobUnacked, RollbackFails, SweepJobsFails, StopScheduler,
      JobRowsStep
<1>4. CASE HeartbeatConsumerStep \/ HeartbeatConsumerFault
  BY <1>4
  DEF HeartbeatConsumerStep, HeartbeatConsumerFault, HandleHeartbeat,
      HandleHeartbeatUncommitted, JobRowsStep
<1>5. ASSUME NEW w \in Workers, NodeStep(w) \/ NodeFault(w)
      PROVE  JobRowsStep
  BY <1>5
  DEF NodeStep, NodeFault, StartWorker, SendHeartbeat, ReceiveJob, ReceiveJobUncommitted,
      StartJob, FinishJob, FinishJobUnreported, StopWorker, LastHeartbeatGrowsStale,
      HeartbeatDelayed, JobRowsStep
<1>6. ASSUME NEW c \in Collectors, CollectorStep(c) \/ CollectorFault(c)
      PROVE  JobRowsStep
  BY <1>6
  DEF CollectorStep, CollectorFault, HandleSuccess, HandleFailure, PublishDeadLetter,
      PublishDeadLetterUnacked, CommitResult, StopCollector, JobRowsStep
<1>7. CASE UNCHANGED vars
  BY <1>7 DEF vars, JobRowsStep
<1> QED
  BY <1>1, <1>2, <1>3, <1>4, <1>5, <1>6, <1>7 DEF Next

LEMMA WorkersStayRegistered ==
  ASSUME TypeOK, [Next]_vars
  PROVE  \A w \in Workers : workerStatus[w] # "ABSENT" => workerStatus'[w] # "ABSENT"
<1>1. \/ workerStatus' = workerStatus
      \/ MarkUnhealthy
      \/ \E h \in heartbeatsTopic : UpsertHeartbeat(h.worker, h.running)
  <2>1. CASE Next
    BY <2>1
    DEF Next, ApiStep, SubmitJob, CancelJob, DispatcherStep, FetchHealthy, AssignJobs,
        PublishJob, Rollback, MonitorStep, SweepWorkers, SweepJobs, SchedulerFault,
        AssignJobsReplyLost, PublishJobFails, PublishJobUnacked, RollbackFails,
        SweepJobsFails, StopScheduler, HeartbeatConsumerStep, HeartbeatConsumerFault,
        HandleHeartbeat, HandleHeartbeatUncommitted, NodeStep, NodeFault, StartWorker,
        SendHeartbeat, ReceiveJob, ReceiveJobUncommitted, StartJob, FinishJob,
        FinishJobUnreported, StopWorker, LastHeartbeatGrowsStale, HeartbeatDelayed,
        HeartbeatGrowsStale, CollectorStep, CollectorFault, HandleSuccess, HandleFailure,
        PublishDeadLetter, PublishDeadLetterUnacked, CommitResult, StopCollector, workerRows
  <2>2. CASE UNCHANGED vars
    BY <2>2 DEF vars, workerRows
  <2> QED BY <2>1, <2>2
<1>2. workerStatus \in [Workers -> WorkerRowStatus]
  BY DEF TypeOK, RepositoryTypeOK
<1>3. CASE MarkUnhealthy
  BY <1>2, <1>3 DEF MarkUnhealthy
<1>4. CASE \E h \in heartbeatsTopic : UpsertHeartbeat(h.worker, h.running)
  BY <1>2, <1>4 DEF UpsertHeartbeat, RevivedStatus
<1> QED BY <1>1, <1>3, <1>4

-----------------------------------------------------------------------------
(***************************************************************************)
(* Ownership.  FetchPending claims for a worker of a snapshot, so the      *)
(* invariant needs that the workers of a snapshot have a row.              *)
(***************************************************************************)

\* The workers of a tick have rows, which are never deleted.
SnapshotRegistered ==
  \A s \in Schedulers : \A row \in snapshot[s] : workerStatus[row.worker] # "ABSENT"

OwnershipInv ==
  /\ SnapshotRegistered
  /\ OwnershipMatchesStatus

LEMMA SnapshotStaysRegistered ==
  ASSUME TypeOK, SnapshotRegistered, [Next]_vars
  PROVE  SnapshotRegistered'
<1>1. \A s \in Schedulers : snapshot'[s] \subseteq snapshot[s] \cup HealthyRows
  <2>1. ASSUME NEW s \in Schedulers, DispatcherStep(s) \/ MonitorStep(s) \/ SchedulerFault(s)
        PROVE  \/ snapshot' = snapshot
               \/ snapshot' = [snapshot EXCEPT ![s] = HealthyRows]
               \/ snapshot' = [snapshot EXCEPT ![s] = {}]
               \/ \E row : snapshot' = [snapshot EXCEPT ![s] = @ \ {row}]
    BY <2>1
    DEF DispatcherStep, FetchHealthy, AssignJobs, PublishJob, Rollback, MonitorStep,
        SweepWorkers, SweepJobs, SchedulerFault, AssignJobsReplyLost, PublishJobFails,
        PublishJobUnacked, RollbackFails, SweepJobsFails, StopScheduler
  <2>2. \/ snapshot' = snapshot
        \/ \E s \in Schedulers : DispatcherStep(s) \/ MonitorStep(s) \/ SchedulerFault(s)
    BY DEF Next, ApiFrame, NodeFrame, CollectorFrame, schedulerVars, vars,
           HeartbeatConsumerStep, HeartbeatConsumerFault, HandleHeartbeat,
           HandleHeartbeatUncommitted
  <2>3. snapshot \in [Schedulers -> SUBSET HeartbeatMessage]
    BY DEF TypeOK, SchedulerTypeOK
  <2> QED BY <2>1, <2>2, <2>3
<1>2. \A row \in HealthyRows : row.worker \in Workers /\ workerStatus[row.worker] # "ABSENT"
  BY DEF HealthyRows, Healthy
<1>3. \A s \in Schedulers : \A row \in snapshot[s] :
        row.worker \in Workers /\ workerStatus[row.worker] # "ABSENT"
  BY DEF TypeOK, SchedulerTypeOK, HeartbeatMessage, SnapshotRegistered
<1> QED
  BY <1>1, <1>2, <1>3, WorkersStayRegistered DEF SnapshotRegistered

LEMMA OwnershipInductive ==
  ASSUME TypeOK, OwnershipInv, [Next]_vars
  PROVE  OwnershipInv'
<1>1. SnapshotRegistered'
  BY SnapshotStaysRegistered DEF OwnershipInv
<1>2. \A w \in Workers : workerStatus[w] # "ABSENT" => workerStatus'[w] # "ABSENT"
  BY WorkersStayRegistered
<1> USE DEF OwnershipInv, OwnershipMatchesStatus, TypeOK, RepositoryTypeOK
<1>3. CASE UNCHANGED jobRows
  BY <1>1, <1>2, <1>3 DEF jobRows
<1>4. ASSUME NEW j \in Jobs, Create(j) \/ Cancel(j)
      PROVE  OwnershipInv'
  <2>1. jobStatus[j] = "ABSENT" => jobWorker[j] = NoWorker
    OBVIOUS
  <2> QED BY <1>1, <1>2, <1>4, <2>1 DEF Create, Cancel
<1>5. ASSUME NEW j \in Jobs, RollbackToQueued(j)
      PROVE  OwnershipInv'
  BY <1>1, <1>2, <1>5 DEF RollbackToQueued, Requeue
<1>6. ASSUME NEW r \in resultsTopic, MarkCompleted(r.job) \/ MarkFailed(r.job)
      PROVE  OwnershipInv'
  BY <1>1, <1>2, <1>6 DEF MarkCompleted, MarkFailed, setStatus, FailedStatus
<1>7. ASSUME NEW s \in Schedulers, NEW row \in snapshot[s],
             FetchPending(row.worker, Capacity(row))
      PROVE  OwnershipInv'
  <2>1. row.worker \in Workers /\ workerStatus[row.worker] # "ABSENT"
    BY DEF SchedulerTypeOK, HeartbeatMessage, SnapshotRegistered
  <2> QED BY <1>1, <1>2, <1>7, <2>1 DEF FetchPending, ClaimedBy
<1>8. CASE RequeueStale
  BY <1>1, <1>2, <1>8 DEF RequeueStale, Requeue
<1> QED
  BY <1>3, <1>4, <1>5, <1>6, <1>7, <1>8, NextJobRows DEF JobRowsStep

\* In every behaviour a waiting job belongs to nobody and a RUNNING one to a
\* worker that has a row, so that the sweep can find it.
THEOREM OwnershipSafe == Spec => []OwnershipMatchesStatus
<1>1. Init => OwnershipInv
  BY DEF Init, RepositoryInit, SchedulerInit, OwnershipInv, SnapshotRegistered,
         OwnershipMatchesStatus
<1>2. TypeOK /\ OwnershipInv /\ [Next]_vars => OwnershipInv'
  BY OwnershipInductive
<1>3. OwnershipInv => OwnershipMatchesStatus
  BY DEF OwnershipInv
<1> QED BY <1>1, <1>2, <1>3, TypeCorrect, PTL DEF Spec

-----------------------------------------------------------------------------
(***************************************************************************)
(* The pipeline implements JobLifecycle.                                   *)
(***************************************************************************)

\* Before is the strict order in which jobs are dispatched.
LEMMA BeforeTransitive ==
  ASSUME NEW i \in Jobs, NEW k \in Jobs, NEW j \in Jobs, Before(i, k), Before(k, j)
  PROVE  Before(i, j)
BY ModelsAssumption DEF Before

\* FetchPending passes over no job that comes before one it picks.
LEMMA PickedInOrder ==
  ASSUME NEW limit \in Int, NEW j \in Picked(limit), NEW k \in Pending, Before(k, j)
  PROVE  k \in Picked(limit)
<1> DEFINE Ahead(i) == {l \in Pending : Before(l, i)}
<1>1. j \in Jobs /\ k \in Jobs /\ Pending \subseteq Jobs
  BY DEF Picked, Pending
<1>2. Ahead(k) \subseteq Ahead(j)
  BY <1>1, BeforeTransitive
<1>3. IsFiniteSet(Ahead(j))
  BY <1>1, ModelsAssumption, FS_Subset
<1>4. /\ Cardinality(Ahead(k)) <= Cardinality(Ahead(j))
      /\ Cardinality(Ahead(k)) \in Nat /\ Cardinality(Ahead(j)) \in Nat
  BY <1>2, <1>3, FS_Subset, FS_CardinalityType
<1>5. Cardinality(Ahead(j)) < limit
  BY DEF Picked
<1>6. Cardinality(Ahead(k)) < limit
  BY <1>4, <1>5
<1> QED BY <1>6 DEF Picked

\* Every step is a step of JobLifecycle or leaves the table as it is.
LEMMA LifecycleStep ==
  ASSUME TypeOK, AttemptInv, [Next]_vars
  PROVE  [Lifecycle!Next]_(Lifecycle!rows)
<1> USE DEF TypeOK, RepositoryTypeOK
<1>1. CASE UNCHANGED jobRows
  BY <1>1 DEF jobRows, Lifecycle!rows
<1>2. ASSUME NEW j \in Jobs, Create(j) \/ Cancel(j)
      PROVE  Lifecycle!Next
  BY <1>2 DEF Create, Cancel, Lifecycle!Next, Lifecycle!Submit, Lifecycle!CancelJob
<1>3. ASSUME NEW S \in SUBSET {j \in Jobs : jobStatus[j] = "RUNNING"}, Requeue(S)
      PROVE  [Lifecycle!Next]_(Lifecycle!rows)
  <2>1. CASE S = {}
    BY <1>3, <2>1 DEF Requeue, Lifecycle!rows
  <2>2. CASE S # {}
    BY <1>3, <2>2 DEF Requeue, Lifecycle!Next, Lifecycle!Return
  <2> QED BY <2>1, <2>2
<1>4. ASSUME NEW r \in resultsTopic, MarkCompleted(r.job) \/ MarkFailed(r.job)
      PROVE  Lifecycle!Next
  <2>1. r.job \in Jobs /\ AttemptOf(r) \in Attempts
    BY DEF BrokerTypeOK, ResultMessage, Reported, Attempts
  <2>2. r.attempts \in Nat /\ 0 < r.attempts /\ r.attempts <= jobAttempts[r.job]
    BY <2>1 DEF BrokerTypeOK, ResultMessage, AttemptInv, AttemptsDispatched, AttemptOf
  <2>3. jobAttempts[r.job] > 0
    BY <2>1, <2>2
  <2> QED
    BY <1>4, <2>1, <2>3
    DEF MarkCompleted, MarkFailed, setStatus, FailedStatus, Lifecycle!Next,
        Lifecycle!Succeed, Lifecycle!Fail
<1>5. ASSUME NEW s \in Schedulers, NEW row \in snapshot[s],
             FetchPending(row.worker, Capacity(row))
      PROVE  [Lifecycle!Next]_(Lifecycle!rows)
  <2> DEFINE S == Picked(Capacity(row))
  <2>1. S \subseteq Pending /\ Pending = Lifecycle!Waiting
    BY DEF Picked, Pending, Lifecycle!Waiting
  <2>2. Capacity(row) \in Int
    BY SchedulerAssumption DEF SchedulerTypeOK, HeartbeatMessage, Capacity
  <2>3. \A j \in S : \A k \in Pending : Before(k, j) => k \in S
    BY <2>2, PickedInOrder
  <2>4. CASE S = {}
    BY <1>5, <2>4 DEF FetchPending, Lifecycle!rows
  <2>5. CASE S # {}
    <3>1. \A j \in S : \A k \in Lifecycle!Waiting : Lifecycle!Precedes(k, j) => k \in S
      BY <2>1, <2>3 DEF Before, Lifecycle!Precedes
    <3>2. Lifecycle!Dispatch(S)
      BY <1>5, <2>5, <3>1 DEF FetchPending, NextAttempt, Lifecycle!Dispatch
    <3> QED BY <2>1, <3>2 DEF Lifecycle!Next
  <2> QED BY <2>4, <2>5
<1>6. ASSUME NEW j \in Jobs, RollbackToQueued(j)
      PROVE  [Lifecycle!Next]_(Lifecycle!rows)
  <2> DEFINE S == {k \in {j} : jobStatus[k] = "RUNNING"}
  <2>1. S \in SUBSET {k \in Jobs : jobStatus[k] = "RUNNING"} /\ Requeue(S)
    BY <1>6 DEF RollbackToQueued
  <2> HIDE DEF S
  <2> QED BY <2>1, <1>3
<1>7. CASE RequeueStale
  <2> DEFINE S == {k \in Jobs : jobStatus[k] = "RUNNING" /\ jobWorker[k] \in StaleWorkers}
  <2>1. S \in SUBSET {k \in Jobs : jobStatus[k] = "RUNNING"} /\ Requeue(S)
    BY <1>7 DEF RequeueStale
  <2> HIDE DEF S
  <2> QED BY <2>1, <1>3
<1> QED
  BY <1>1, <1>2, <1>4, <1>5, <1>6, <1>7, NextJobRows DEF JobRowsStep

\* With any faults, what a reader of the jobs table observes is a behaviour of
\* JobLifecycle: outcomes only of dispatched jobs, attempts that only a dispatch
\* raises, dispatch by priority and age, and only running jobs requeued.
THEOREM LifecycleImplemented == Spec => LifecycleSpec
<1>1. Init => Lifecycle!Init
  BY DEF Init, RepositoryInit, Lifecycle!Init
<1>2. TypeOK /\ AttemptInv /\ [Next]_vars => [Lifecycle!Next]_(Lifecycle!rows)
  BY LifecycleStep
<1>3. Init => AttemptInv
  BY AttemptInvInit
<1>4. TypeOK /\ AttemptInv /\ [Next]_vars => AttemptInv'
  BY AttemptInvInductive
<1> QED BY <1>1, <1>2, <1>3, <1>4, TypeCorrect, PTL DEF Spec, LifecycleSpec, Lifecycle!Spec

-----------------------------------------------------------------------------
(***************************************************************************)
(* Exhausted jobs stay exhausted, because attempts never decreases.        *)
(***************************************************************************)

Exhausted(m) == ~m.success /\ jobAttempts[m.job] >= MaxAttempts

LEMMA AttemptsNeverDecrease ==
  ASSUME TypeOK, [Next]_vars
  PROVE  \A j \in Jobs : jobAttempts'[j] \in Nat /\ jobAttempts'[j] >= jobAttempts[j]
<1>1. jobAttempts \in [Jobs -> Nat]
  BY DEF TypeOK, RepositoryTypeOK
<1>2. \/ jobAttempts' = jobAttempts
      \/ \E w, limit : FetchPending(w, limit)
  BY NextJobRows
  DEF JobRowsStep, jobRows, Create, Cancel, RollbackToQueued, RequeueStale, Requeue,
      MarkCompleted, MarkFailed, setStatus
<1>3. CASE jobAttempts' = jobAttempts
  BY <1>1, <1>3
<1>4. ASSUME NEW w, NEW limit, FetchPending(w, limit)
      PROVE  \A j \in Jobs : jobAttempts'[j] \in Nat /\ jobAttempts'[j] >= jobAttempts[j]
  BY <1>1, <1>4 DEF FetchPending, NextAttempt
<1> QED BY <1>2, <1>3, <1>4

LEMMA ExhaustedForGood ==
  ASSUME TypeOK, [Next]_vars, NEW m \in ResultMessage, Exhausted(m)
  PROVE  Exhausted(m)'
<1>1. m.job \in Jobs
  BY DEF ResultMessage
<1>2. /\ jobAttempts[m.job] \in Nat /\ jobAttempts'[m.job] \in Nat
      /\ jobAttempts'[m.job] >= jobAttempts[m.job]
  BY <1>1, AttemptsNeverDecrease DEF TypeOK, RepositoryTypeOK
<1> QED BY <1>2, ModelsAssumption DEF Exhausted

-----------------------------------------------------------------------------
(***************************************************************************)
(* The stages of HandleResult.  A collector handles one result at a time;  *)
(* the results MarkFailed answered DEAD for, and the ones about to be      *)
(* published, are exhausted.                                               *)
(***************************************************************************)

HandlesOne == \A c \in Collectors : \A m, n \in handling[c] : m = n

CondemnedExhausted == \A m \in condemned : Exhausted(m)

PublishedExhausted ==
  \A c \in Collectors : \A m \in handling[c] : stage[c] = "publish" => Exhausted(m)

\* A condemned result reaches its commit only after its dead letter is written.
CommitAfterPublish ==
  \A c \in Collectors : \A m \in handling[c] :
    stage[c] = "commit" /\ m \in condemned => m \in deadLettersTopic

ExhaustedInv ==
  /\ HandlesOne
  /\ CondemnedExhausted
  /\ PublishedExhausted
  /\ OnlyExhaustedEnterDLQ

LEMMA OthersLeaveDeadLetters ==
  ASSUME [Next]_vars,
         ~ \E c \in Collectors : CollectorStep(c) \/ CollectorFault(c)
  PROVE  UNCHANGED <<collectorVars, deadLettersTopic>> /\ resultsTopic \subseteq resultsTopic'
<1>1. CASE ApiStep /\ ApiFrame
  BY <1>1 DEF ApiStep, ApiFrame, SubmitJob, CancelJob, brokerVars
<1>2. CASE SchedulerFrame /\ \E s \in Schedulers :
             DispatcherStep(s) \/ MonitorStep(s) \/ SchedulerFault(s)
  BY <1>2
  DEF SchedulerFrame, DispatcherStep, FetchHealthy, AssignJobs, PublishJob, Rollback,
      MonitorStep, SweepWorkers, SweepJobs, SchedulerFault, AssignJobsReplyLost,
      PublishJobFails, PublishJobUnacked, RollbackFails, SweepJobsFails, StopScheduler,
      brokerVars
<1>3. CASE SchedulerFrame /\ (HeartbeatConsumerStep \/ HeartbeatConsumerFault)
  BY <1>3
  DEF SchedulerFrame, HeartbeatConsumerStep, HeartbeatConsumerFault, HandleHeartbeat,
      HandleHeartbeatUncommitted, brokerVars
<1>4. CASE NodeFrame /\ \E w \in Workers : NodeStep(w) \/ NodeFault(w)
  BY <1>4
  DEF NodeFrame, NodeStep, NodeFault, StartWorker, SendHeartbeat, ReceiveJob,
      ReceiveJobUncommitted, StartJob, FinishJob, FinishJobUnreported, StopWorker,
      LastHeartbeatGrowsStale, HeartbeatDelayed, WriteMessage, brokerVars
<1>5. CASE UNCHANGED vars
  BY <1>5 DEF vars, brokerVars
<1> QED
  BY <1>1, <1>2, <1>3, <1>4, <1>5 DEF Next

LEMMA ExhaustedInvInductive ==
  ASSUME TypeOK, ExhaustedInv, [Next]_vars
  PROVE  ExhaustedInv'
<1> USE DEF ExhaustedInv
<1>1. \A m \in ResultMessage : Exhausted(m) => Exhausted(m)'
  BY ExhaustedForGood
<1>2. /\ stage \in [Collectors -> Stage]
      /\ handling \in [Collectors -> SUBSET ResultMessage]
      /\ condemned \subseteq ResultMessage
      /\ resultsTopic \subseteq ResultMessage
      /\ deadLettersTopic \subseteq ResultMessage
  BY DEF TypeOK, ResultCollectorTypeOK, BrokerTypeOK
<1>3. OnlyExhaustedEnterDLQ <=> \A m \in deadLettersTopic : Exhausted(m)
  BY DEF OnlyExhaustedEnterDLQ, Exhausted
<1>4. OnlyExhaustedEnterDLQ' <=> \A m \in deadLettersTopic' : Exhausted(m)'
  BY DEF OnlyExhaustedEnterDLQ, Exhausted
<1> HIDE DEF Exhausted
<1>5. CASE UNCHANGED <<collectorVars, deadLettersTopic>>
  BY <1>1, <1>2, <1>3, <1>4, <1>5
  DEF collectorVars, HandlesOne, CondemnedExhausted, PublishedExhausted
<1>6. ASSUME NEW c \in Collectors, NEW m \in resultsTopic, HandleSuccess(c, m)
      PROVE  ExhaustedInv'
  <2>1. /\ handling' = [handling EXCEPT ![c] = {m}]
        /\ stage' = [stage EXCEPT ![c] = "commit"]
        /\ UNCHANGED <<condemned, deadLettersTopic>>
    BY <1>6 DEF HandleSuccess, FetchResult, brokerVars
  <2> QED
    BY <1>1, <1>2, <1>3, <1>4, <2>1
    DEF HandlesOne, CondemnedExhausted, PublishedExhausted
<1>7. ASSUME NEW c \in Collectors, NEW m \in resultsTopic, HandleFailure(c, m)
      PROVE  ExhaustedInv'
  <2>1. /\ handling' = [handling EXCEPT ![c] = {m}]
        /\ stage' = [stage EXCEPT ![c] = AfterFailure(m.job)]
        /\ condemned' \subseteq condemned \cup {m}
        /\ UNCHANGED deadLettersTopic
    BY <1>7 DEF HandleFailure, FetchResult, brokerVars
  <2>2. AfterFailure(m.job) = "publish" => Exhausted(m)'
    BY <1>1, <1>2, <1>7 DEF HandleFailure, AfterFailure, FailedStatus, Exhausted
  <2>3. m \in condemned' => Exhausted(m)'
    BY <1>1, <1>2, <1>7
    DEF HandleFailure, FailedStatus, Exhausted, CondemnedExhausted
  <2> QED
    BY <1>1, <1>2, <1>3, <1>4, <2>1, <2>2, <2>3
    DEF HandlesOne, CondemnedExhausted, PublishedExhausted
<1>8. ASSUME NEW c \in Collectors, NEW m \in handling[c],
             PublishDeadLetter(c, m) \/ PublishDeadLetterUnacked(c, m)
      PROVE  ExhaustedInv'
  <2>1. /\ stage[c] = "publish" /\ stage' = [stage EXCEPT ![c] = "commit"]
        /\ deadLettersTopic' \subseteq deadLettersTopic \cup {m}
        /\ UNCHANGED <<handling, condemned>>
    BY <1>8 DEF PublishDeadLetter, PublishDeadLetterUnacked, WriteMessage, brokerVars
  <2>2. Exhausted(m)'
    BY <1>1, <1>2, <2>1 DEF PublishedExhausted
  <2> QED
    BY <1>1, <1>2, <1>3, <1>4, <2>1, <2>2
    DEF HandlesOne, CondemnedExhausted, PublishedExhausted
<1>9. ASSUME NEW c \in Collectors,
             StopCollector(c) \/ \E m \in handling[c] : CommitResult(c, m)
      PROVE  ExhaustedInv'
  <2>1. /\ stage' = [stage EXCEPT ![c] = "handle"]
        /\ handling' = [handling EXCEPT ![c] = {}]
        /\ UNCHANGED <<condemned, deadLettersTopic>>
    BY <1>9 DEF StopCollector, CommitResult, brokerVars
  <2> QED
    BY <1>1, <1>2, <1>3, <1>4, <2>1
    DEF HandlesOne, CondemnedExhausted, PublishedExhausted
<1> QED
  BY <1>5, <1>6, <1>7, <1>8, <1>9, OthersLeaveDeadLetters
  DEF CollectorStep, CollectorFault

LEMMA ExhaustedInvInit == Init => ExhaustedInv
BY DEF Init, ResultCollectorInit, BrokerInit, ExhaustedInv, HandlesOne,
       CondemnedExhausted, PublishedExhausted, OnlyExhaustedEnterDLQ

\* With any faults, a job whose result is on the dead-letters topic has no
\* attempt left: HandleResult publishes on MarkFailed's answer, which a later
\* dispatch cannot make untrue.
THEOREM DeadLettersExhausted == Spec => []OnlyExhaustedEnterDLQ
<1>1. Init => ExhaustedInv
  BY ExhaustedInvInit
<1>2. TypeOK /\ ExhaustedInv /\ [Next]_vars => ExhaustedInv'
  BY ExhaustedInvInductive
<1>3. ExhaustedInv => OnlyExhaustedEnterDLQ
  BY DEF ExhaustedInv
<1> QED BY <1>1, <1>2, <1>3, TypeCorrect, PTL DEF Spec

-----------------------------------------------------------------------------
(***************************************************************************)
(* Dead letters are not lost, provided that writes are not lost silently.  *)
(***************************************************************************)

NotLostInv == CommitAfterPublish /\ DeadLetterNotLost

LEMMA NotLostInductive ==
  ASSUME "unacked_write" \notin FaultKinds,
         TypeOK, ExhaustedInv, NotLostInv, [Next]_vars
  PROVE  NotLostInv'
<1> USE DEF NotLostInv
<1>1. /\ stage \in [Collectors -> Stage]
      /\ handling \in [Collectors -> SUBSET ResultMessage]
  BY DEF TypeOK, ResultCollectorTypeOK
<1>2. CASE ~ \E c \in Collectors : CollectorStep(c) \/ CollectorFault(c)
  <2>1. UNCHANGED <<collectorVars, deadLettersTopic>> /\ resultsTopic \subseteq resultsTopic'
    BY <1>2, OthersLeaveDeadLetters
  <2> QED BY <2>1 DEF collectorVars, CommitAfterPublish, DeadLetterNotLost
<1>3. ASSUME NEW c \in Collectors, NEW m \in resultsTopic, HandleSuccess(c, m)
      PROVE  NotLostInv'
  <2>1. /\ handling' = [handling EXCEPT ![c] = {m}]
        /\ stage' = [stage EXCEPT ![c] = "commit"]
        /\ UNCHANGED <<condemned, deadLettersTopic, resultsTopic>>
    BY <1>3 DEF HandleSuccess, FetchResult, brokerVars
  <2>2. m \notin condemned
    BY <1>3 DEF HandleSuccess, ExhaustedInv, CondemnedExhausted, Exhausted
  <2> QED BY <1>1, <2>1, <2>2 DEF CommitAfterPublish, DeadLetterNotLost
<1>4. ASSUME NEW c \in Collectors, NEW m \in resultsTopic, HandleFailure(c, m)
      PROVE  NotLostInv'
  <2>1. /\ handling' = [handling EXCEPT ![c] = {m}]
        /\ stage' = [stage EXCEPT ![c] = AfterFailure(m.job)]
        /\ condemned' \subseteq condemned \cup {m}
        /\ UNCHANGED <<deadLettersTopic, resultsTopic>>
        /\ \A d \in Collectors : m \notin handling[d]
    BY <1>4 DEF HandleFailure, FetchResult, brokerVars
  <2>2. m \in condemned' => FailedStatus(m.job) = "DEAD"
    BY <1>4
    DEF HandleFailure, ExhaustedInv, CondemnedExhausted, Exhausted, FailedStatus
  <2>3. m \in condemned' => AfterFailure(m.job) = "publish"
    BY <2>2 DEF AfterFailure
  <2> QED BY <1>1, <2>1, <2>3 DEF CommitAfterPublish, DeadLetterNotLost
<1>5. ASSUME NEW c \in Collectors, NEW m \in handling[c], PublishDeadLetter(c, m)
      PROVE  NotLostInv'
  <2>1. /\ stage' = [stage EXCEPT ![c] = "commit"]
        /\ deadLettersTopic' = deadLettersTopic \cup {m}
        /\ UNCHANGED <<handling, condemned, resultsTopic>>
    BY <1>5 DEF PublishDeadLetter, WriteMessage
  <2>2. \A n \in handling[c] : n = m
    BY DEF ExhaustedInv, HandlesOne
  <2> QED BY <1>1, <2>1, <2>2 DEF CommitAfterPublish, DeadLetterNotLost
<1>6. ASSUME NEW c \in Collectors, NEW m \in handling[c], CommitResult(c, m)
      PROVE  NotLostInv'
  <2>1. /\ stage[c] = "commit" /\ stage' = [stage EXCEPT ![c] = "handle"]
        /\ handling' = [handling EXCEPT ![c] = {}]
        /\ resultsTopic' = resultsTopic \ {m}
        /\ UNCHANGED <<condemned, deadLettersTopic>>
    BY <1>6 DEF CommitResult, CommitMessage
  <2>2. m \in condemned => m \in deadLettersTopic
    BY <2>1 DEF CommitAfterPublish
  <2> QED BY <1>1, <2>1, <2>2 DEF CommitAfterPublish, DeadLetterNotLost
<1>7. ASSUME NEW c \in Collectors, StopCollector(c)
      PROVE  NotLostInv'
  <2>1. /\ stage' = [stage EXCEPT ![c] = "handle"]
        /\ handling' = [handling EXCEPT ![c] = {}]
        /\ UNCHANGED <<condemned, deadLettersTopic, resultsTopic>>
    BY <1>7 DEF StopCollector, brokerVars
  <2> QED BY <1>1, <2>1 DEF CommitAfterPublish, DeadLetterNotLost
<1>8. \A c \in Collectors : \A m \in handling[c] : ~PublishDeadLetterUnacked(c, m)
  BY DEF PublishDeadLetterUnacked, Fault
<1> QED
  BY <1>2, <1>3, <1>4, <1>5, <1>6, <1>7, <1>8 DEF CollectorStep, CollectorFault

\* When the broker acknowledges writes, no dead letter is lost, however often
\* the collectors end between MarkFailed, the publication and the commit: the
\* result is handled again, MarkFailed answers DEAD again, and it is published
\* before it is committed.
THEOREM DeadLettersSafe ==
  ASSUME "unacked_write" \notin FaultKinds
  PROVE  Spec => []DeadLetterNotLost
<1>1. Init => NotLostInv
  BY DEF Init, ResultCollectorInit, NotLostInv, CommitAfterPublish, DeadLetterNotLost
<1>2. TypeOK /\ ExhaustedInv /\ NotLostInv /\ [Next]_vars => NotLostInv'
  BY NotLostInductive
<1>3. NotLostInv => DeadLetterNotLost
  BY DEF NotLostInv
<1>4. Init => ExhaustedInv
  BY ExhaustedInvInit
<1>5. TypeOK /\ ExhaustedInv /\ [Next]_vars => ExhaustedInv'
  BY ExhaustedInvInductive
<1> QED BY <1>1, <1>2, <1>3, <1>4, <1>5, TypeCorrect, PTL DEF Spec

-----------------------------------------------------------------------------
(***************************************************************************)
(* While no fault loses an attempt, no RUNNING job is forgotten.           *)
(*                                                                         *)
(* The argument follows the current attempt of a RUNNING job.  Every step  *)
(* that takes an attempt away from where it is puts it where it goes next, *)
(* except for three: the rollback, which requeues the job; the end of the  *)
(* worker, which the property allows; and the commit of a result, before   *)
(* which the job has left RUNNING or has been dispatched again.            *)
(***************************************************************************)

NothingLost == FaultKinds \cap LosingFaults = {}

\* tick rolls back one message at a time.
RollsBackOne == \A s \in Schedulers : \A m, n \in undo[s] : m = n

\* The result a collector is about to commit no longer speaks for a RUNNING job.
Settled(r) ==
  /\ r.attempts <= jobAttempts[r.job]
  /\ jobStatus[r.job] = "RUNNING" => r.attempts < jobAttempts[r.job]

HandledSettled ==
  \A c \in Collectors : \A r \in handling[c] : stage[c] # "handle" => Settled(r)

StrandedInv ==
  /\ RollsBackOne
  /\ HandledSettled
  /\ NoStrandedJob

-----------------------------------------------------------------------------
\* Where an attempt goes that is no longer carried.
Given(m) ==
  \/ m \in Attempts'
  \/ nodeState'[m.worker] = "down"
  \/ jobStatus'[m.job] # "RUNNING"
  \/ \E c \in Collectors : \E r \in handling[c] : CommitResult(c, r) /\ m = AttemptOf(r)

LEMMA SchedulerGives ==
  ASSUME NothingLost, TypeOK, RollsBackOne, NEW s \in Schedulers,
         DispatcherStep(s) \/ MonitorStep(s) \/ SchedulerFault(s), SchedulerFrame,
         NEW m \in Attempts
  PROVE  Given(m)
<1> USE DEF SchedulerFrame, nodeVars, collectorVars
<1>1. Carried(m)
  BY AttemptsCarried
<1> SUFFICES Carried(m)' \/ jobStatus'[m.job] # "RUNNING"
  BY AttemptsCarriedNext DEF Given
<1>2. /\ batch \in [Schedulers -> SUBSET JobMessage]
      /\ undo \in [Schedulers -> SUBSET JobMessage]
  BY DEF TypeOK, SchedulerTypeOK
<1>3. CASE FetchHealthy(s) \/ SweepWorkers(s) \/ SweepJobs(s) \/ SweepJobsFails(s)
  BY <1>1, <1>3
  DEF FetchHealthy, SweepWorkers, SweepJobs, SweepJobsFails, brokerVars, Carried
<1>4. ASSUME NEW row \in snapshot[s], AssignJobs(s, row)
      PROVE  Carried(m)'
  BY <1>1, <1>2, <1>4 DEF AssignJobs, NextWorker, brokerVars, Carried
<1>5. ASSUME NEW n \in batch[s], PublishJob(s, n)
      PROVE  Carried(m)'
  BY <1>1, <1>2, <1>5 DEF PublishJob, WriteMessage, Carried
<1>6. ASSUME NEW n \in batch[s], NEW written \in BOOLEAN, PublishJobFails(s, n, written)
      PROVE  Carried(m)'
  BY <1>1, <1>2, <1>6 DEF PublishJobFails, ToRollBack, WriteMessage, Carried
<1>7. ASSUME NEW n \in undo[s], Rollback(s, n)
      PROVE  Carried(m)' \/ jobStatus'[m.job] # "RUNNING"
  <2>1. CASE m \in undo[s]
    <3>1. m = n /\ m.job \in Jobs
      BY <1>2, <2>1 DEF RollsBackOne, JobMessage
    <3> QED BY <1>7, <3>1 DEF Rollback, RollbackToQueued, Requeue
  <2>2. CASE m \notin undo[s]
    BY <1>1, <1>2, <1>7, <2>2 DEF Rollback, brokerVars, Carried
  <2> QED BY <2>1, <2>2
<1>8. /\ ~StopScheduler(s)
      /\ \A row \in snapshot[s] : ~AssignJobsReplyLost(s, row)
      /\ \A n \in batch[s] : ~PublishJobUnacked(s, n)
      /\ \A n \in undo[s] : ~RollbackFails(s, n)
  BY DEF NothingLost, LosingFaults, Fault, StopScheduler, AssignJobsReplyLost,
         PublishJobUnacked, RollbackFails
<1> QED
  BY <1>3, <1>4, <1>5, <1>6, <1>7, <1>8
  DEF DispatcherStep, MonitorStep, SchedulerFault

LEMMA NodeGives ==
  ASSUME NothingLost, TypeOK, HeldByAddressee, NEW w \in Workers,
         NodeStep(w) \/ NodeFault(w), NodeFrame, NEW m \in Attempts
  PROVE  Given(m)
<1> USE DEF NodeFrame, schedulerVars, collectorVars
<1>1. Carried(m)
  BY AttemptsCarried
<1> SUFFICES Carried(m)' \/ nodeState'[m.worker] = "down"
  BY AttemptsCarriedNext DEF Given
<1>2. /\ nodeState \in [Workers -> NodeState]
      /\ jobChan \in [Workers -> SUBSET JobMessage]
      /\ executing \in [Workers -> SUBSET JobMessage]
  BY DEF TypeOK, WorkerNodeTypeOK
<1>3. CASE \/ StartWorker(w) \/ SendHeartbeat(w)
           \/ LastHeartbeatGrowsStale(w) \/ HeartbeatDelayed(w)
  BY <1>1, <1>3
  DEF StartWorker, SendHeartbeat, LastHeartbeatGrowsStale, HeartbeatDelayed, nodeVars,
      brokerVars, Carried
<1>4. ASSUME NEW n \in jobsTopic, ReceiveJob(w, n) \/ ReceiveJobUncommitted(w, n)
      PROVE  Carried(m)'
  BY <1>1, <1>2, <1>4
  DEF ReceiveJob, ReceiveJobUncommitted, CommitMessage, brokerVars, Carried
<1>5. ASSUME NEW n \in jobChan[w], StartJob(w, n)
      PROVE  Carried(m)'
  BY <1>1, <1>2, <1>5 DEF StartJob, brokerVars, Carried
<1>6. ASSUME NEW n \in executing[w], NEW ok \in BOOLEAN, FinishJob(w, n, ok)
      PROVE  Carried(m)'
  <2>1. AttemptOf(Result(w, n, ok)) = n
    BY <1>2 DEF HeldByAddressee, AttemptOf, Result, JobMessage
  <2> QED BY <1>1, <1>2, <1>6, <2>1 DEF FinishJob, WriteMessage, Carried
<1>7. CASE StopWorker(w)
  <2>1. nodeState'[w] = "down"
    BY <1>2, <1>7 DEF StopWorker
  <2>2. CASE m \in jobChan[w] \/ m \in executing[w]
    BY <2>1, <2>2 DEF HeldByAddressee
  <2>3. CASE m \notin jobChan[w] /\ m \notin executing[w]
    BY <1>1, <1>2, <1>7, <2>3 DEF StopWorker, brokerVars, Carried
  <2> QED BY <2>2, <2>3
<1>8. \A n \in executing[w] : ~FinishJobUnreported(w, n)
  BY DEF NothingLost, LosingFaults, Fault, FinishJobUnreported
<1> QED
  BY <1>3, <1>4, <1>5, <1>6, <1>7, <1>8 DEF NodeStep, NodeFault

LEMMA CollectorGives ==
  ASSUME NEW c \in Collectors, CollectorStep(c) \/ CollectorFault(c), CollectorFrame,
         NEW m \in Attempts
  PROVE  Given(m)
<1> USE DEF CollectorFrame, schedulerVars, nodeVars
<1>1. Carried(m)
  BY AttemptsCarried
<1>2. CASE resultsTopic' = resultsTopic /\ jobsTopic' = jobsTopic
  BY <1>1, <1>2, AttemptsCarriedNext DEF Carried, Given
<1>3. ASSUME NEW r \in handling[c], CommitResult(c, r)
      PROVE  Given(m)
  <2>1. jobsTopic' = jobsTopic /\ resultsTopic' = resultsTopic \ {r}
    BY <1>3 DEF CommitResult, CommitMessage
  <2>2. CASE m = AttemptOf(r)
    BY <1>3, <2>2 DEF Given
  <2>3. CASE m # AttemptOf(r)
    BY <1>1, <2>1, <2>3, AttemptsCarriedNext DEF Carried, Given
  <2> QED BY <2>2, <2>3
<1> QED
  BY <1>2, <1>3
  DEF CollectorStep, CollectorFault, HandleSuccess, HandleFailure, PublishDeadLetter,
      PublishDeadLetterUnacked, StopCollector, brokerVars

LEMMA NextGives ==
  ASSUME NothingLost, TypeOK, HeldByAddressee, RollsBackOne, [Next]_vars, NEW m \in Attempts
  PROVE  Given(m)
<1>1. CASE \/ ApiStep /\ ApiFrame
           \/ (HeartbeatConsumerStep \/ HeartbeatConsumerFault) /\ SchedulerFrame
           \/ UNCHANGED vars
  <2>1. /\ UNCHANGED <<schedulerVars, nodeVars>>
        /\ jobsTopic' = jobsTopic /\ resultsTopic' = resultsTopic
    BY <1>1
    DEF ApiStep, ApiFrame, SubmitJob, CancelJob, HeartbeatConsumerStep,
        HeartbeatConsumerFault, SchedulerFrame, HandleHeartbeat,
        HandleHeartbeatUncommitted, vars, brokerVars
  <2> QED
    BY <2>1, AttemptsCarried, AttemptsCarriedNext DEF schedulerVars, nodeVars, Carried, Given
<1> QED
  BY <1>1, SchedulerGives, NodeGives, CollectorGives DEF Next

-----------------------------------------------------------------------------
\* A job is RUNNING after a step because it was, for the same attempt, or
\* because the step fetched it and the dispatcher holds the attempt.
LEMMA RunningBefore ==
  ASSUME NothingLost, TypeOK, [Next]_vars, NEW j \in Jobs, jobStatus'[j] = "RUNNING"
  PROVE  \/ /\ jobStatus[j] = "RUNNING"
            /\ jobWorker'[j] = jobWorker[j] /\ jobAttempts'[j] = jobAttempts[j]
         \/ /\ jobAttempts'[j] = jobAttempts[j] + 1
            /\ [job |-> j, worker |-> jobWorker'[j], attempts |-> jobAttempts'[j]] \in Attempts'
<1> USE DEF TypeOK, RepositoryTypeOK
<1>1. ASSUME NEW s \in Schedulers, NEW row \in snapshot[s], AssignJobs(s, row)
      PROVE  \/ /\ jobStatus[j] = "RUNNING"
                /\ jobWorker'[j] = jobWorker[j] /\ jobAttempts'[j] = jobAttempts[j]
             \/ /\ jobAttempts'[j] = jobAttempts[j] + 1
                /\ [job |-> j, worker |-> jobWorker'[j], attempts |-> jobAttempts'[j]] \in Attempts'
  <2>1. CASE j \in Picked(Capacity(row))
    <3>1. jobWorker'[j] = row.worker /\ jobAttempts'[j] = NextAttempt(j)
      BY <1>1, <2>1 DEF AssignJobs, FetchPending, ClaimedBy
    <3>2. [job |-> j, worker |-> row.worker, attempts |-> NextAttempt(j)] \in batch'[s]
      BY <1>1, <2>1 DEF AssignJobs, Fetched, SchedulerTypeOK
    <3> QED BY <3>1, <3>2, AttemptsCarriedNext DEF Carried, NextAttempt
  <2>2. CASE j \notin Picked(Capacity(row))
    BY <1>1, <2>2 DEF AssignJobs, FetchPending, ClaimedBy
  <2> QED BY <2>1, <2>2
<1>2. ASSUME NEW k \in Jobs, Create(k) \/ Cancel(k)
      PROVE  /\ jobStatus[j] = "RUNNING"
             /\ jobWorker'[j] = jobWorker[j] /\ jobAttempts'[j] = jobAttempts[j]
  BY <1>2 DEF Create, Cancel
<1>3. ASSUME NEW S, Requeue(S)
      PROVE  /\ jobStatus[j] = "RUNNING"
             /\ jobWorker'[j] = jobWorker[j] /\ jobAttempts'[j] = jobAttempts[j]
  BY <1>3 DEF Requeue
<1>4. ASSUME NEW r \in resultsTopic, MarkCompleted(r.job) \/ MarkFailed(r.job)
      PROVE  /\ jobStatus[j] = "RUNNING"
             /\ jobWorker'[j] = jobWorker[j] /\ jobAttempts'[j] = jobAttempts[j]
  BY <1>4 DEF MarkCompleted, MarkFailed, setStatus, FailedStatus
<1>5. CASE UNCHANGED jobRows
  BY <1>5 DEF jobRows
<1>6. \/ UNCHANGED jobRows
      \/ \E k \in Jobs : Create(k) \/ Cancel(k)
      \/ \E S : Requeue(S)
      \/ \E r \in resultsTopic : MarkCompleted(r.job) \/ MarkFailed(r.job)
      \/ \E s \in Schedulers : \E row \in snapshot[s] : AssignJobs(s, row)
  <2>1. CASE ApiStep
    BY <2>1 DEF ApiStep, SubmitJob, CancelJob
  <2>2. ASSUME NEW s \in Schedulers, DispatcherStep(s) \/ MonitorStep(s)
        PROVE  \/ UNCHANGED jobRows
               \/ \E S : Requeue(S)
               \/ \E row \in snapshot[s] : AssignJobs(s, row)
    BY <2>2
    DEF DispatcherStep, FetchHealthy, PublishJob, Rollback, RollbackToQueued, MonitorStep,
        SweepWorkers, SweepJobs, RequeueStale
  <2>3. ASSUME NEW s \in Schedulers, SchedulerFault(s)
        PROVE  UNCHANGED jobRows
    BY <2>3
    DEF SchedulerFault, NothingLost, LosingFaults, Fault, AssignJobsReplyLost,
        PublishJobFails, PublishJobUnacked, RollbackFails, SweepJobsFails, StopScheduler
  <2>4. CASE HeartbeatConsumerStep \/ HeartbeatConsumerFault
    BY <2>4
    DEF HeartbeatConsumerStep, HeartbeatConsumerFault, HandleHeartbeat,
        HandleHeartbeatUncommitted
  <2>5. ASSUME NEW w \in Workers, NodeStep(w) \/ NodeFault(w)
        PROVE  UNCHANGED jobRows
    BY <2>5
    DEF NodeStep, NodeFault, StartWorker, SendHeartbeat, ReceiveJob, ReceiveJobUncommitted,
        StartJob, FinishJob, FinishJobUnreported, StopWorker, LastHeartbeatGrowsStale,
        HeartbeatDelayed
  <2>6. ASSUME NEW c \in Collectors, CollectorStep(c) \/ CollectorFault(c)
        PROVE  \/ UNCHANGED jobRows
               \/ \E r \in resultsTopic : MarkCompleted(r.job) \/ MarkFailed(r.job)
    BY <2>6
    DEF CollectorStep, CollectorFault, HandleSuccess, HandleFailure, PublishDeadLetter,
        PublishDeadLetterUnacked, CommitResult, StopCollector
  <2>7. CASE UNCHANGED vars
    BY <2>7 DEF vars
  <2> QED BY <2>1, <2>2, <2>3, <2>4, <2>5, <2>6, <2>7 DEF Next
<1> QED BY <1>1, <1>2, <1>3, <1>4, <1>5, <1>6

-----------------------------------------------------------------------------
LEMMA RollsBackOneInductive ==
  ASSUME TypeOK, RollsBackOne, [Next]_vars
  PROVE  RollsBackOne'
<1>1. undo \in [Schedulers -> SUBSET JobMessage]
  BY DEF TypeOK, SchedulerTypeOK
<1>2. ASSUME NEW s \in Schedulers, DispatcherStep(s) \/ MonitorStep(s) \/ SchedulerFault(s)
      PROVE  \/ undo' = undo
             \/ undo' = [undo EXCEPT ![s] = {}]
             \/ \E m : undo' = [undo EXCEPT ![s] = {m}]
  BY <1>2
  DEF DispatcherStep, FetchHealthy, AssignJobs, PublishJob, Rollback, MonitorStep,
      SweepWorkers, SweepJobs, SchedulerFault, AssignJobsReplyLost, PublishJobFails,
      ToRollBack, PublishJobUnacked, RollbackFails, SweepJobsFails, StopScheduler
<1>3. \/ undo' = undo
      \/ \E s \in Schedulers : DispatcherStep(s) \/ MonitorStep(s) \/ SchedulerFault(s)
  BY DEF Next, ApiFrame, NodeFrame, CollectorFrame, schedulerVars, vars,
         HeartbeatConsumerStep, HeartbeatConsumerFault, HandleHeartbeat,
         HandleHeartbeatUncommitted
<1> QED BY <1>1, <1>2, <1>3 DEF RollsBackOne

\* Once settled, a result stays settled: the job runs again only as a later
\* attempt.
LEMMA SettledForGood ==
  ASSUME NothingLost, TypeOK, [Next]_vars, NEW r \in ResultMessage, Settled(r)
  PROVE  Settled(r)'
<1>1. r.job \in Jobs /\ r.attempts \in Nat
  BY DEF ResultMessage
<1>2. /\ jobAttempts[r.job] \in Nat /\ jobAttempts'[r.job] \in Nat
      /\ jobAttempts'[r.job] >= jobAttempts[r.job]
  BY <1>1, AttemptsNeverDecrease DEF TypeOK, RepositoryTypeOK
<1>3. CASE jobStatus'[r.job] = "RUNNING"
  <2>1. \/ jobStatus[r.job] = "RUNNING" /\ jobAttempts'[r.job] = jobAttempts[r.job]
        \/ jobAttempts'[r.job] = jobAttempts[r.job] + 1
    BY <1>1, <1>3, RunningBefore
  <2> QED BY <1>1, <1>2, <2>1 DEF Settled
<1>4. CASE jobStatus'[r.job] # "RUNNING"
  BY <1>1, <1>2, <1>4 DEF Settled
<1> QED BY <1>3, <1>4

LEMMA HandledSettledInductive ==
  ASSUME NothingLost, TypeOK, AttemptInv, HandledSettled, [Next]_vars
  PROVE  HandledSettled'
<1>1. \A r \in ResultMessage : Settled(r) => Settled(r)'
  BY SettledForGood
<1>2. /\ stage \in [Collectors -> Stage]
      /\ handling \in [Collectors -> SUBSET ResultMessage]
      /\ resultsTopic \subseteq ResultMessage
  BY DEF TypeOK, ResultCollectorTypeOK, BrokerTypeOK
<1>3. CASE UNCHANGED <<stage, handling>>
  BY <1>1, <1>2, <1>3 DEF HandledSettled
<1>4. ASSUME NEW c \in Collectors, NEW r \in resultsTopic,
             HandleSuccess(c, r) \/ HandleFailure(c, r)
      PROVE  HandledSettled'
  <2>1. /\ handling' = [handling EXCEPT ![c] = {r}]
        /\ \E st : stage' = [stage EXCEPT ![c] = st]
    BY <1>4 DEF HandleSuccess, HandleFailure, FetchResult
  <2>2. r.job \in Jobs /\ r.attempts \in Nat /\ AttemptOf(r) \in Attempts
    BY <1>2, AttemptsCarried DEF ResultMessage, Carried
  <2>3. r.attempts <= jobAttempts[r.job]
    BY <2>2 DEF AttemptInv, AttemptsDispatched, AttemptOf
  <2>4. jobStatus'[r.job] # "RUNNING" /\ jobAttempts' = jobAttempts
    BY <1>4, <2>2
    DEF HandleSuccess, HandleFailure, MarkCompleted, MarkFailed, setStatus, FailedStatus,
        TypeOK, RepositoryTypeOK
  <2>5. Settled(r)'
    BY <2>3, <2>4 DEF Settled
  <2> QED BY <1>1, <1>2, <2>1, <2>5 DEF HandledSettled
<1>5. ASSUME NEW c \in Collectors, NEW r \in handling[c],
             PublishDeadLetter(c, r) \/ PublishDeadLetterUnacked(c, r)
      PROVE  HandledSettled'
  <2>1. /\ stage[c] = "publish" /\ stage' = [stage EXCEPT ![c] = "commit"]
        /\ handling' = handling
    BY <1>5 DEF PublishDeadLetter, PublishDeadLetterUnacked
  <2> QED BY <1>1, <1>2, <2>1 DEF HandledSettled
<1>6. ASSUME NEW c \in Collectors,
             StopCollector(c) \/ \E r \in handling[c] : CommitResult(c, r)
      PROVE  HandledSettled'
  <2>1. /\ stage' = [stage EXCEPT ![c] = "handle"]
        /\ handling' = [handling EXCEPT ![c] = {}]
    BY <1>6 DEF StopCollector, CommitResult
  <2> QED BY <1>1, <1>2, <2>1 DEF HandledSettled
<1> QED
  BY <1>3, <1>4, <1>5, <1>6, OthersLeaveDeadLetters
  DEF CollectorStep, CollectorFault, collectorVars

LEMMA DownForGood ==
  ASSUME TypeOK, [Next]_vars, NEW w \in Workers, nodeState[w] = "down"
  PROVE  nodeState'[w] = "down"
<1>1. nodeState \in [Workers -> NodeState]
  BY DEF TypeOK, WorkerNodeTypeOK
<1>2. CASE nodeState' = nodeState
  BY <1>2
<1>3. ASSUME NEW v \in Workers, NodeStep(v) \/ NodeFault(v)
      PROVE  nodeState'[w] = "down"
  BY <1>1, <1>3
  DEF NodeStep, NodeFault, StartWorker, SendHeartbeat, ReceiveJob, ReceiveJobUncommitted,
      StartJob, FinishJob, FinishJobUnreported, StopWorker, LastHeartbeatGrowsStale,
      HeartbeatDelayed, nodeVars
<1> QED
  BY <1>2, <1>3
  DEF Next, ApiFrame, SchedulerFrame, CollectorFrame, nodeVars, vars

LEMMA StrandedInvInductive ==
  ASSUME NothingLost, TypeOK, AttemptInv, OwnershipInv, StrandedInv, [Next]_vars
  PROVE  StrandedInv'
<1>1. RollsBackOne'
  BY RollsBackOneInductive DEF StrandedInv
<1>2. HandledSettled'
  BY HandledSettledInductive DEF StrandedInv
<1>3. NoStrandedJob'
  <2> SUFFICES ASSUME NEW j \in Jobs, jobStatus'[j] = "RUNNING"
               PROVE  \/ nodeState'[jobWorker'[j]] = "down"
                      \/ [job |-> j, worker |-> jobWorker'[j], attempts |-> jobAttempts'[j]]
                           \in Attempts'
    BY DEF NoStrandedJob
  <2> DEFINE m == [job |-> j, worker |-> jobWorker[j], attempts |-> jobAttempts[j]]
  <2>1. SUFFICES ASSUME jobStatus[j] = "RUNNING",
                        jobWorker'[j] = jobWorker[j], jobAttempts'[j] = jobAttempts[j]
                 PROVE  nodeState'[jobWorker[j]] = "down" \/ m \in Attempts'
    BY RunningBefore
  <2>2. jobWorker[j] \in Workers
    BY <2>1 DEF OwnershipInv, OwnershipMatchesStatus
  <2>3. CASE nodeState[jobWorker[j]] = "down"
    BY <2>2, <2>3, DownForGood
  <2>4. CASE m \in Attempts
    <3>1. ASSUME NEW c \in Collectors, NEW r \in handling[c], CommitResult(c, r),
                 m = AttemptOf(r)
          PROVE  FALSE
      <4>1. Settled(r)
        BY <3>1 DEF CommitResult, StrandedInv, HandledSettled
      <4>2. r.job = j /\ r.attempts = jobAttempts[j]
        BY <3>1 DEF AttemptOf
      <4>3. jobAttempts[j] \in Nat
        BY DEF TypeOK, RepositoryTypeOK
      <4> QED BY <2>1, <4>1, <4>2, <4>3 DEF Settled
    <3>2. Given(m)
      BY <2>4, NextGives DEF AttemptInv, StrandedInv
    <3> QED BY <3>1, <3>2 DEF Given
  <2> QED BY <2>1, <2>3, <2>4 DEF StrandedInv, NoStrandedJob
<1> QED BY <1>1, <1>2, <1>3 DEF StrandedInv

\* When no reply, write, report, statement or scheduler is lost, no RUNNING job
\* is forgotten: with failed and ambiguous publications, redeliveries, late
\* heartbeats, and workers and collectors that end, the current attempt is
\* still somewhere or its worker is down.
THEOREM NoJobStranded ==
  ASSUME NothingLost
  PROVE  Spec => []NoStrandedJob
<1>1. Init => StrandedInv /\ OwnershipInv
  BY DEF Init, RepositoryInit, SchedulerInit, ResultCollectorInit, StrandedInv,
         RollsBackOne, HandledSettled, NoStrandedJob, OwnershipInv, SnapshotRegistered,
         OwnershipMatchesStatus
<1>2. Init => AttemptInv
  BY AttemptInvInit
<1>3. TypeOK /\ AttemptInv /\ [Next]_vars => AttemptInv'
  BY AttemptInvInductive
<1>4. TypeOK /\ OwnershipInv /\ [Next]_vars => OwnershipInv'
  BY OwnershipInductive
<1>5. TypeOK /\ AttemptInv /\ OwnershipInv /\ StrandedInv /\ [Next]_vars => StrandedInv'
  BY StrandedInvInductive
<1>6. StrandedInv => NoStrandedJob
  BY DEF StrandedInv
<1> QED BY <1>1, <1>2, <1>3, <1>4, <1>5, <1>6, TypeCorrect, PTL DEF Spec

-----------------------------------------------------------------------------
(***************************************************************************)
(* While no fault repeats an attempt, no job runs twice at once.           *)
(*                                                                         *)
(* The argument follows an attempt from place to place.  A live attempt is *)
(* in one place at a time, it is the last one dispatched, and its job is   *)
(* not waiting: FetchPending therefore never finds a job one of whose      *)
(* attempts lives.  A job waits again only after its rollback or its       *)
(* result, which end the attempt, or after the sweep, which finds nothing: *)
(* every worker that has a row is fresh and healthy.                       *)
(***************************************************************************)

NothingRepeated == FaultKinds \cap RepeatingFaults = {}

\* The attempt m is alive at the place p.  A result lives until a collector
\* has fetched it: the job is written in the same step.
Lives(p, m) ==
  \/ \E s \in Schedulers : p = <<"batch", s>> /\ m \in batch[s]
  \/ \E s \in Schedulers : p = <<"undo", s>> /\ m \in undo[s]
  \/ p = <<"jobs", "topic">> /\ m \in jobsTopic
  \/ \E w \in Workers : p = <<"jobChan", w>> /\ m \in jobChan[w]
  \/ \E w \in Workers : p = <<"executing", w>> /\ m \in executing[w]
  \/ \E r \in resultsTopic : /\ p = <<"results", r.success>>
                             /\ m = AttemptOf(r)
                             /\ \A c \in Collectors : r \notin handling[c]

\* No live worker is taken for a dead one, and none is dead.
NobodyGivenUp ==
  \A w \in Workers :
    /\ nodeState[w] # "down"
    /\ workerStatus[w] # "ABSENT" => heartbeatFresh[w] /\ workerStatus[w] # "UNHEALTHY"

LivesOnce == \A p, q, m : Lives(p, m) /\ Lives(q, m) => p = q

LivesCurrent ==
  \A p, m : Lives(p, m) =>
    /\ m.attempts = jobAttempts[m.job]
    /\ jobStatus[m.job] \notin {"ABSENT", "QUEUED", "RETRYING"}

\* A collector that waits for a result holds none.
IdleHandlesNothing == \A c \in Collectors : stage[c] = "handle" => handling[c] = {}

OverlapInv ==
  /\ HandlesOne
  /\ IdleHandlesNothing
  /\ NobodyGivenUp
  /\ LivesOnce
  /\ LivesCurrent

-----------------------------------------------------------------------------
\* What a step does to the live attempts.  A job begins to wait only in a
\* step that ends its attempt, and attempts grows only in a fetch.
Waiting(j) == jobStatus[j] \in {"ABSENT", "QUEUED", "RETRYING"}

NoneBeginsToWait(S) ==
  jobAttempts' = jobAttempts /\ \A j \in S : Waiting(j)' => Waiting(j)

StayOrEnd == NoneBeginsToWait(Jobs) /\ \A x, n : Lives(x, n)' => Lives(x, n)

Move(q, p, m) ==
  /\ NoneBeginsToWait(Jobs)
  /\ Lives(q, m)
  /\ \A x, n : Lives(x, n)' => \/ Lives(x, n) /\ ~(x = q /\ n = m)
                               \/ x = p /\ n = m

End(q, m) ==
  /\ NoneBeginsToWait(Jobs \ {m.job})
  /\ Lives(q, m)
  /\ \A x, n : Lives(x, n)' => Lives(x, n) /\ ~(x = q /\ n = m)

Fetch(p, w, limit) ==
  /\ FetchPending(w, limit)
  /\ \A x, n : Lives(x, n)' => Lives(x, n) \/ (x = p /\ n \in Fetched(w, limit))

LivesStep ==
  \/ StayOrEnd
  \/ \E q, p, m : Move(q, p, m)
  \/ \E q, m : End(q, m)
  \/ \E p, w, limit : Fetch(p, w, limit)

LEMMA LivesTyped ==
  ASSUME TypeOK, NEW p, NEW m, Lives(p, m)
  PROVE  m \in Attempts /\ m \in JobMessage
<1>1. Carried(m)
  BY DEF Lives, Carried
<1> QED BY <1>1, AttemptsCarried, AttemptsTyped

\* The live attempts of a job are one attempt.
LEMMA LiveAttemptUnique ==
  ASSUME TypeOK, AttemptInv, LivesCurrent,
         NEW p, NEW m, NEW q, NEW n, Lives(p, m), Lives(q, n), m.job = n.job
  PROVE  m = n
<1>1. /\ m \in Attempts /\ m \in JobMessage
      /\ n \in Attempts /\ n \in JobMessage
  BY LivesTyped
<1>2. m.attempts = n.attempts
  BY DEF LivesCurrent
<1>3. m.worker = n.worker
  BY <1>1, <1>2 DEF AttemptInv, AttemptHasOneWorker
<1> QED BY <1>1, <1>2, <1>3 DEF JobMessage

LEMMA LivesStepKeeps ==
  ASSUME TypeOK, TypeOK', AttemptInv, LivesOnce, LivesCurrent, LivesStep
  PROVE  LivesOnce' /\ LivesCurrent'
<1>1. \A p, m : Lives(p, m) => /\ m.job \in Jobs
                               /\ m.attempts = jobAttempts[m.job]
                               /\ ~Waiting(m.job)
  BY LivesTyped DEF JobMessage, LivesCurrent, Waiting
<1>2. SUFFICES /\ \A p, q, m : Lives(p, m)' /\ Lives(q, m)' => p = q
               /\ \A p, m : Lives(p, m)' => /\ m.attempts = jobAttempts'[m.job]
                                            /\ ~Waiting(m.job)'
  BY DEF LivesOnce, LivesCurrent, Waiting
<1>3. CASE StayOrEnd
  BY <1>1, <1>3 DEF StayOrEnd, NoneBeginsToWait, LivesOnce
<1>4. ASSUME NEW q, NEW p, NEW m, Move(q, p, m)
      PROVE  /\ \A x, y, n : Lives(x, n)' /\ Lives(y, n)' => x = y
             /\ \A x, n : Lives(x, n)' => /\ n.attempts = jobAttempts'[n.job]
                                          /\ ~Waiting(n.job)'
  <2>1. \A x, n : Lives(x, n)' => \/ Lives(x, n) /\ ~(x = q /\ n = m)
                                  \/ x = p /\ n = m
    BY <1>4 DEF Move
  <2>2. Lives(q, m)
    BY <1>4 DEF Move
  <2>3. \A x, y, n : Lives(x, n)' /\ Lives(y, n)' => x = y
    BY <2>1, <2>2 DEF LivesOnce
  <2>4. \A x, n : Lives(x, n)' => \E y : Lives(y, n)
    BY <2>1, <2>2
  <2>5. \A x, n : Lives(x, n)' => n.attempts = jobAttempts'[n.job] /\ ~Waiting(n.job)'
    BY <1>1, <1>4, <2>4 DEF Move, NoneBeginsToWait
  <2> QED BY <2>3, <2>5
<1>5. ASSUME NEW q, NEW m, End(q, m)
      PROVE  /\ \A x, y, n : Lives(x, n)' /\ Lives(y, n)' => x = y
             /\ \A x, n : Lives(x, n)' => /\ n.attempts = jobAttempts'[n.job]
                                          /\ ~Waiting(n.job)'
  <2>1. \A x, n : Lives(x, n)' => Lives(x, n) /\ ~(x = q /\ n = m)
    BY <1>5 DEF End
  <2>2. Lives(q, m)
    BY <1>5 DEF End
  <2>3. \A x, n : Lives(x, n)' => n.job # m.job
    BY <2>1, <2>2, LiveAttemptUnique DEF LivesOnce
  <2> QED
    BY <1>1, <1>5, <2>1, <2>3 DEF End, NoneBeginsToWait, LivesOnce
<1>6. ASSUME NEW p, NEW w, NEW limit, Fetch(p, w, limit)
      PROVE  /\ \A x, y, n : Lives(x, n)' /\ Lives(y, n)' => x = y
             /\ \A x, n : Lives(x, n)' => /\ n.attempts = jobAttempts'[n.job]
                                          /\ ~Waiting(n.job)'
  <2>1. \A x, n : Lives(x, n)' => Lives(x, n) \/ (x = p /\ n \in Fetched(w, limit))
    BY <1>6 DEF Fetch
  <2>2. \A j \in Picked(limit) : j \in Jobs /\ Waiting(j)
    BY DEF Picked, Pending, Waiting
  <2>3. \A j \in Jobs : jobAttempts[j] \in Nat
    BY DEF TypeOK, RepositoryTypeOK
  <2>4. \A n \in Fetched(w, limit) :
          /\ n.job \in Picked(limit)
          /\ n.attempts = jobAttempts[n.job] + 1
    BY DEF Fetched, NextAttempt
  <2>5. \A j \in Picked(limit) : jobAttempts'[j] = jobAttempts[j] + 1 /\ ~Waiting(j)'
    BY <1>6, <2>2 DEF Fetch, FetchPending, NextAttempt, Waiting
  <2>6. \A j \in Jobs \ Picked(limit) :
          jobAttempts'[j] = jobAttempts[j] /\ (Waiting(j)' <=> Waiting(j))
    BY <1>6 DEF Fetch, FetchPending, Waiting
  <2>7. \A x, n : Lives(x, n) => n.job \notin Picked(limit)
    BY <1>1, <2>2
  <2>8. \A x, y, n : Lives(x, n)' /\ Lives(y, n)' => x = y
    BY <2>1, <2>4, <2>7 DEF LivesOnce
  <2>9. ASSUME NEW x, NEW n, Lives(x, n)'
        PROVE  n.attempts = jobAttempts'[n.job] /\ ~Waiting(n.job)'
    <3>1. CASE Lives(x, n)
      BY <1>1, <2>6, <2>7, <3>1
    <3>2. CASE n \in Fetched(w, limit)
      BY <2>4, <2>5, <3>2
    <3> QED BY <2>1, <2>9, <3>1, <3>2
  <2> QED BY <2>8, <2>9
<1> QED BY <1>3, <1>4, <1>5, <1>6 DEF LivesStep

-----------------------------------------------------------------------------
LEMMA RowsUnchangedWait == UNCHANGED jobRows => NoneBeginsToWait(Jobs)
BY DEF jobRows, NoneBeginsToWait, Waiting

LEMMA ApiLives ==
  ASSUME TypeOK, ApiStep, ApiFrame
  PROVE  StayOrEnd
<1>1. PICK j \in Jobs : SubmitJob(j) \/ CancelJob(j)
  BY DEF ApiStep
<1>2. NoneBeginsToWait(Jobs)
  BY <1>1
  DEF SubmitJob, CancelJob, Create, Cancel, NoneBeginsToWait, Waiting, TypeOK, RepositoryTypeOK
<1>3. UNCHANGED <<schedulerVars, nodeVars, collectorVars, brokerVars>>
  BY <1>1 DEF SubmitJob, CancelJob, ApiFrame
<1> QED
  BY <1>2, <1>3
  DEF StayOrEnd, Lives, schedulerVars, nodeVars, collectorVars, brokerVars

LEMMA SchedulerLives ==
  ASSUME NothingRepeated, TypeOK, NobodyGivenUp, NEW s \in Schedulers,
         DispatcherStep(s) \/ MonitorStep(s) \/ SchedulerFault(s), SchedulerFrame
  PROVE  LivesStep
<1>1. /\ batch \in [Schedulers -> SUBSET JobMessage]
      /\ undo \in [Schedulers -> SUBSET JobMessage]
      /\ jobStatus \in [Jobs -> JobRowStatus]
  BY DEF TypeOK, SchedulerTypeOK, RepositoryTypeOK
<1> USE DEF SchedulerFrame, nodeVars, collectorVars
<1>2. CASE FetchHealthy(s) \/ SweepWorkers(s) \/ SweepJobs(s) \/ SweepJobsFails(s)
  <2>1. CASE SweepJobs(s)
    <3>1. StaleWorkers = {}
      BY DEF StaleWorkers, NobodyGivenUp
    <3> QED
      BY <1>1, <2>1, <3>1 DEF SweepJobs, RequeueStale, Requeue, NoneBeginsToWait, Waiting,
         StayOrEnd, Lives, brokerVars, LivesStep
  <2>2. CASE FetchHealthy(s) \/ SweepWorkers(s) \/ SweepJobsFails(s)
    BY <2>2, RowsUnchangedWait
    DEF FetchHealthy, SweepWorkers, SweepJobsFails, StayOrEnd, Lives, brokerVars, LivesStep
  <2> QED BY <1>2, <2>1, <2>2
<1>3. ASSUME NEW row \in snapshot[s], AssignJobs(s, row)
      PROVE  LivesStep
  <2>1. batch' = [batch EXCEPT ![s] = Fetched(row.worker, Capacity(row))]
    BY <1>3 DEF AssignJobs
  <2>2. UNCHANGED <<undo, brokerVars>> /\ FetchPending(row.worker, Capacity(row))
    BY <1>3 DEF AssignJobs
  <2>3. Fetch(<<"batch", s>>, row.worker, Capacity(row))
    BY <1>1, <2>1, <2>2 DEF Fetch, Lives, brokerVars
  <2> QED BY <2>3 DEF LivesStep
<1>4. ASSUME NEW row \in snapshot[s], AssignJobsReplyLost(s, row)
      PROVE  LivesStep
  <2>1. Fetch(<<"batch", s>>, row.worker, Capacity(row))
    BY <1>4 DEF AssignJobsReplyLost, Fetch, Lives, brokerVars
  <2> QED BY <2>1 DEF LivesStep
<1>5. ASSUME NEW m \in batch[s], PublishJob(s, m)
      PROVE  LivesStep
  <2>1. Move(<<"batch", s>>, <<"jobs", "topic">>, m)
    BY <1>1, <1>5, RowsUnchangedWait DEF PublishJob, WriteMessage, Move, Lives
  <2> QED BY <2>1 DEF LivesStep
<1>6. ASSUME NEW m \in batch[s], NEW written \in BOOLEAN, PublishJobFails(s, m, written)
      PROVE  LivesStep
  <2>1. ~written
    BY <1>6 DEF PublishJobFails, Fault, NothingRepeated, RepeatingFaults
  <2>2. Move(<<"batch", s>>, <<"undo", s>>, m)
    BY <1>1, <1>6, <2>1, RowsUnchangedWait DEF PublishJobFails, ToRollBack, Move, Lives
  <2> QED BY <2>2 DEF LivesStep
<1>7. ASSUME NEW m \in batch[s], PublishJobUnacked(s, m)
      PROVE  LivesStep
  BY <1>1, <1>7, RowsUnchangedWait DEF PublishJobUnacked, StayOrEnd, Lives, brokerVars, LivesStep
<1>8. ASSUME NEW m \in undo[s], Rollback(s, m)
      PROVE  LivesStep
  <2>1. NoneBeginsToWait(Jobs \ {m.job})
    BY <1>1, <1>8 DEF Rollback, RollbackToQueued, Requeue, NoneBeginsToWait, Waiting
  <2>2. End(<<"undo", s>>, m)
    BY <1>1, <1>8, <2>1 DEF Rollback, End, Lives, brokerVars
  <2> QED BY <2>2 DEF LivesStep
<1>9. ASSUME NEW m \in undo[s], RollbackFails(s, m)
      PROVE  LivesStep
  BY <1>1, <1>9, RowsUnchangedWait DEF RollbackFails, StayOrEnd, Lives, brokerVars, LivesStep
<1>10. CASE StopScheduler(s)
  BY <1>1, <1>10, RowsUnchangedWait DEF StopScheduler, StayOrEnd, Lives, brokerVars, LivesStep
<1> QED
  BY <1>2, <1>3, <1>4, <1>5, <1>6, <1>7, <1>8, <1>9, <1>10
  DEF DispatcherStep, MonitorStep, SchedulerFault

LEMMA HeartbeatConsumerLives ==
  ASSUME HeartbeatConsumerStep \/ HeartbeatConsumerFault, SchedulerFrame
  PROVE  StayOrEnd
<1>1. /\ UNCHANGED jobRows
      /\ UNCHANGED <<schedulerVars, nodeVars, collectorVars>>
      /\ jobsTopic' = jobsTopic /\ resultsTopic' = resultsTopic
  BY DEF HeartbeatConsumerStep, HeartbeatConsumerFault, HandleHeartbeat,
         HandleHeartbeatUncommitted, SchedulerFrame, brokerVars
<1> QED
  BY <1>1, RowsUnchangedWait DEF StayOrEnd, Lives, schedulerVars, nodeVars, collectorVars

LEMMA NodeLives ==
  ASSUME NothingRepeated, TypeOK, AttemptInv, NEW w \in Workers,
         NodeStep(w) \/ NodeFault(w), NodeFrame
  PROVE  LivesStep
<1>1. /\ jobChan \in [Workers -> SUBSET JobMessage]
      /\ executing \in [Workers -> SUBSET JobMessage]
  BY DEF TypeOK, WorkerNodeTypeOK
<1> USE DEF NodeFrame, schedulerVars, collectorVars
<1>2. CASE \/ StartWorker(w) \/ SendHeartbeat(w)
           \/ LastHeartbeatGrowsStale(w) \/ HeartbeatDelayed(w)
  BY <1>2, RowsUnchangedWait
  DEF StartWorker, SendHeartbeat, LastHeartbeatGrowsStale, HeartbeatDelayed, nodeVars,
      brokerVars, StayOrEnd, Lives, LivesStep
<1>3. ASSUME NEW m \in jobsTopic, ReceiveJob(w, m)
      PROVE  LivesStep
  <2>1. Move(<<"jobs", "topic">>, <<"jobChan", w>>, m)
    BY <1>1, <1>3, RowsUnchangedWait DEF ReceiveJob, CommitMessage, Move, Lives
  <2> QED BY <2>1 DEF LivesStep
<1>4. ASSUME NEW m \in jobChan[w], StartJob(w, m)
      PROVE  LivesStep
  <2>1. Move(<<"jobChan", w>>, <<"executing", w>>, m)
    BY <1>1, <1>4, RowsUnchangedWait DEF StartJob, brokerVars, Move, Lives
  <2> QED BY <2>1 DEF LivesStep
<1>5. ASSUME NEW m \in executing[w], NEW ok \in BOOLEAN, FinishJob(w, m, ok)
      PROVE  LivesStep
  <2>1. /\ AttemptOf(Result(w, m, ok)) = m
        /\ Result(w, m, ok).success = ok
    BY <1>1 DEF AttemptInv, HeldByAddressee, AttemptOf, Result, JobMessage
  <2>2. resultsTopic' = resultsTopic \cup {Result(w, m, ok)}
    BY <1>5 DEF FinishJob, WriteMessage
  <2>3. Move(<<"executing", w>>, <<"results", ok>>, m)
    BY <1>1, <1>5, <2>1, <2>2, RowsUnchangedWait DEF FinishJob, Move, Lives
  <2> QED BY <2>3 DEF LivesStep
<1>6. ASSUME NEW m \in executing[w], FinishJobUnreported(w, m)
      PROVE  LivesStep
  BY <1>1, <1>6, RowsUnchangedWait
  DEF FinishJobUnreported, brokerVars, StayOrEnd, Lives, LivesStep
<1>7. /\ \A m \in jobsTopic : ~ReceiveJobUncommitted(w, m)
      /\ ~StopWorker(w)
  BY DEF ReceiveJobUncommitted, StopWorker, Fault, NothingRepeated, RepeatingFaults
<1> QED
  BY <1>2, <1>3, <1>4, <1>5, <1>6, <1>7 DEF NodeStep, NodeFault

LEMMA CollectorLives ==
  ASSUME NothingRepeated, TypeOK, HandlesOne, IdleHandlesNothing,
         NEW c \in Collectors, CollectorStep(c) \/ CollectorFault(c), CollectorFrame
  PROVE  LivesStep
<1>1. /\ handling \in [Collectors -> SUBSET ResultMessage]
      /\ stage \in [Collectors -> Stage]
      /\ resultsTopic \subseteq ResultMessage
      /\ jobStatus \in [Jobs -> JobRowStatus]
  BY DEF TypeOK, ResultCollectorTypeOK, BrokerTypeOK, RepositoryTypeOK
<1> USE DEF CollectorFrame, schedulerVars, nodeVars
<1>2. ASSUME NEW r \in resultsTopic, HandleSuccess(c, r) \/ HandleFailure(c, r)
      PROVE  LivesStep
  <2>1. /\ handling[c] = {} /\ handling' = [handling EXCEPT ![c] = {r}]
        /\ \A d \in Collectors : r \notin handling[d]
        /\ UNCHANGED brokerVars
    BY <1>2 DEF HandleSuccess, HandleFailure, FetchResult, IdleHandlesNothing
  <2>2. r.job = AttemptOf(r).job
    BY DEF AttemptOf
  <2>3. NoneBeginsToWait(Jobs \ {AttemptOf(r).job})
    BY <1>1, <1>2, <2>2
    DEF HandleSuccess, HandleFailure, MarkCompleted, MarkFailed, setStatus,
        NoneBeginsToWait, Waiting
  <2>4. Lives(<<"results", r.success>>, AttemptOf(r))
    BY <2>1 DEF Lives
  <2>5. \A x, n : Lives(x, n)' => Lives(x, n)
    BY <1>1, <2>1 DEF Lives, brokerVars
  <2>6. ~Lives(<<"results", r.success>>, AttemptOf(r))'
    <3>1. ASSUME NEW q \in resultsTopic, AttemptOf(q) = AttemptOf(r), q.success = r.success
          PROVE  q = r
      BY <1>1, <3>1 DEF ResultMessage, AttemptOf
    <3>2. r \in handling'[c]
      BY <1>1, <2>1
    <3> QED BY <2>1, <3>1, <3>2 DEF Lives, brokerVars
  <2>7. End(<<"results", r.success>>, AttemptOf(r))
    BY <2>3, <2>4, <2>5, <2>6 DEF End
  <2> QED BY <2>7 DEF LivesStep
<1>3. ASSUME NEW r \in handling[c], PublishDeadLetter(c, r) \/ PublishDeadLetterUnacked(c, r)
      PROVE  LivesStep
  BY <1>3, RowsUnchangedWait
  DEF PublishDeadLetter, PublishDeadLetterUnacked, brokerVars, StayOrEnd, Lives, LivesStep
<1>4. ASSUME NEW r \in handling[c], CommitResult(c, r)
      PROVE  LivesStep
  <2>1. handling[c] = {r}
    BY DEF HandlesOne
  <2>2. /\ resultsTopic' = resultsTopic \ {r}
        /\ handling' = [handling EXCEPT ![c] = {}]
        /\ jobsTopic' = jobsTopic /\ UNCHANGED jobRows
    BY <1>4 DEF CommitResult, CommitMessage
  <2>3. \A q \in resultsTopic' : /\ q \in resultsTopic
                                 /\ \A d \in Collectors : q \in handling[d] => q \in handling'[d]
    BY <1>1, <2>1, <2>2
  <2> QED
    BY <2>2, <2>3, RowsUnchangedWait DEF StayOrEnd, Lives, LivesStep
<1>5. ~StopCollector(c)
  BY DEF StopCollector, Fault, NothingRepeated, RepeatingFaults
<1> QED
  BY <1>2, <1>3, <1>4, <1>5 DEF CollectorStep, CollectorFault

LEMMA NextLives ==
  ASSUME NothingRepeated, TypeOK, AttemptInv, OverlapInv, [Next]_vars
  PROVE  LivesStep
<1>1. CASE UNCHANGED vars
  BY <1>1, RowsUnchangedWait
  DEF vars, schedulerVars, nodeVars, collectorVars, brokerVars, StayOrEnd, Lives, LivesStep
<1> QED
  BY <1>1, ApiLives, SchedulerLives, HeartbeatConsumerLives, NodeLives, CollectorLives
  DEF Next, OverlapInv, LivesStep

LEMMA NobodyGivenUpInductive ==
  ASSUME NothingRepeated, TypeOK, NobodyGivenUp, [Next]_vars
  PROVE  NobodyGivenUp'
<1>1. /\ nodeState \in [Workers -> NodeState]
      /\ workerStatus \in [Workers -> WorkerRowStatus]
      /\ heartbeatFresh \in [Workers -> BOOLEAN]
  BY DEF TypeOK, WorkerNodeTypeOK, RepositoryTypeOK
<1>2. CASE UNCHANGED <<nodeState, workerRows>>
  BY <1>2 DEF workerRows, NobodyGivenUp
<1>3. CASE ApiStep /\ ApiFrame
  BY <1>2, <1>3 DEF ApiStep, SubmitJob, CancelJob, ApiFrame, nodeVars
<1>4. ASSUME NEW s \in Schedulers,
             DispatcherStep(s) \/ MonitorStep(s) \/ SchedulerFault(s), SchedulerFrame
      PROVE  NobodyGivenUp'
  <2>1. CASE SweepWorkers(s)
    BY <1>1, <1>4, <2>1 DEF SweepWorkers, MarkUnhealthy, SchedulerFrame, nodeVars, NobodyGivenUp
  <2> QED
    BY <1>2, <1>4, <2>1
    DEF DispatcherStep, FetchHealthy, AssignJobs, PublishJob, Rollback, MonitorStep,
        SweepJobs, SchedulerFault, AssignJobsReplyLost, PublishJobFails, PublishJobUnacked,
        RollbackFails, SweepJobsFails, StopScheduler, SchedulerFrame, nodeVars
<1>5. CASE (HeartbeatConsumerStep \/ HeartbeatConsumerFault) /\ SchedulerFrame
  <2>1. PICK h \in heartbeatsTopic : UpsertHeartbeat(h.worker, h.running)
    BY <1>5
    DEF HeartbeatConsumerStep, HeartbeatConsumerFault, HandleHeartbeat, HandleHeartbeatUncommitted
  <2> QED
    BY <1>1, <1>5, <2>1
    DEF UpsertHeartbeat, RevivedStatus, SchedulerFrame, nodeVars, NobodyGivenUp
<1>6. ASSUME NEW w \in Workers, NodeStep(w) \/ NodeFault(w), NodeFrame
      PROVE  NobodyGivenUp'
  <2>1. ~StopWorker(w) /\ ~HeartbeatDelayed(w) /\ ~LastHeartbeatGrowsStale(w)
    BY DEF StopWorker, HeartbeatDelayed, LastHeartbeatGrowsStale, Fault, NothingRepeated,
           RepeatingFaults, NobodyGivenUp
  <2>2. CASE StartWorker(w)
    BY <1>1, <2>2 DEF StartWorker, workerRows, NobodyGivenUp
  <2> QED
    BY <1>2, <1>6, <2>1, <2>2
    DEF NodeStep, NodeFault, SendHeartbeat, ReceiveJob, ReceiveJobUncommitted, StartJob,
        FinishJob, FinishJobUnreported, nodeVars
<1>7. ASSUME NEW c \in Collectors, CollectorStep(c) \/ CollectorFault(c), CollectorFrame
      PROVE  NobodyGivenUp'
  BY <1>2, <1>7
  DEF CollectorStep, CollectorFault, HandleSuccess, HandleFailure, PublishDeadLetter,
      PublishDeadLetterUnacked, CommitResult, StopCollector, CollectorFrame, nodeVars
<1>8. CASE UNCHANGED vars
  BY <1>2, <1>8 DEF vars, nodeVars
<1> QED
  BY <1>3, <1>4, <1>5, <1>6, <1>7, <1>8 DEF Next

LEMMA CollectorsInductive ==
  ASSUME TypeOK, HandlesOne, IdleHandlesNothing, [Next]_vars
  PROVE  HandlesOne' /\ IdleHandlesNothing'
<1>1. /\ stage \in [Collectors -> Stage]
      /\ handling \in [Collectors -> SUBSET ResultMessage]
  BY DEF TypeOK, ResultCollectorTypeOK
<1> USE DEF HandlesOne, IdleHandlesNothing
<1>2. CASE UNCHANGED <<stage, handling>>
  BY <1>2
<1>3. ASSUME NEW c \in Collectors, CollectorStep(c) \/ CollectorFault(c)
      PROVE  HandlesOne' /\ IdleHandlesNothing'
  <2>1. ASSUME NEW m \in resultsTopic, HandleSuccess(c, m) \/ HandleFailure(c, m)
        PROVE  HandlesOne' /\ IdleHandlesNothing'
    BY <1>1, <2>1 DEF HandleSuccess, HandleFailure, FetchResult, AfterFailure
  <2>2. ASSUME NEW m \in handling[c],
               PublishDeadLetter(c, m) \/ PublishDeadLetterUnacked(c, m)
        PROVE  HandlesOne' /\ IdleHandlesNothing'
    BY <1>1, <2>2 DEF PublishDeadLetter, PublishDeadLetterUnacked
  <2>3. CASE StopCollector(c) \/ \E m \in handling[c] : CommitResult(c, m)
    BY <1>1, <2>3 DEF StopCollector, CommitResult
  <2> QED BY <1>3, <2>1, <2>2, <2>3 DEF CollectorStep, CollectorFault
<1> QED
  BY <1>2, <1>3, OthersLeaveDeadLetters DEF collectorVars

LEMMA OverlapInvInductive ==
  ASSUME NothingRepeated, TypeOK, TypeOK', AttemptInv, OverlapInv, [Next]_vars
  PROVE  OverlapInv'
<1>1. HandlesOne' /\ IdleHandlesNothing'
  BY CollectorsInductive DEF OverlapInv
<1>2. NobodyGivenUp'
  BY NobodyGivenUpInductive DEF OverlapInv
<1>3. LivesOnce' /\ LivesCurrent'
  BY NextLives, LivesStepKeeps DEF OverlapInv
<1> QED BY <1>1, <1>2, <1>3 DEF OverlapInv

LEMMA OverlapInvInit == Init => OverlapInv
<1> SUFFICES ASSUME Init PROVE OverlapInv
  OBVIOUS
<1>1. \A p, m : ~Lives(p, m)
  BY DEF Init, SchedulerInit, BrokerInit, WorkerNodeInit, Lives
<1> QED
  BY <1>1
  DEF Init, RepositoryInit, SchedulerInit, WorkerNodeInit, ResultCollectorInit, OverlapInv,
      HandlesOne, IdleHandlesNothing, NobodyGivenUp, LivesOnce, LivesCurrent

LEMMA OneRunAtATime ==
  ASSUME TypeOK, AttemptInv, OverlapInv
  PROVE  NoOverlappingExecution
<1> SUFFICES ASSUME NEW v \in Workers, NEW w \in Workers,
                    NEW m \in executing[v], NEW n \in executing[w], m.job = n.job
             PROVE  v = w /\ m = n
  BY DEF NoOverlappingExecution
<1>1. Lives(<<"executing", v>>, m) /\ Lives(<<"executing", w>>, n)
  BY DEF Lives
<1>2. m = n
  BY <1>1, LiveAttemptUnique DEF OverlapInv
<1>3. m.worker = v /\ n.worker = w
  BY DEF AttemptInv, HeldByAddressee
<1> QED BY <1>2, <1>3

\* When no message is delivered twice, no publication is ambiguous, no worker or
\* collector ends and no heartbeat is late, a job never runs twice at the same
\* time, on two workers or on one: with any number of schedulers, failed and
\* lost publications, lost reports, failed statements and schedulers that end.
THEOREM NoOverlap ==
  ASSUME NothingRepeated
  PROVE  Spec => []NoOverlappingExecution
<1>1. Init => AttemptInv /\ OverlapInv
  BY AttemptInvInit, OverlapInvInit
<1>2. TypeOK /\ AttemptInv /\ [Next]_vars => AttemptInv'
  BY AttemptInvInductive
<1>3. TypeOK /\ TypeOK' /\ AttemptInv /\ OverlapInv /\ [Next]_vars => OverlapInv'
  BY OverlapInvInductive
<1>4. TypeOK /\ AttemptInv /\ OverlapInv => NoOverlappingExecution
  BY OneRunAtATime
<1> QED BY <1>1, <1>2, <1>3, <1>4, TypeCorrect, PTL DEF Spec
=============================================================================
