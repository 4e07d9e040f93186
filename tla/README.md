# A verification of the distributed job scheduler

TLA+ modules of the job pipeline of this repository and of the components around
it, TLC configurations that check them on small instances, and TLAPS proofs of what holds for every
instance. The reference is the Go code and the SQL in it; `PROJECT.json` maps
every definition to its lines.

## The system

A client submits a job over HTTP. The API inserts a row in `jobs`. A scheduler,
one of several and elected by a PostgreSQL advisory lock, claims pending rows
for a healthy worker and publishes them on Kafka. The worker runs the job and
publishes the outcome. The result collector stores the outcome, and gives a job
whose attempts are used up to the dead letter queue. Workers report heartbeats;
the scheduler marks silent workers UNHEALTHY and requeues their jobs.

| Component | State it keeps | Operations | Talks to |
|---|---|---|---|
| Repository (`internal/repository`) | tables `jobs`, `workers`, `dead_letters` | one SQL statement per method | everybody |
| Broker (`internal/broker`) | topics `jobs`, `results`, `heartbeats`, `dead-letters` | `Publish`; fetch, handle, commit | everybody but the API |
| Dispatcher (`internal/scheduler/dispatcher.go`) | the workers of the tick, the rows fetched for one of them | `tick` every 2 s | repository, `jobs` |
| Heartbeat monitor (`heartbeat_monitor.go`) | none | `tick` every 10 s: two statements | repository |
| Heartbeat consumer (`heartbeat_consumer.go`) | none | `Handle` | `heartbeats`, repository |
| Leader election (`leader.go`, `cmd/scheduler`) | the connection that holds the lock, `running` | `Campaign`, `Resign` | PostgreSQL |
| Worker (`cmd/worker`, `internal/worker`) | `jobChan`, semaphore, `runningCount` | heartbeat loop, `handle`, `Run`, `execute` | `jobs`, `results`, `heartbeats` |
| Result collector (`internal/collector`) | the result being handled | `HandleResult`, `DeadLetterConsumer.Handle` | `results`, `dead-letters`, repository, cache |
| API (`internal/api`, `internal/cache`) | Redis: idempotency keys, status cache, rate counters | submit, cancel, read, replay, purge | repository, Redis |

What is hard in it: every hand-over crosses two systems (row, then message;
message, then row) without a transaction around both; results are applied
without comparing the attempt; several processes may lead; deliveries repeat;
liveness of workers is guessed from the age of a heartbeat. `PROJECT.json`
lists the hazards line by line.

## Modules

| Module | Models |
|---|---|
| `Models` | statuses and messages; the constants all modules share |
| `Repository` | `jobs` and `workers`; one operator per SQL statement |
| `Broker` | the topics |
| `Faults` | the budget of faults of a run |
| `Scheduler` | dispatcher, monitor, heartbeat consumer, stop of the process |
| `WorkerNode` | heartbeats, reception, execution, report, end of the process |
| `ResultCollector` | `HandleResult`, publication of the dead letter, commit |
| `Pipeline` | composes them with the API's writes; fairness; the properties |
| `JobLifecycle` | abstract specification: what a reader of `jobs` can observe |
| `PipelineProofs` | proofs about `Pipeline`, the refinement of `JobLifecycle` included |
| `MCPipeline` | constants for TLC |
| `LeaderElection` | `leader.go`, the loop of `cmd/scheduler`, the advisory lock |
| `Consumer` | `Consumer.Run`: a group that reads one partition |
| `AtLeastOnce` | abstract specification: what a consumer group promises |
| `Executor` | one worker process: channel, semaphore, counter, shutdown |
| `WorkerPool` | abstract specification: the worker the pipeline relies on |
| `DeadLetters` | table, consumer, replay, purge |
| `DeadLetterFlow` | composes `DeadLetters`, `ResultCollector` and `Repository` |
| `Idempotency` | `SubmitJob` with the store of keys |
| `StatusCache` | `GetJobStatus`, the cache, and who changes the row |
| `RateLimiter` | `Allow` and the middleware |
| `Paging` | the three lists, read page by page |
| `ProcessProofs` | proofs about `Consumer` and `LeaderElection` |
| `ExecutorProofs`, `DeadLetterFlowProofs`, `IdempotencyProofs`, `StatusCacheProofs`, `RateLimiterProofs`, `PagingProofs` | proofs about these |
| `MCLeaderElection`, `MCConsumer`, `MCExecutor`, `MCDeadLetters`, `MCIdempotency`, `MCStatusCache`, `MCRateLimiter`, `MCPaging` | these instantiated for TLC |

The first group is the pipeline; each module of the second looks closer at one
part, or adds one the pipeline leaves out. In the pipeline, each
component module declares its own variables. Its actions state what they do
to the repository, the broker and the component; `Pipeline` adds that the other
components do not move.

**Repository.** `jobStatus`, `jobWorker`, `jobAttempts` are the columns of
`jobs`; `workerStatus`, `runningJobs` those of `workers`. `last_heartbeat` is
only ever compared with `now() - 15 s`, so `heartbeatFresh` is that comparison;
`HeartbeatGrowsStale` is time passing. A row that was not inserted is `ABSENT`.
Jobs are numbered by `created_at`. `Picked` is the CTE of `FetchPending`. Since
statements are atomic, `SKIP LOCKED` has no lock to skip: a claim that skips
rows locked by another statement has the effect of a claim that ran after it.
The one exception left out is a row locked by a statement that leaves it pending
(a late `MarkFailed` of a queued job): the code may then pass it over once.

**Broker.** A topic is the set of messages not committed yet. The writers use
`LeastBytes`, which ignores keys, so order between messages is not kept. Two
equal messages in a topic are one element; the second handling of a repeated
message is a redelivery, which leaves the message in the set.
`dead-letters` keeps everything ever published; `DeadLetterFlow` has its messages
one by one.

**Scheduler.** The dispatcher's position is read off its locals: `undo` (a job
whose publication failed and that is about to be rolled back), then `batch` (rows
fetched and not published), then `snapshot` (workers of the tick not served).
The monitor's two statements are two steps (`sweeping` between them). Any number
of schedulers may lead at once; a single one that stops and goes on stands for a
fail-over.

**WorkerNode.** A worker id is used for one life of a process. `jobChan` holds
what was received and not started (the buffer and the one job the executor holds
while it waits for the semaphore), `executing` what runs. `runningCount` is the
size of `executing`; the moments at which the code's counter differs from it are
in `Executor`.

**ResultCollector.** `stage` is the position in `HandleResult`. `condemned` is a
history variable: the results for which `MarkFailed` returned DEAD.

**LeaderElection.** `main` is where the process is (its loop, the deferred calls,
not running), `conn` the elector's connection, `lock` the session that holds the
advisory lock. The three branches of `select` are `ShutDown`, `LoopStopped` and
the ticker (`Campaign`, `IdleTick`, `CampaignError`); all that are ready may be
taken. `Close` is `pgxpool.Close`, which waits for every acquired connection.
`SessionEnds` is the server noticing that a session is over.

**Consumer.** `committed` is the group's offset, `offset` the last one a member
fetched. The group assigns the partition to one member and may take it away at
any time (`Revoke`); the former owner may still handle and commit, and its commit
is stored or refused. `Poison` are messages whose handler always fails.
`AtLeastOnce` says: what is not pending has been handled. It is what `Broker`
assumes of its topics.

**Executor.** `jobState` follows a job through channel, semaphore, goroutine and
deferred function, one step per statement that another goroutine can see.
`WorkerPool` is the worker as `WorkerNode` has it; its channel holds one more
than the buffer, the job `Run` has taken and not started.

**DeadLetters.** Rows have ids of their own and nothing names the message they
were made from; `letterOf` and `replayOf` are history. A purged row stays as
PURGED. `Replay` is three steps. The topic is a log, `dlqLog`: a result published
twice is two messages, each with its offset and its commit. `DeadLetterFlow` runs
both consumers of the collector in one process, which ends when either fails;
dispatch and execution of an attempt are one step in it, taken for the jobs in
`RunJobs` only.

**Idempotency.** A hash is the string that is hashed (SHA-256 is taken to be
injective), so the model keeps the one thing that matters: type and payload are
put together without a separator. `pc` is the position in `SubmitJob`, `expired`
is history: the jobs whose key has expired.

**StatusCache.** The row of one job is its version. Time is discrete. `Timeout` is how
long after its start a request may still write the cache: the router's timeout and the
I/O timeout of the Redis client, which looks at the context only when it takes a
connection. An entry
remembers, as history, which version was current when it was written; `marked` are
the versions that a collector replaced.

**RateLimiter.** The requests of one client address; time is discrete, a window
is a few ticks. `Allow` reads the clock, increments, and sets the TTL in separate
steps; INCR may be applied and its answer lost, in which case the client library
repeats it.

**Paging.** `stamp` is the column a list is ordered by. `Page` is the set of pages
a statement may return: rows with equal stamps come in any order. The client asks
for page after page until one is not full; it is part of the model, not of the
code. Rows join and leave a filtered list when their status changes, and a
heartbeat moves a worker to the front. `last_heartbeat` is never NULL, since only
`Register` could leave it so and nothing calls it.

**Faults.** Every fault is an action of its own, with a name:

| Fault | What happens | Class |
|---|---|---|
| `fetch_reply_lost` | `FetchPending` commits, its reply is lost | loses |
| `unacked_write` | `Publish` returns nil, the message is lost (no acknowledgement is asked for: `RequiredAcks` is not set) | loses |
| `db_error` | `RollbackToQueued` or `RequeueStale` fails | loses |
| `scheduler_stop` | the process ends; also a shutdown, where publication and rollback both fail on the cancelled context | loses |
| `report_lost` | `ReportResult` fails on a live worker | loses |
| `publish_ambiguous` | `PublishJob` fails, the message was written | repeats |
| `redelivery` | handled, commit failed | repeats |
| `worker_stop` | the worker ends | repeats |
| `late_heartbeat` | a live worker's heartbeat grows stale | repeats |
| `collector_stop` | the collector ends before its commit | repeats |
| `publish_error` | `PublishJob` fails, nothing was written | neither |

The other modules have their own: `kill`, `signal`, `consumer_error`,
`connection_lost`, `campaign_error` (`LeaderElection`); `rebalance`,
`handler_error`, `commit_error`, `stop` (`Consumer`); `stop`, `report_lost`
(`Executor`); `replay_error`, `collector_stop`, `redelivery`, `unacked_write`
(`DeadLetterFlow`); `redis_error`, `read_error`, `insert_error`, `crash` (the modules with Redis).

The two classes organise the results. Faults that only lose work never make a
job run twice at a time; faults that only repeat work never strand a job. Each
claim is false for the other class, and the code does not say so.

Operators commented "Variant of X" are not part of the model: they are X with a
plausible mistake, used to see that the properties notice it.

## Properties and runs

| Property | Says |
|---|---|
| `TypeOK` | types |
| `AttemptHasOneWorker` | records of the same (job, attempts), wherever they are, name the same worker |
| `OwnershipMatchesStatus` | QUEUED jobs belong to nobody; RUNNING ones to a worker with a row, through which alone `RequeueStale` finds them |
| `OnlyExhaustedEnterDLQ` | a dead letter is a failure of a job with no attempt left |
| `DeadLetterNotLost` | a result that made a job DEAD is published or will be handled again |
| `NoStrandedJob` | the current attempt of a RUNNING job is somewhere, or its worker is down |
| `NoOverlappingExecution` | a job is not executed twice at a time |
| `LifecycleSpec` | the pipeline implements `JobLifecycle` |
| `EveryJobSettles` | every job ends COMPLETED or DEAD for good |
| `DeadIsFinal` | DEAD stays DEAD (violated) |
| `ElectionInv` | the connection of the elector, while it works, is the session that holds the lock, and who leads has one |
| `AtMostOneLeader` | two processes dispatch and sweep at once only if a connection has failed |
| `SomeoneLeads` | in the end some process leads for good, or hangs for good |
| `NoneSkipped` | a member never stands ahead of what was handled |
| `AtLeastOnceSpec` | a consumer group implements `AtLeastOnce` |
| `HandledUpToPoison` | as long as some member of the group runs again and again, every message is handled up to the first that always fails |
| `PoolSpec` | the executor implements `WorkerPool` |
| `CountCoversRunning` | `runningCount` misses no running job, and exceeds the slots only by goroutines that are ending |
| `EveryJobEnds` | every job of a worker that goes on is run |
| `DeadLetterReachesTable`, `CondemnedPersisted` | a failure that made its job DEAD is on its way to `dead_letters`, and gets there, unless its message was acknowledged and never written |
| `RowsBounded` | one row per failure, and at most two more per fault: one end of the process can repeat the publication of the result and the insert of a letter |
| `ReplayedNamesReplay` | a REPLAYED letter names a job made from it |
| `ReplaysBounded` | only overlap and failure replay a letter again |
| `StoreInv`, `OneJobPerKey` | until it expires a key gives one job |
| `AnsweredWithOwnHash` | nobody is answered with a job whose hash is not that of the submission |
| `KeyLeadsToJob`, `RetriesSucceed` | unless something failed, a key names a job; if it did, repeating the request works once the key has expired |
| `BoundedStaleness` | a replaced status is served at most the TTL plus the time a request can still write |
| `ChangeInvalidates` | a change by the collector removes what was cached before it |
| `BurstBounded` | at most five limits less two requests get through in any period of one window |
| `RefusedOnlyWhenBusy` | who is refused has sent a limit of requests in the window, less the answers of Redis that were lost in it |
| `MissedBounded`, `RepeatsBounded` | how many rows a walk through a changing list misses or gets twice |

| Run | Instance | Checks |
|---|---|---|
| `nothing_lost` | 2 schedulers, 1 job, 1 worker, 2 attempts, 2 faults that do not lose | `OwnershipMatchesStatus`, `OnlyExhaustedEnterDLQ`, `NoStrandedJob`, `DeadLetterNotLost` |
| `nothing_repeated` | 2 jobs, 2 workers, 2 dispatches, 2 faults that do not repeat | `TypeOK`, `NoOverlappingExecution`, `LifecycleSpec` |
| `settles` | 1 job, 2 workers, 1 fault that repeats or a failed sweep | `AttemptHasOneWorker`, `EveryJobSettles` |
| `cancel_undone` | 1 job, 1 worker, no fault | `DeadIsFinal`: violated |
| `leader` | 4 schedulers, 3 faults of any kind | `ElectionInv`, `AtMostOneLeader`, `SomeoneLeads` |
| `consumer` | 3 members, 4 messages, the third always failing, 4 faults | `NoneSkipped`, `AtLeastOnceSpec`, `HandledUpToPoison` |
| `executor` | 4 jobs, channel of 1, 2 slots, 2 faults | `TypeOK`, `CountCoversRunning`, `PoolSpec`, `EveryJobEnds` |
| `dead_letters` | 2 collector processes, 1 job and 3 replays, 4 rows, 2 requests, purge, 1 fault | `TypeOK`, `DeadLetterReachesTable`, `RowsBounded`, `ReplayedNamesReplay`, `ReplaysBounded`, `CondemnedPersisted` |
| `idempotency` | 3 requests under one key, 3 contents of 2 hashes, 1 request without the header, expiry, 1 fault | `StoreInv`, `OneJobPerKey`, `AnsweredWithOwnHash`, `KeyLeadsToJob`, `RetriesSucceed` |
| `status_cache` | 2 readers, a collector, a canceller, 3 changes, TTL 2, timeout 1, 1 fault | `TypeOK`, `BoundedStaleness`, `ChangeInvalidates` |
| `rate_limiter` | 4 requests, limit 1, window 3, delay 2, 1 fault | `TypeOK`, `BurstBounded`, `RefusedOnlyWhenBusy` |
| `paging` | each list, 4 rows at first, 1 more, 3 changes | `TypeOK`, `MissedBounded`, `RepeatsBounded` |

**Bounds.** Apart from the order of dispatch, the properties speak of one job at
a time and jobs interact only through capacity; `nothing_repeated` has two, of
different priority. Two workers are needed for an attempt to move, two schedulers
for one to undo what the other has done. `MaxDispatches` cuts `attempts`, which rollbacks and
requeues let grow without limit. In `settles` it is never what stops a
job: were it reached, the job would stay pending and `EveryJobSettles` would
fail. (With a bound of 4 it does: before the other worker gets the job, it can go
four times to a worker that has ended, once before the end, once from a stale
snapshot, once after a late heartbeat revived the row, and once from that tick's
stale snapshot.) `HeartbeatBacklog` is the number of heartbeats in flight; one is
enough to have one that arrives after its worker ended. `MaxFaults` is the number
of faults in a behaviour. The runs use a `MaxAttempts` of 1 or 2 instead of 3.
Worker ids are symmetric in `nothing_repeated`. `AttemptHasOneWorker` is checked in
`settles`, where a job can be dispatched to one worker while an earlier attempt is
still on its way to, or in, the other; the invariants of `nothing_lost` are checked
with one worker, two schedulers and batches of one, and proved for any number. `late_heartbeat` is in
`nothing_lost` and not in `settles`, where it makes the instance too large.

In the other modules: four schedulers give one that is left when each of three
faults has ended another. Four messages have handled and unhandled ones on both
sides of a commit, before and behind the one that always fails. A
channel of 1 and 2 slots with 4 jobs fill every place in `Executor` at once.
`RunJobs` is the first job, whose replays stay queued: one failure, and `Letters` has
a row for it, for the two repetitions one fault can cause, and one more, with which
`RowsBounded` would be exceeded. Two processes are
needed to have one that handles again what the other was stopped at. Two requests
overlap in every way one more could; with three replays possible, the bound of two
could be exceeded. `JobIds` is enough for every request to
draw a new id as often as the fault lets it repeat. In `rate_limiter` the bound
(five limits less two) is reached; a
window of 3 ticks is the shortest in which all the counters meet. `RefusedOnlyWhenBusy`
allows for lost answers of the window only, so the counter that never expires after a
failed EXPIRE could break it. In `paging` the
two rows of one microsecond stand where pages of one row separate them.

**Fairness.** Weak fairness of each loop: dispatcher and monitor are driven by
tickers and never wait for one another; consumers block on reads that deliver
what is there; the runners return (`EchoRunner` and `SleepRunner` do); workers
send heartbeats every 5 s; time passes, so the last heartbeat of a worker that
ended grows stale. Every worker starts. When a scheduler or a collector ends, another
process of its kind goes on in its place (`StopScheduler`, `StopCollector`): the
liveness of the pipeline assumes that one is there. Faults are not fair and bounded in
number. Clients are not fair, except that in `Idempotency` a client that was
answered with 500 repeats its request.

`LeaderElection`: the ticker fires, `select` takes a branch that is ready, the
server notices the end of a session. Processes that ended need not be started
again. `Consumer`: `Run` goes on and the group assigns a partition that nobody has.
Nothing in the repository starts a process again (`deploy/` holds no service of its
own programs), so `Restart` is possible and not fair, and `HandledUpToPoison` has as
its premise that the group is not left without a member for ever. `Executor`: a
goroutine that can go on does, and the runners return. `DeadLetterFlow`: both
consumers go on, in a process of the group that runs. `Idempotency`: handlers go on
and keys expire.

Deadlock is checked in all runs but `dead_letters`, `rate_limiter` and `paging`,
whose instances end when their jobs, requests or changes are used up.

**What `cancel_undone` shows.** A client cancels a RUNNING job; the API answers
204 and the row is DEAD. The worker knows nothing of it. Its result reaches
`MarkCompleted` or `MarkFailed`, which update the row whatever its status, and the
job becomes COMPLETED, or RETRYING and is run again.

**Known limits of the code, visible in the models.** The properties are stated so
that they hold of the code; what they leave open is what the code does not do:

- With any fault that loses work, `NoStrandedJob` fails: a job can stay RUNNING on a
  live worker for ever, since `RequeueStale` only looks at silent workers. With
  faults that repeat work, `NoOverlappingExecution` fails.
- Late results may also reopen a COMPLETED job (`JobLifecycle` has `Succeed` and
  `Fail` in any status for this reason). `attempts` counts dispatches, so rollbacks
  and requeues use attempts up.
- After `connection_lost` two schedulers lead: `running` is never reset and nobody
  looks at the connection. `nothing_lost` has two and shows what the pipeline keeps.
- `SomeoneLeads` without its second part fails. When the heartbeat consumer of the
  leader fails, `main` takes `<-loopCtx.Done()` and returns without `Resign`; the
  deferred `database.Close` waits for the elector's connection, which nobody gives
  back. The process hangs, its session keeps the lock, and nobody leads. After a
  signal `select` may take the same branch.
- Nothing behind a message that always fails is handled: `Run` returns the error
  without a commit, so the message comes first again to every process that gets the partition. A
  heartbeat of a worker that uses 1000 MB or more does not fit `NUMERIC(5,2)` and is
  such a message.
- A worker's `main` returns on a signal while `Run` still waits for the jobs in
  flight (`MainReturns` is enabled as soon as `ctxDone` is).
- Two requests that read OPEN before either has marked the letter both replay it
  (`ReplaysBounded` allows as many replays as requests).
- A duplicate that overlaps with the first request finds the key and no row, and is
  answered with 500 (`FetchExisting`).
- Type and payload are hashed without a separator: of the submissions `job` + `12`
  and `job1` + `2` under one key, which the run has, the second is answered with the
  job of the first. `AnsweredWithOwnHash` claims what the code compares, equal hashes.
- A dead letter that `Publish` reports as sent and that was never written is missing
  from the table for good (`NeverWritten`).
- `CancelJob` does not invalidate the cached status, nor do dispatcher and monitor:
  `ChangeInvalidates` speaks of the collector only, `BoundedStaleness` of everybody.

## Proofs

The theorems hold for any finite set of jobs, any workers, schedulers, collectors,
requests, capacities, limits and times, and any faults. They rest on the named
assumptions of the component modules, one in each module that has constants of its
own (`ModelsAssumption`, `RepositoryAssumption`, ...), which say that jobs
are finitely many and numbered, that the requests of the API and the rows of a list
are finitely many, that sizes, limits and times are numbers, that a request is
decided within a window, and that a row inserted in the microsecond of the row before
has a row before it. Three theorems have a hypothesis more, given in the table; each
is one under which a run checks the property, and without which TLC finds a
counterexample.

| Theorem | States | Inductive invariant |
|---|---|---|
| `TypeCorrect` | `Spec => []TypeOK` | `TypeOK` |
| `AttemptUnique` | `Spec => []AttemptHasOneWorker` | `AttemptInv` |
| `OwnershipSafe` | `Spec => []OwnershipMatchesStatus` | `OwnershipInv` |
| `LifecycleImplemented` | `Spec => LifecycleSpec` | `AttemptInv` |
| `DeadLettersExhausted` | `Spec => []OnlyExhaustedEnterDLQ` | `ExhaustedInv` |
| `DeadLettersSafe` | without `unacked_write`: `Spec => []DeadLetterNotLost` | `NotLostInv` with `ExhaustedInv` |
| `NoJobStranded` | without the faults that lose: `Spec => []NoStrandedJob` | `StrandedInv` with `AttemptInv` and `OwnershipInv` |
| `NoOverlap` | without the faults that repeat: `Spec => []NoOverlappingExecution` | `OverlapInv` with `AttemptInv` |
| `ElectionSafe`, `OneLeader` | `ElectionSpec => []ElectionInv`, `[]AtMostOneLeader` | `ElectionInv` |
| `NoMessageSkipped`, `ConsumerImplements` | `Spec => []NoneSkipped`, `AtLeastOnceSpec` | `NoneSkipped` |
| `ExecutorTyped`, `CountSafe`, `ExecutorImplementsPool` | `Spec => []TypeOK`, `[]CountCoversRunning`, `PoolSpec` | `ExecutorInv` |
| `FlowTyped`, `CondemnedReachTable`, `RowsPerFailure`, `ReplayNamed`, `ReplaysPerLetter` | `Spec => []TypeOK`, `[]DeadLetterReachesTable`, `[]RowsBounded`, `[]ReplayedNamesReplay`, `[]ReplaysBounded` | `FlowInv` |
| `StoreSafe`, `KeyGivesOneJob`, `KeyLeads` | `Spec => []StoreInv`, `[]OneJobPerKey`, `[]KeyLeadsToJob` | `StoreInv`, with `KeyLeadsToJob` for the last |
| `AnsweredWithOwn` | `Spec => []AnsweredWithOwnHash` | `HashInv` with `StoreInv` |
| `CacheTyped`, `StalenessBounded`, `CollectorInvalidates` | `Spec => []TypeOK`, `[]BoundedStaleness`, `[]ChangeInvalidates` | `CacheInv` |
| `LimiterTypeCorrect`, `NobodyLockedOut` | `Spec => []TypeOK`, `[]RefusedOnlyWhenBusy` | `LimiterInv` |
| `BurstSafe` | `Spec => []BurstBounded` | `BurstInv` with `LimiterInv` |
| `PagingTyped`, `WalkMissesFew`, `WalkRepeatsFew` | `Spec => []TypeOK`, `[]MissedBounded`, `[]RepeatsBounded` | `PagingInv` |

**Attempts.** `AttemptHasOneWorker` is not inductive alone. A result carries the
id of the worker that reports it, so a worker must hold only what is addressed to
it (`HeldByAddressee`); and a dispatch must get a number nobody carries yet, so
no attempt in flight may be ahead of `jobs.attempts` (`AttemptsDispatched`). The
proof first shows that only `FetchPending` makes attempts (`NextAttempts`).

**Ownership.** A tick claims jobs for the workers of its snapshot, which may be
old by then. Ownership is inductive because rows of workers are never deleted, so
the workers of a snapshot still have theirs (`SnapshotRegistered`).

**Refinement.** The mapping is the identity on `status` and `attempts`. Every
step changes `jobs` by one statement or not at all (`NextJobRows`), and every
statement is a step of `JobLifecycle` or stutters (`LifecycleStep`). Two cases
need work: an outcome is stored only for a job that was dispatched, which is
`AttemptsDispatched`; and `LIMIT` picks a prefix of the order of dispatch, because
a job ahead of a picked one has fewer jobs ahead of itself (`PickedInOrder`).

**Dead letters.** `attempts` never decreases, so what `MarkFailed` saw when it
answered DEAD stays true whoever dispatches the job meanwhile. A result handled a
second time after a crash is therefore published again before it is committed
(`CommitAfterPublish`), which is why no dead letter is lost.

**Stranded jobs.** The proof follows the current attempt of a RUNNING job: a step
that takes it from one place puts it in the next (`NextGives`), apart from a
rollback, which requeues the job, the end of the worker, and the commit of a
result. For the last one `HandledSettled` is needed: when a result is committed
its job has left RUNNING or runs as a later attempt, although other processes
may have dispatched it between the update and the commit.

**Overlap.** An attempt is alive in a batch, about to be rolled back, on the topic,
in a channel, running, or as a result no collector has fetched (`Lives`). Without
faults that repeat, it is alive in one place (`LivesOnce`), and it is the latest of a
job that does not wait for dispatch (`LivesCurrent`), so a fetch never starts a second
one. Every step leaves the live attempts alone or ends some, moves one, ends one whose
job may then wait again, or fetches new ones (`LivesStep`). Several leading schedulers
do not matter. A requeue starts no second attempt because no worker is given up
while it lives (`NobodyGivenUp`).

**Leader.** `running` and the lock are in two processes; `ElectionInv` ties them
together through the connection: who leads has one, and one that works
is the session of the lock. It is inductive because `Resign` and the end of a
process drop the connection with the lock, and because a process asks for the
lock only while it has none.

**Keys.** That a key gives one job rests on what lies between two systems: whoever
is about to insert holds the key in Redis under the id it will insert, and every
row is the one its key names until the key expires (`StoreInv`). Expiry keeps it,
since a key outlives the request that set it (`EntryAge`). A failed request may leave a key without
a row, never a row without its key. `AnsweredWithOwn` follows the hash: an entry
carries the hash of the row that is or will be inserted under its id, a request that
goes on to fetch has compared its own with it (`FetchedHashed`), and a row keeps its
content. Nothing is assumed of the hash: the theorem says that the hashes are equal,
and not that the contents are.

**Consumer.** The mapping takes as pending what lies behind the committed offset.
A member's place is ahead only of handled messages (`NoneSkipped`), also after a
failed commit, a rebalance or the end of a process; a late commit of a former owner may move
the committed offset back, which is a redelivery of what was handled.

**Executor.** A job is in one state, so the proof counts states: the channel holds the
queued jobs once each, `Run` holds at most one job outside of it, the slots are the jobs
between acquisition and release, `runningCount` counts the goroutines from their start
to their last deferred statement. Each action moves one job, and one lemma says what
that does to every count (`MoveCount`). The mapping to `WorkerPool` puts the job `Run`
holds in the channel, which is why the abstract channel has one place more.

**Dead letter flow.** `condemned` results are published before they are committed and
inserted before their message is, and MarkFailed answers DEAD to them again
(`CondemnedInv`), so a repetition ends in the table as well. A publication that was
not written counts as sent without an offset (`Sent`); such a result is exempt only
while none of its publications was written. For the number of rows,
two counts are needed, because results and letters are repeated independently: a
result has at most one message more than there were faults (`CopiesInv`), and at
most one row more per fault than messages that are stored (`RowsInv`). One end of the
process may add to both. Replays are counted with the requests still on their way:
while a letter is OPEN, every replay belongs to a request about to mark it or to a
failed one; once it is marked, no new request gets past the check (`CountInv`).

**Status cache.** A request about to write the cache read the row after it started, so
if the row was replaced since, `Timeout` bounds how late it writes
the old status (`ReaderInv`), and the TTL how long that is served (`EntryInv`). For
the collector, an entry that was current when written and has been replaced by a
collector waits for that collector's delete, or is gone (`MarkedInv`).

**Rate limiter.** The counter of a window is at most the number of requests of the
window that came past INCR, and one more for each lost answer of the window
(`CountBounded`); expiry only lowers it. Who is refused read a counter above the limit, and those it counted
arrived in the same window (`KeyOfArrival`).

`BurstBounded` follows the lives of a counter, from INCR to the end of its TTL. The first
lasts until the window is over, since the TTL is set after the window began; who
arrived in the window is decided a window later at the latest, before a second
life ends. So a counter has two lives that count, and each gives a limit (`LivesInv`).
Requests served in a period belong to three windows. Where both lives of a counter
fall into it, the request that set the TTL of the first was served before the
period: two limits less one. In the last of the three windows only the first life
can. This bound replaced one of four limits less one, which is the same for a limit
of 1 and wrong for a limit of 2: a behaviour of ten requests with windows of three
ticks and delays of three gives eight in one period.

**Lists.** A walk is judged by what lies behind its offset, a rest of the list
(`Rests`). There are several, since rows of the same time are in no order, and the next
page may take another than the last one did; so `OffsetInv` is about all of them. Of
the rows that were there at the first page and were not given, at most one lies before
the offset for each that left; and of the rows before the offset, all but one for
each that joined were given. A row that leaves brings at most one row up from behind
the offset (`RemoveRow`), one that joins sends at most one behind it (`AddRow`), a
heartbeat does both. When the next page takes another rest, the rows it exchanges have
the time of a row of the page (`PageTies`), and two rows have the same time only if
they were inserted so, since a heartbeat or an insert takes a time of its own
(`StampInv`). `Given` therefore counts the rows tied with one that was given as given
too. They cost the bound `Cardinality(SameTime)`: of the rows inserted in one
microsecond all but one are in `SameTime`, so the tied rows that were not seen map
into it one to one (`TiesBounded`). The proof found one assumption missing: a first
row in `SameTime` would have had no stamp. TLC checked `PagingInv` on the
instance of the `paging` run before it was proved.

Only model-checked is liveness, which is out of the prover's reach:
`EveryJobSettles`, `SomeoneLeads`, `HandledUpToPoison`,
`EveryJobEnds`, `CondemnedPersisted`, `RetriesSucceed`.

## Not modelled

- `Register` and `FetchAssigned`: nothing calls them. The branch of
  `Executor.Run` for a closed channel: nothing closes it.
- Handlers that read one row (`GetWorker`, `DeadLetterHandler.Get`), 400 answers,
  routing, authentication, DTOs, configuration, metrics, logging, the migration
  tool: no state or protocol of their own.
- `Server.Start` and `Shutdown`: they delegate to `net/http`.
- How the client's address is found in a request; clocks of several API servers
  that differ.
- In `ResultCollector` and `DeadLetterFlow`, the time in a rebalance in which two
  collectors are busy with one result: a message has one owner. `Consumer` has that
  overlap, for `Run` and the offsets.
- In `WorkerNode`, the same message twice in one worker: `jobChan` and `executing` are
  sets, so identical duplicates are one element. `NoOverlappingExecution` is checked
  and proved without redeliveries, where there are none.
- Two claims at the same time: a statement is one step, and that `FOR UPDATE SKIP
  LOCKED` keeps two of them apart is taken from the database.
- A submission without payload, which the NOT NULL column refuses every time.

## Plan

Done: the pipeline, dead letters, idempotency, the status cache, leader election,
the executor, the consumer loop, the rate limiter, the lists; theorems for every
safety property and every refinement that a run checks.

Left: nothing that was planned. Liveness stays with TLC.
