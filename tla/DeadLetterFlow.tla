--------------------------- MODULE DeadLetterFlow ---------------------------
(***************************************************************************)
(* From a failed result to a row of dead_letters and back to the queue:    *)
(* composes ResultCollector, whose process also runs the dead letter       *)
(* consumer, with DeadLetters and the jobs table.  Dispatching and running *)
(* an attempt is one step here; Pipeline has its detail.                   *)
(***************************************************************************)
EXTENDS DeadLetters

CONSTANT RunJobs   \* model bound: the jobs that are run, the others stay QUEUED

vars == <<jobRows, workerRows, brokerVars, collectorVars, deadLetterVars, faults>>

TypeOK ==
  /\ RepositoryTypeOK
  /\ BrokerTypeOK
  /\ ResultCollectorTypeOK
  /\ DeadLettersTypeOK
  /\ FaultsTypeOK

Init ==
  /\ RepositoryInit
  /\ BrokerInit
  /\ ResultCollectorInit
  /\ DeadLettersInit
  /\ FaultsInit

-----------------------------------------------------------------------------
\* A client submits a job that is no replay.
Submit(j) ==
  /\ j = 1
  /\ Create(j)
  /\ NoFault
  /\ UNCHANGED <<workerRows, brokerVars, collectorVars, deadLetterVars>>

\* The first pending job is dispatched to w, run and reported.
RunAttempt(w, ok) ==
  /\ \E m \in Fetched(w, 1) :
       /\ m.job \in RunJobs
       /\ resultsTopic' = WriteMessage(resultsTopic,
            [job |-> m.job, worker |-> w, attempts |-> m.attempts, success |-> ok])
  /\ FetchPending(w, 1)
  /\ NoFault
  /\ UNCHANGED <<workerRows, jobsTopic, heartbeatsTopic, deadLettersTopic,
                 collectorVars, deadLetterVars>>

\* main: a signal, a crash, or log.Fatal when either consumer returns an error
\* ends both of them; the group gives their partitions to a process that runs.
StopProcess(c) ==
  /\ stage[c] # "handle" \/ dlqHandling[c] # {}
  /\ stage' = [stage EXCEPT ![c] = "handle"]
  /\ handling' = [handling EXCEPT ![c] = {}]
  /\ DoneWithLetter(c)
  /\ Fault("collector_stop")
  /\ UNCHANGED <<jobRows, workerRows, brokerVars, condemned, letterRows,
                 dlqLog, dlqLost, dlqCommitted, replayVars>>

\* A dead letter is one more message of the topic, although m may be there already.
Publish(c, m) ==
  /\ PublishDeadLetter(c, m)
  /\ dlqLog' = Append(dlqLog, m)
  /\ UNCHANGED <<letterRows, dlqLost, dlqCommitted, dlqHandling, dlqStored, replayVars>>

\* Publish returns nil, and the message is lost (the writer asks for no
\* acknowledgement).
PublishLost(c) ==
  \E m \in resultsTopic :
    /\ PublishDeadLetterUnacked(c, m)
    /\ dlqLost' = dlqLost \cup {m}
    /\ UNCHANGED <<letterRows, dlqLog, dlqCommitted, dlqHandling, dlqStored, replayVars>>

Collect(c) ==
  \E m \in resultsTopic :
    \/ /\ HandleSuccess(c, m) \/ HandleFailure(c, m) \/ CommitResult(c, m)
       /\ UNCHANGED deadLetterVars
    \/ Publish(c, m)

Persist(c) ==
  /\ \E o \in 1 .. Len(dlqLog) : \/ FetchLetter(c, o)
                                 \/ \E l \in Letters : InsertLetter(c, o, l)
                                 \/ CommitLetter(c, o)
  /\ UNCHANGED <<workerRows, collectorVars>>

CommitFails(c) ==
  /\ \E o \in 1 .. Len(dlqLog) : CommitLetterFails(c, o)
  /\ UNCHANGED <<workerRows, collectorVars>>

Request(r) ==
  /\ \/ \E l \in Letters : ReplayGet(r, l) \/ MarkReplayed(r, l)
     \/ \E j \in Jobs : ReplayCreate(r, j)
     \/ ReplayFails(r)
  /\ UNCHANGED <<workerRows, collectorVars>>

Purge ==
  /\ \E l \in Letters : Delete(l)
  /\ UNCHANGED <<workerRows, collectorVars>>

Next ==
  \/ \E j \in Jobs : Submit(j)
  \/ \E w \in Workers, ok \in BOOLEAN : RunAttempt(w, ok)
  \/ \E c \in Collectors : \/ Collect(c) \/ Persist(c)
                           \/ PublishLost(c) \/ CommitFails(c) \/ StopProcess(c)
  \/ \E r \in Requests : Request(r)
  \/ Purge

\* Both consumers go on with what is there, in a process that runs.
Fairness == \A c \in Collectors : WF_vars(Collect(c)) /\ WF_vars(Persist(c))

Spec == Init /\ [][Next]_vars /\ Fairness

-----------------------------------------------------------------------------
\* The messages of the topic that carry m.
OffsetsOf(m) == {o \in 1 .. Len(dlqLog) : dlqLog[o] = m}

RowsOf(m) == {l \in Letters : m \in letterOf[l]}

ReplaysOf(l) == {j \in Jobs : l \in replayOf[j]}

\* Every message of a dead letter was lost on the way to Kafka.
NeverWritten(m) == m \in dlqLost /\ OffsetsOf(m) = {}

\* A result that made its job DEAD is still to be handled, on its way, or a row
\* of dead_letters that at most an operator has removed, unless Kafka never got it
\* (HandleResult publishes, DeadLetterConsumer.Handle inserts, each before its
\* commit).
DeadLetterReachesTable ==
  \A m \in condemned :
    \/ m \in resultsTopic
    \/ \E o \in OffsetsOf(m) : o \notin dlqCommitted
    \/ RowsOf(m) # {}
    \/ NeverWritten(m)

\* Every row beyond the first of a failure is due to a delivery that was repeated
\* (dead_letters has no key on the job), and one end of the process repeats two: the
\* result is published again, and the letter that was not committed is inserted
\* again (main runs both consumers).
RowsBounded ==
  \A m \in deadLettersTopic : Cardinality(RowsOf(m)) <= 1 + 2 * faults

\* A REPLAYED letter names a job that exists and was made from it, whoever else
\* replayed or whatever failed (Replay inserts the job before it marks).
ReplayedNamesReplay ==
  \A l \in Letters : letterStatus[l] = "REPLAYED" =>
    \E j \in replayedJob[l] : jobStatus[j] # "ABSENT" /\ l \in replayOf[j]

\* Requests that overlap, and requests that fail, are the only ways to replay a
\* letter again (Replay: the check of the status).
ReplaysBounded ==
  \A l \in Letters : Cardinality(ReplaysOf(l)) <= Cardinality(Requests) + faults

\* The jobs that died of their failures are found in dead_letters in the end, but
\* for the letters Kafka never got: a consumer that ends before its commit is
\* followed by another (Run).
CondemnedPersisted == <>[](\A m \in condemned : RowsOf(m) # {} \/ NeverWritten(m))
=============================================================================
