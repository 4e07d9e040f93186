------------------------ MODULE DeadLetterFlowProofs ------------------------
(***************************************************************************)
(* From a failed result to a row of dead_letters and back to the queue,    *)
(* for any number of jobs, collectors, letters, requests and faults.       *)
(***************************************************************************)
EXTENDS DeadLetterFlow, FiniteSetTheorems, TLAPS

(***************************************************************************)
(* The result consumer.                                                    *)
(***************************************************************************)

\* What is on a topic is about an attempt that was dispatched.
AttemptsInv ==
  /\ \A m \in resultsTopic : m.attempts <= jobAttempts[m.job]
  /\ \A o \in 1 .. Len(dlqLog) : dlqLog[o].attempts <= jobAttempts[dlqLog[o].job]

\* A collector handles one result of the topic, which no other handles.
HandlingInv ==
  \A c \in Collectors :
    /\ handling[c] \subseteq resultsTopic
    /\ stage[c] = "handle" => handling[c] = {}
    /\ \A m, n \in handling[c] : m = n
    /\ \A d \in Collectors : handling[c] \cap handling[d] # {} => c = d

Condemnable(m) == ~m.success /\ jobAttempts[m.job] >= MaxAttempts

\* MarkFailed answers DEAD for a condemned result whenever it is handled again.
CondemnedInv == \A m \in condemned : Condemnable(m)

\* Publish has returned nil for m.
Sent(m) == OffsetsOf(m) # {} \/ m \in dlqLost

\* It is published before it is committed.
PublishedInv ==
  \A m \in condemned :
    /\ m \notin resultsTopic => Sent(m)
    /\ \A c \in Collectors : m \in handling[c] /\ stage[c] = "commit" => Sent(m)

\* No collector will publish m unless one ends before its commit.
Settled(m) ==
  \/ m \notin resultsTopic
  \/ \E c \in Collectors : m \in handling[c] /\ stage[c] = "commit"

\* A result is published once, and once more for every end of a collector.
CopiesInv ==
  \A m \in ResultMessage :
    /\ Cardinality(OffsetsOf(m)) <= faults + 1
    /\ ~Settled(m) => Cardinality(OffsetsOf(m)) <= faults

ResultsInv == AttemptsInv /\ HandlingInv /\ CondemnedInv /\ PublishedInv /\ CopiesInv

(***************************************************************************)
(* The dead letter consumer.                                               *)
(***************************************************************************)

\* A consumer handles one message, which is not committed and which no other
\* handles.
DlqHandlingInv ==
  \A c \in Collectors :
    /\ dlqHandling[c] \cap dlqCommitted = {}
    /\ dlqHandling[c] = {} => ~dlqStored[c]
    /\ \A o, p \in dlqHandling[c] : o = p
    /\ \A d \in Collectors : dlqHandling[c] \cap dlqHandling[d] # {} => c = d

\* The messages whose insert is done and will not be done again unless the
\* consumer ends before its commit.
Stored ==
  dlqCommitted \cup UNION {dlqHandling[c] : c \in {d \in Collectors : dlqStored[d]}}

StoredOf(m) == OffsetsOf(m) \cap Stored

\* A row that is not there was made from nothing.
AbsentInv == \A l \in Letters : letterStatus[l] = "ABSENT" => letterOf[l] = {}

StoredInv == \A o \in Stored : RowsOf(dlqLog[o]) # {}

RowsInv ==
  \A m \in ResultMessage :
    /\ IsFiniteSet(RowsOf(m))
    /\ Cardinality(RowsOf(m)) <= Cardinality(StoredOf(m)) + faults

LettersInv == DlqHandlingInv /\ AbsentInv /\ StoredInv /\ RowsInv

(***************************************************************************)
(* Replays.                                                                *)
(***************************************************************************)

\* The requests that have got as far as `place' with letter l.
RequestsAt(place, l) == {r \in Requests : replay[r] = place /\ l \in replayLetter[r]}

\* A request knows the letter it has read and the job it has created.
RequestInv ==
  \A r \in Requests :
    /\ replay[r] = "get" => replayLetter[r] = {}
    /\ \A l, k \in replayLetter[r] : l = k
    /\ \A l \in replayLetter[r] : letterStatus[l] # "ABSENT"
    /\ replay[r] = "mark" =>
         \E j \in replayNew[r] : /\ jobStatus[j] # "ABSENT"
                                 /\ replayLetter[r] \subseteq replayOf[j]

NewJobsInv == \A j \in Jobs : jobStatus[j] = "ABSENT" => replayOf[j] = {}

\* While a letter is OPEN, the jobs made from it are those whose request has not
\* marked it yet, and those whose request failed; after that only the requests
\* that read it before can add one.
CountInv ==
  \A l \in Letters :
    /\ letterStatus[l] \in {"ABSENT", "OPEN"} =>
         Cardinality(ReplaysOf(l)) <= faults + Cardinality(RequestsAt("mark", l))
    /\ letterStatus[l] \notin {"ABSENT", "OPEN"} =>
         Cardinality(ReplaysOf(l)) + Cardinality(RequestsAt("create", l))
           <= Cardinality(Requests) + faults

ReplayInv == RequestInv /\ NewJobsInv /\ CountInv /\ ReplayedNamesReplay

-----------------------------------------------------------------------------
(***************************************************************************)
(* Types.                                                                  *)
(***************************************************************************)

LEMMA FaultsStep ==
  ASSUME FaultsTypeOK, NoFault \/ \E kind : Fault(kind)
  PROVE  /\ FaultsTypeOK' /\ faults \in Nat /\ faults' \in Nat
         /\ faults' = faults \/ faults' = faults + 1
BY FaultsAssumption DEF FaultsTypeOK, NoFault, Fault

LEMMA SetStatusTyped ==
  ASSUME RepositoryTypeOK, NEW j \in Jobs, NEW st \in JobRowStatus,
         jobStatus' = [jobStatus EXCEPT ![j] = st],
         UNCHANGED <<jobWorker, jobAttempts, workerRows>>
  PROVE  RepositoryTypeOK'
BY DEF RepositoryTypeOK, workerRows

\* The result that a run of the first pending job reports.
LEMMA RunAttemptFacts ==
  ASSUME TypeOK, NEW w \in Workers, NEW ok \in BOOLEAN, RunAttempt(w, ok)
  PROVE  /\ \E m \in ResultMessage :
              /\ m.attempts = jobAttempts[m.job] + 1
              /\ m.attempts = jobAttempts'[m.job]
              /\ resultsTopic' = resultsTopic \cup {m}
         /\ RepositoryTypeOK'
         /\ \A j \in Jobs : /\ jobAttempts'[j] >= jobAttempts[j]
                            /\ jobStatus'[j] = "ABSENT" <=> jobStatus[j] = "ABSENT"
<1>1. PICK f \in Fetched(w, 1) :
        resultsTopic' = WriteMessage(resultsTopic,
            [job |-> f.job, worker |-> w, attempts |-> f.attempts, success |-> ok])
  BY DEF RunAttempt
<1>2. PICK j \in Picked(1) : f = [job |-> j, worker |-> w, attempts |-> NextAttempt(j)]
  BY <1>1 DEF Fetched
<1>3. FetchPending(w, 1) /\ UNCHANGED workerRows
  BY DEF RunAttempt
<1>4. jobAttempts \in [Jobs -> Nat] /\ jobStatus \in [Jobs -> JobRowStatus]
  BY DEF TypeOK, RepositoryTypeOK
<1>5. Picked(1) \subseteq Jobs /\ \A k \in Picked(1) : jobStatus[k] # "ABSENT"
  BY DEF Picked, Pending
<1>6. j \in Jobs /\ jobAttempts'[j] = jobAttempts[j] + 1 /\ f.attempts = jobAttempts[j] + 1
  BY <1>2, <1>3, <1>4, <1>5 DEF FetchPending, NextAttempt
<1>7. RepositoryTypeOK'
  BY <1>3, <1>4
  DEF TypeOK, RepositoryTypeOK, FetchPending, ClaimedBy, NextAttempt, JobRowStatus,
      JobStatus, workerRows
<1>8. \A k \in Jobs : /\ jobAttempts'[k] >= jobAttempts[k]
                      /\ jobStatus'[k] = "ABSENT" <=> jobStatus[k] = "ABSENT"
  BY <1>3, <1>4, <1>5 DEF FetchPending, NextAttempt
<1> DEFINE m == [job |-> j, worker |-> w, attempts |-> jobAttempts[j] + 1, success |-> ok]
<1>9. m \in ResultMessage /\ resultsTopic' = resultsTopic \cup {m}
  BY <1>1, <1>2, <1>4, <1>6 DEF ResultMessage, WriteMessage
<1> QED BY <1>6, <1>7, <1>8, <1>9

LEMMA RowsTyped ==
  ASSUME RepositoryTypeOK, UNCHANGED <<jobRows, workerRows>>
  PROVE  RepositoryTypeOK'
BY DEF RepositoryTypeOK, jobRows, workerRows

LEMMA BrokerTyped ==
  ASSUME BrokerTypeOK, UNCHANGED brokerVars
  PROVE  BrokerTypeOK'
BY DEF BrokerTypeOK, brokerVars

LEMMA CollectorTyped ==
  ASSUME ResultCollectorTypeOK, UNCHANGED collectorVars
  PROVE  ResultCollectorTypeOK'
BY DEF ResultCollectorTypeOK, collectorVars

LEMMA LettersTyped ==
  ASSUME DeadLettersTypeOK, UNCHANGED deadLetterVars
  PROVE  DeadLettersTypeOK'
BY DEF DeadLettersTypeOK, deadLetterVars, letterRows, dlqVars, replayVars

\* The result consumer.
LEMMA CollectTyped ==
  ASSUME TypeOK, NEW c \in Collectors, Collect(c)
  PROVE  TypeOK'
<1> USE DEF TypeOK
<1>1. PICK m \in resultsTopic :
        \/ /\ HandleSuccess(c, m) \/ HandleFailure(c, m) \/ CommitResult(c, m)
           /\ UNCHANGED deadLetterVars
        \/ Publish(c, m)
  BY DEF Collect
<1>2. m \in ResultMessage /\ m.job \in Jobs
  BY DEF BrokerTypeOK, ResultMessage
<1>3. CASE HandleSuccess(c, m) /\ UNCHANGED deadLetterVars
  <2>1. RepositoryTypeOK'
    BY <1>2, <1>3, SetStatusTyped DEF HandleSuccess, MarkCompleted, setStatus, JobRowStatus, JobStatus
  <2>2. ResultCollectorTypeOK'
    BY <1>2, <1>3 DEF HandleSuccess, FetchResult, ResultCollectorTypeOK, Stage
  <2> QED BY <1>3, <2>1, <2>2, BrokerTyped, LettersTyped, FaultsStep DEF HandleSuccess
<1>4. CASE HandleFailure(c, m) /\ UNCHANGED deadLetterVars
  <2>1. FailedStatus(m.job) \in JobRowStatus /\ AfterFailure(m.job) \in Stage
    BY DEF FailedStatus, AfterFailure, JobRowStatus, JobStatus, Stage
  <2>2. RepositoryTypeOK'
    BY <1>2, <1>4, <2>1, SetStatusTyped DEF HandleFailure, MarkFailed, setStatus
  <2>3. condemned' \subseteq ResultMessage
    BY <1>2, <1>4 DEF HandleFailure, ResultCollectorTypeOK
  <2>4. ResultCollectorTypeOK'
    BY <1>2, <1>4, <2>1, <2>3 DEF HandleFailure, FetchResult, ResultCollectorTypeOK
  <2> QED BY <1>4, <2>2, <2>4, BrokerTyped, LettersTyped, FaultsStep DEF HandleFailure
<1>5. CASE CommitResult(c, m) /\ UNCHANGED deadLetterVars
  <2>1. ResultCollectorTypeOK'
    BY <1>5 DEF CommitResult, ResultCollectorTypeOK, Stage
  <2>2. BrokerTypeOK'
    BY <1>5 DEF CommitResult, BrokerTypeOK, CommitMessage
  <2> QED BY <1>5, <2>1, <2>2, RowsTyped, LettersTyped, FaultsStep DEF CommitResult
<1>6. CASE Publish(c, m)
  <2>1. ResultCollectorTypeOK'
    BY <1>6 DEF Publish, PublishDeadLetter, ResultCollectorTypeOK, Stage
  <2>2. BrokerTypeOK'
    BY <1>2, <1>6 DEF Publish, PublishDeadLetter, BrokerTypeOK, WriteMessage
  <2>3. /\ dlqLog' \in Seq(ResultMessage) /\ Len(dlqLog') = Len(dlqLog) + 1
        /\ Len(dlqLog) \in Nat
    BY <1>2, <1>6 DEF Publish, DeadLettersTypeOK
  <2>4. 1 .. Len(dlqLog) \subseteq 1 .. Len(dlqLog')
    BY <2>3
  <2>5. DeadLettersTypeOK'
    BY <1>6, <2>3, <2>4 DEF Publish, DeadLettersTypeOK, letterRows, replayVars
  <2> QED BY <1>6, <2>1, <2>2, <2>5, RowsTyped, FaultsStep DEF Publish, PublishDeadLetter
<1> QED BY <1>1, <1>3, <1>4, <1>5, <1>6

\* The dead letter consumer, and the end of the process of both.
LEMMA PersistTyped ==
  ASSUME TypeOK, NEW c \in Collectors, Persist(c) \/ CommitFails(c) \/ StopProcess(c)
  PROVE  TypeOK'
<1> USE DEF TypeOK
<1>1. /\ UNCHANGED <<jobRows, workerRows, brokerVars>>
      /\ NoFault \/ \E kind : Fault(kind)
  BY DEF Persist, CommitFails, StopProcess, FetchLetter, InsertLetter, CommitLetter,
         CommitLetterFails
<1>2. ResultCollectorTypeOK'
  BY DEF Persist, CommitFails, StopProcess, ResultCollectorTypeOK, Stage, collectorVars
<1>3. CASE Persist(c)
  <2>1. PICK o \in 1 .. Len(dlqLog) :
          \/ FetchLetter(c, o)
          \/ \E l \in Letters : InsertLetter(c, o, l)
          \/ CommitLetter(c, o)
    BY <1>3 DEF Persist
  <2>2. ASSUME FetchLetter(c, o) PROVE DeadLettersTypeOK'
    BY <2>2
    DEF FetchLetter, DeadLettersTypeOK, StoredAtFetch, letterRows, replayVars
  <2>3. ASSUME NEW l \in Letters, InsertLetter(c, o, l)
        PROVE  DeadLettersTypeOK'
    <3>1. dlqLog[o] \in ResultMessage
      BY <2>1 DEF DeadLettersTypeOK
    <3> QED BY <2>3, <3>1
            DEF InsertLetter, DeadLettersTypeOK, NewLetterStatus, LetterStatus, replayVars
  <2>4. ASSUME CommitLetter(c, o) PROVE DeadLettersTypeOK'
    BY <2>4
    DEF CommitLetter, AfterCommit, DoneWithLetter, DeadLettersTypeOK, letterRows, replayVars
  <2> QED BY <1>1, <1>2, <2>1, <2>2, <2>3, <2>4, RowsTyped, BrokerTyped, FaultsStep
<1>4. CASE CommitFails(c) \/ StopProcess(c)
  <2>1. /\ DoneWithLetter(c)
        /\ UNCHANGED <<letterRows, dlqLog, dlqLost, dlqCommitted, replayVars>>
    BY <1>4 DEF CommitFails, StopProcess, CommitLetterFails
  <2>2. DeadLettersTypeOK'
    BY <2>1 DEF DoneWithLetter, DeadLettersTypeOK, letterRows, replayVars
  <2> QED BY <1>1, <1>2, <2>2, RowsTyped, BrokerTyped, FaultsStep
<1> QED BY <1>3, <1>4

\* The message of a dead letter is lost.
LEMMA LostTyped ==
  ASSUME TypeOK, NEW c \in Collectors, PublishLost(c)
  PROVE  TypeOK'
<1> USE DEF TypeOK
<1>1. PICK m \in resultsTopic :
        /\ PublishDeadLetterUnacked(c, m)
        /\ dlqLost' = dlqLost \cup {m}
        /\ UNCHANGED <<letterRows, dlqLog, dlqCommitted, dlqHandling, dlqStored, replayVars>>
  BY DEF PublishLost
<1>2. m \in ResultMessage
  BY DEF BrokerTypeOK
<1>3. ResultCollectorTypeOK'
  BY <1>1 DEF PublishDeadLetterUnacked, ResultCollectorTypeOK, Stage
<1>4. DeadLettersTypeOK'
  BY <1>1, <1>2 DEF DeadLettersTypeOK, letterRows, replayVars
<1> QED BY <1>1, <1>3, <1>4, RowsTyped, BrokerTyped, FaultsStep DEF PublishDeadLetterUnacked

\* Requests.
LEMMA RequestTyped ==
  ASSUME TypeOK, Purge \/ \E r \in Requests : Request(r)
  PROVE  TypeOK'
<1> USE DEF TypeOK
<1>1. /\ UNCHANGED <<workerRows, brokerVars, collectorVars>>
      /\ NoFault \/ \E kind : Fault(kind)
  BY DEF Purge, Request, Delete, ReplayGet, MarkReplayed, ReplayCreate, ReplayFails
<1>2. BrokerTypeOK' /\ ResultCollectorTypeOK' /\ FaultsTypeOK'
  BY <1>1, BrokerTyped, CollectorTyped, FaultsStep
<1>3. ASSUME NEW l \in Letters, Delete(l)
      PROVE  RepositoryTypeOK' /\ DeadLettersTypeOK'
  BY <1>1, <1>3, RowsTyped
  DEF Delete, DeadLettersTypeOK, LetterStatus, dlqVars, replayVars
<1>4. ASSUME NEW r \in Requests, NEW l \in Letters, ReplayGet(r, l)
      PROVE  RepositoryTypeOK' /\ DeadLettersTypeOK'
  BY <1>1, <1>4, RowsTyped DEF ReplayGet, DeadLettersTypeOK, letterRows, dlqVars
<1>5. ASSUME NEW r \in Requests, NEW l \in Letters, MarkReplayed(r, l)
      PROVE  RepositoryTypeOK' /\ DeadLettersTypeOK'
  <2>1. letterStatus' \in [Letters -> LetterStatus] /\ replayedJob' \in [Letters -> SUBSET Jobs]
    BY <1>5 DEF MarkReplayed, Replayed, DeadLettersTypeOK, LetterStatus
  <2> QED BY <1>1, <1>5, <2>1, RowsTyped
          DEF MarkReplayed, ReplayDone, DeadLettersTypeOK, dlqVars
<1>6. ASSUME NEW r \in Requests, NEW j \in Jobs, ReplayCreate(r, j)
      PROVE  RepositoryTypeOK' /\ DeadLettersTypeOK'
  <2>1. RepositoryTypeOK'
    BY <1>1, <1>6, SetStatusTyped DEF ReplayCreate, Create, JobRowStatus, JobStatus
  <2> QED BY <1>6, <2>1 DEF ReplayCreate, DeadLettersTypeOK, letterRows, dlqVars
<1>7. ASSUME NEW r \in Requests, ReplayFails(r)
      PROVE  RepositoryTypeOK' /\ DeadLettersTypeOK'
  BY <1>1, <1>7, RowsTyped
  DEF ReplayFails, ReplayDone, DeadLettersTypeOK, letterRows, dlqVars
<1> QED BY <1>2, <1>3, <1>4, <1>5, <1>6, <1>7 DEF Purge, Request

LEMMA TypeInductive ==
  ASSUME TypeOK, [Next]_vars
  PROVE  TypeOK'
<1> USE DEF TypeOK
<1>1. CASE UNCHANGED vars
  BY <1>1, RowsTyped, BrokerTyped, CollectorTyped, LettersTyped, FaultsStep
  DEF vars, NoFault
<1>2. ASSUME NEW j \in Jobs, Submit(j)
      PROVE  TypeOK'
  <2>1. RepositoryTypeOK'
    BY <1>2, SetStatusTyped DEF Submit, Create, JobRowStatus, JobStatus
  <2> QED BY <1>2, <2>1, BrokerTyped, CollectorTyped, LettersTyped, FaultsStep DEF Submit
<1>3. ASSUME NEW w \in Workers, NEW ok \in BOOLEAN, RunAttempt(w, ok)
      PROVE  TypeOK'
  <2>1. BrokerTypeOK'
    BY <1>3, RunAttemptFacts DEF RunAttempt, BrokerTypeOK
  <2> QED BY <1>3, <2>1, RunAttemptFacts, CollectorTyped, LettersTyped, FaultsStep
          DEF RunAttempt
<1> QED
  BY <1>1, <1>2, <1>3, CollectTyped, PersistTyped, LostTyped, RequestTyped DEF Next

LEMMA TypeInit == Init => TypeOK
<1> SUFFICES ASSUME Init PROVE TypeOK
  OBVIOUS
<1>1. RepositoryTypeOK /\ BrokerTypeOK /\ ResultCollectorTypeOK
  BY DEF Init, RepositoryInit, BrokerInit, ResultCollectorInit, RepositoryTypeOK,
         BrokerTypeOK, ResultCollectorTypeOK, JobRowStatus, WorkerRowStatus, Stage
<1>2. DeadLettersTypeOK
  BY DEF Init, DeadLettersInit, DeadLettersTypeOK, LetterStatus
<1>3. FaultsTypeOK
  BY FaultsAssumption DEF Init, FaultsInit, FaultsTypeOK
<1> QED BY <1>1, <1>2, <1>3 DEF TypeOK

-----------------------------------------------------------------------------
(***************************************************************************)
(* The result consumer: what it condemns is published, once and once more  *)
(* for every end of a process.                                             *)
(***************************************************************************)

LEMMA OffsetsFinite ==
  ASSUME TypeOK, NEW m
  PROVE  IsFiniteSet(OffsetsOf(m)) /\ Cardinality(OffsetsOf(m)) \in Nat
<1>1. Len(dlqLog) \in Nat /\ OffsetsOf(m) \subseteq 1 .. Len(dlqLog)
  BY DEF TypeOK, DeadLettersTypeOK, OffsetsOf
<1>2. IsFiniteSet(1 .. Len(dlqLog))
  BY <1>1, FS_Interval
<1> QED BY <1>1, <1>2, FS_Subset, FS_CardinalityType

\* Steps of the others.
LEMMA OthersKeepResults ==
  ASSUME TypeOK, ResultsInv,
         UNCHANGED <<collectorVars, resultsTopic, dlqLog, dlqLost, jobAttempts>>,
         NoFault \/ \E kind : Fault(kind)
  PROVE  ResultsInv'
<1>1. faults \in Nat /\ faults' \in Nat /\ (faults' = faults \/ faults' = faults + 1)
  BY FaultsStep DEF TypeOK
<1>2. AttemptsInv' /\ HandlingInv' /\ CondemnedInv'
  BY DEF ResultsInv, AttemptsInv, HandlingInv, CondemnedInv, Condemnable, collectorVars
<1>3. \A m : OffsetsOf(m)' = OffsetsOf(m) /\ Settled(m)' = Settled(m)
  BY DEF OffsetsOf, Settled, collectorVars
<1>4. PublishedInv'
  BY <1>3 DEF ResultsInv, PublishedInv, Sent, collectorVars
<1>5. \A m : Cardinality(OffsetsOf(m)) \in Nat
  BY OffsetsFinite
<1>6. CopiesInv'
  BY <1>1, <1>3, <1>5 DEF ResultsInv, CopiesInv
<1> QED BY <1>2, <1>4, <1>6 DEF ResultsInv

LEMMA RunAttemptResults ==
  ASSUME TypeOK, ResultsInv, NEW w \in Workers, NEW ok \in BOOLEAN, RunAttempt(w, ok)
  PROVE  ResultsInv'
<1>1. PICK r \in ResultMessage :
        /\ r.attempts = jobAttempts[r.job] + 1
        /\ r.attempts = jobAttempts'[r.job]
        /\ resultsTopic' = resultsTopic \cup {r}
  BY RunAttemptFacts
<1>2. /\ jobAttempts \in [Jobs -> Nat] /\ jobAttempts' \in [Jobs -> Nat]
      /\ \A j \in Jobs : jobAttempts'[j] >= jobAttempts[j]
  BY RunAttemptFacts DEF TypeOK, RepositoryTypeOK
<1>3. /\ stage' = stage /\ handling' = handling /\ condemned' = condemned
      /\ dlqLog' = dlqLog /\ dlqLost' = dlqLost /\ faults' = faults
  BY DEF RunAttempt, collectorVars, deadLetterVars, dlqVars, NoFault
<1>4. /\ resultsTopic \subseteq ResultMessage /\ condemned \subseteq ResultMessage
      /\ \A o \in 1 .. Len(dlqLog) : dlqLog[o] \in ResultMessage
  BY DEF TypeOK, BrokerTypeOK, ResultCollectorTypeOK, DeadLettersTypeOK
<1>5. \A m \in ResultMessage : m.job \in Jobs /\ m.attempts \in Nat
  BY DEF ResultMessage
<1>6. AttemptsInv'
  <2>1. ASSUME NEW m \in ResultMessage, m.attempts <= jobAttempts[m.job]
        PROVE  m.attempts <= jobAttempts'[m.job]
    BY <1>2, <1>5, <2>1
  <2>2. r.attempts <= jobAttempts'[r.job]
    BY <1>1, <1>2, <1>5
  <2> QED BY <1>1, <1>3, <1>4, <2>1, <2>2 DEF ResultsInv, AttemptsInv
<1>7. HandlingInv'
  BY <1>1, <1>3 DEF ResultsInv, HandlingInv
<1>8. CondemnedInv'
  <2> SUFFICES ASSUME NEW m \in condemned PROVE Condemnable(m)'
    BY <1>3 DEF CondemnedInv
  <2>1. Condemnable(m) /\ m.job \in Jobs /\ MaxAttempts \in Nat
    BY <1>4, <1>5, ModelsAssumption DEF ResultsInv, CondemnedInv
  <2> QED BY <1>2, <2>1 DEF Condemnable
<1>9. \A m : OffsetsOf(m)' = OffsetsOf(m)
  BY <1>3 DEF OffsetsOf
<1>10. PublishedInv'
  BY <1>1, <1>3, <1>9 DEF ResultsInv, PublishedInv, Sent
<1>11. OffsetsOf(r) = {}
  <2>1. ASSUME NEW o \in 1 .. Len(dlqLog), dlqLog[o] = r PROVE FALSE
    <3>1. dlqLog[o].attempts <= jobAttempts[dlqLog[o].job]
      BY DEF ResultsInv, AttemptsInv
    <3>2. r.attempts <= jobAttempts[r.job] /\ jobAttempts[r.job] \in Nat
      BY <1>2, <1>5, <2>1, <3>1
    <3> QED BY <1>1, <3>2
  <2> QED BY <2>1 DEF OffsetsOf
<1>12. \A m : m # r => Settled(m)' = Settled(m)
  BY <1>1, <1>3 DEF Settled
<1>13. Cardinality(OffsetsOf(r)) = 0 /\ faults \in Nat
  BY <1>11, FS_EmptySet, FaultsAssumption DEF TypeOK, FaultsTypeOK
<1>14. CopiesInv'
  BY <1>3, <1>9, <1>12, <1>13 DEF ResultsInv, CopiesInv
<1> QED BY <1>6, <1>7, <1>8, <1>10, <1>14 DEF ResultsInv

\* A result is fetched and the row of its job is updated.
LEMMA HandleResults ==
  ASSUME TypeOK, ResultsInv, NEW c \in Collectors, NEW m \in resultsTopic,
         HandleSuccess(c, m) \/ HandleFailure(c, m), UNCHANGED deadLetterVars
  PROVE  ResultsInv'
<1>1. /\ stage[c] = "handle" /\ \A d \in Collectors : m \notin handling[d]
      /\ handling' = [handling EXCEPT ![c] = {m}]
      /\ UNCHANGED <<resultsTopic, dlqLog, dlqLost, jobAttempts, faults>>
  BY DEF HandleSuccess, HandleFailure, FetchResult, MarkCompleted, MarkFailed, setStatus,
         NoFault, brokerVars, deadLetterVars, dlqVars
<1>2. PICK next \in {"publish", "commit"} :
        /\ stage' = [stage EXCEPT ![c] = next]
        /\ \/ condemned' = condemned /\ (next = "commit" => ~Condemnable(m))
           \/ condemned' = condemned \cup {m} /\ next = "publish" /\ Condemnable(m)
  BY DEF HandleSuccess, HandleFailure, AfterFailure, FailedStatus, Condemnable
<1>3. /\ stage \in [Collectors -> Stage]
      /\ handling \in [Collectors -> SUBSET ResultMessage]
      /\ faults \in Nat
  BY FaultsAssumption DEF TypeOK, ResultCollectorTypeOK, FaultsTypeOK
<1>4. AttemptsInv'
  BY <1>1 DEF ResultsInv, AttemptsInv
<1>5. HandlingInv'
  BY <1>1, <1>2, <1>3 DEF ResultsInv, HandlingInv
<1>6. CondemnedInv'
  BY <1>1, <1>2 DEF ResultsInv, CondemnedInv, Condemnable
<1>7. \A n : OffsetsOf(n)' = OffsetsOf(n)
  BY <1>1 DEF OffsetsOf
<1>8. PublishedInv'
  BY <1>1, <1>2, <1>3, <1>7 DEF ResultsInv, PublishedInv, Sent, CondemnedInv
<1>9. \A n : Settled(n) => Settled(n)'
  BY <1>1, <1>2, <1>3 DEF Settled
<1>10. CopiesInv'
  BY <1>1, <1>7, <1>9 DEF ResultsInv, CopiesInv
<1> QED BY <1>4, <1>5, <1>6, <1>8, <1>10 DEF ResultsInv

LEMMA PublishResults ==
  ASSUME TypeOK, ResultsInv, NEW c \in Collectors, NEW m \in resultsTopic, Publish(c, m)
  PROVE  ResultsInv'
<1>1. /\ stage[c] = "publish" /\ m \in handling[c]
      /\ stage' = [stage EXCEPT ![c] = "commit"]
      /\ dlqLog' = Append(dlqLog, m)
      /\ UNCHANGED <<handling, condemned, resultsTopic, dlqLost, jobAttempts, faults>>
  BY DEF Publish, PublishDeadLetter, jobRows, NoFault
<1>2. /\ stage \in [Collectors -> Stage]
      /\ handling \in [Collectors -> SUBSET ResultMessage]
      /\ dlqLog \in Seq(ResultMessage) /\ Len(dlqLog) \in Nat /\ m \in ResultMessage
      /\ faults \in Nat
  BY FaultsAssumption
  DEF TypeOK, BrokerTypeOK, ResultCollectorTypeOK, DeadLettersTypeOK, FaultsTypeOK
<1>3. /\ Len(dlqLog') = Len(dlqLog) + 1
      /\ \A o \in 1 .. Len(dlqLog) : dlqLog'[o] = dlqLog[o]
      /\ dlqLog'[Len(dlqLog) + 1] = m
  BY <1>1, <1>2
<1>4. AttemptsInv'
  BY <1>1, <1>2, <1>3 DEF ResultsInv, AttemptsInv
<1>5. HandlingInv'
  BY <1>1, <1>2 DEF ResultsInv, HandlingInv
<1>6. CondemnedInv'
  BY <1>1 DEF ResultsInv, CondemnedInv, Condemnable
<1>7. /\ \A n : n # m => OffsetsOf(n)' = OffsetsOf(n)
      /\ OffsetsOf(m)' = OffsetsOf(m) \cup {Len(dlqLog) + 1}
      /\ Len(dlqLog) + 1 \notin OffsetsOf(m)
  BY <1>2, <1>3 DEF OffsetsOf
<1>8. \A n \in handling[c] : n = m
  BY <1>1 DEF ResultsInv, HandlingInv
<1>9. PublishedInv'
  <2>1. OffsetsOf(m)' # {}
    BY <1>7
  <2> QED BY <1>1, <1>2, <1>7, <1>8, <2>1 DEF ResultsInv, PublishedInv, Sent
<1>10. ~Settled(m)
  BY <1>1 DEF Settled, ResultsInv, HandlingInv
<1>11. Cardinality(OffsetsOf(m)') = Cardinality(OffsetsOf(m)) + 1
  BY <1>7, OffsetsFinite, FS_AddElement
<1>12. Cardinality(OffsetsOf(m)) <= faults /\ Cardinality(OffsetsOf(m)) \in Nat
  BY <1>2, <1>10, OffsetsFinite DEF ResultsInv, CopiesInv
<1>13. Settled(m)' /\ \A n : Settled(n) => Settled(n)'
  BY <1>1, <1>2, <1>8 DEF Settled
<1>14. CopiesInv'
  <2> SUFFICES ASSUME NEW n \in ResultMessage
               PROVE  /\ Cardinality(OffsetsOf(n)') <= faults + 1
                      /\ ~Settled(n)' => Cardinality(OffsetsOf(n)') <= faults
    BY <1>1 DEF CopiesInv
  <2>1. CASE n = m
    BY <1>2, <1>11, <1>12, <1>13, <2>1
  <2>2. CASE n # m
    BY <1>7, <1>13, <2>2 DEF ResultsInv, CopiesInv
  <2> QED BY <2>1, <2>2
<1> QED BY <1>4, <1>5, <1>6, <1>9, <1>14 DEF ResultsInv

LEMMA CommitResults ==
  ASSUME TypeOK, ResultsInv, NEW c \in Collectors, NEW m \in resultsTopic,
         CommitResult(c, m), UNCHANGED deadLetterVars
  PROVE  ResultsInv'
<1>1. /\ stage[c] = "commit" /\ m \in handling[c]
      /\ stage' = [stage EXCEPT ![c] = "handle"]
      /\ handling' = [handling EXCEPT ![c] = {}]
      /\ resultsTopic' = resultsTopic \ {m}
      /\ UNCHANGED <<condemned, dlqLog, dlqLost, jobAttempts, faults>>
  BY DEF CommitResult, CommitMessage, jobRows, deadLetterVars, dlqVars, NoFault
<1>2. /\ stage \in [Collectors -> Stage]
      /\ handling \in [Collectors -> SUBSET ResultMessage]
  BY DEF TypeOK, ResultCollectorTypeOK
<1>3. AttemptsInv' /\ CondemnedInv'
  BY <1>1 DEF ResultsInv, AttemptsInv, CondemnedInv, Condemnable
<1>4. /\ \A n \in handling[c] : n = m
      /\ \A d \in Collectors : m \in handling[d] => d = c
  BY <1>1 DEF ResultsInv, HandlingInv
<1>5. HandlingInv'
  BY <1>1, <1>2, <1>4 DEF ResultsInv, HandlingInv
<1>6. \A n : OffsetsOf(n)' = OffsetsOf(n)
  BY <1>1 DEF OffsetsOf
<1>7. PublishedInv'
  BY <1>1, <1>2, <1>6 DEF ResultsInv, PublishedInv, Sent
<1>8. \A n : Settled(n) => Settled(n)'
  BY <1>1, <1>2, <1>4 DEF Settled
<1>9. CopiesInv'
  BY <1>1, <1>6, <1>8 DEF ResultsInv, CopiesInv
<1> QED BY <1>3, <1>5, <1>7, <1>9 DEF ResultsInv

LEMMA StopResults ==
  ASSUME TypeOK, ResultsInv, NEW c \in Collectors, StopProcess(c)
  PROVE  ResultsInv'
<1>1. /\ stage' = [stage EXCEPT ![c] = "handle"]
      /\ handling' = [handling EXCEPT ![c] = {}]
      /\ faults' = faults + 1
      /\ UNCHANGED <<condemned, resultsTopic, dlqLog, dlqLost, jobAttempts>>
  BY DEF StopProcess, Fault, brokerVars, jobRows
<1>2. /\ stage \in [Collectors -> Stage]
      /\ handling \in [Collectors -> SUBSET ResultMessage]
      /\ faults \in Nat
  BY FaultsAssumption DEF TypeOK, ResultCollectorTypeOK, FaultsTypeOK
<1>3. AttemptsInv' /\ CondemnedInv'
  BY <1>1 DEF ResultsInv, AttemptsInv, CondemnedInv, Condemnable
<1>4. HandlingInv'
  BY <1>1, <1>2 DEF ResultsInv, HandlingInv
<1>5. \A n : OffsetsOf(n)' = OffsetsOf(n) /\ Cardinality(OffsetsOf(n)) \in Nat
  BY <1>1, OffsetsFinite DEF OffsetsOf
<1>6. PublishedInv'
  BY <1>1, <1>2, <1>5 DEF ResultsInv, PublishedInv, Sent
<1>7. CopiesInv'
  BY <1>1, <1>2, <1>5 DEF ResultsInv, CopiesInv
<1> QED BY <1>3, <1>4, <1>6, <1>7 DEF ResultsInv

LEMMA LostResults ==
  ASSUME TypeOK, ResultsInv, NEW c \in Collectors, PublishLost(c)
  PROVE  ResultsInv'
<1>1. PICK m \in resultsTopic :
        /\ m \in handling[c]
        /\ stage' = [stage EXCEPT ![c] = "commit"]
        /\ dlqLost' = dlqLost \cup {m}
        /\ faults' = faults + 1
        /\ UNCHANGED <<handling, condemned, resultsTopic, dlqLog, jobAttempts>>
  BY DEF PublishLost, PublishDeadLetterUnacked, Fault, brokerVars, jobRows
<1>2. /\ stage \in [Collectors -> Stage]
      /\ handling \in [Collectors -> SUBSET ResultMessage]
      /\ faults \in Nat
  BY FaultsAssumption DEF TypeOK, ResultCollectorTypeOK, FaultsTypeOK
<1>3. AttemptsInv' /\ CondemnedInv'
  BY <1>1 DEF ResultsInv, AttemptsInv, CondemnedInv, Condemnable
<1>4. HandlingInv'
  BY <1>1, <1>2 DEF ResultsInv, HandlingInv
<1>5. \A n : OffsetsOf(n)' = OffsetsOf(n) /\ Cardinality(OffsetsOf(n)) \in Nat
  BY <1>1, OffsetsFinite DEF OffsetsOf
<1>6. \A n \in handling[c] : n = m
  BY <1>1 DEF ResultsInv, HandlingInv
<1>7. PublishedInv'
  BY <1>1, <1>2, <1>5, <1>6 DEF ResultsInv, PublishedInv, Sent
<1>8. CopiesInv'
  BY <1>1, <1>2, <1>5 DEF ResultsInv, CopiesInv
<1> QED BY <1>3, <1>4, <1>7, <1>8 DEF ResultsInv

LEMMA ResultsInductive ==
  ASSUME TypeOK, ResultsInv, [Next]_vars
  PROVE  ResultsInv'
<1>1. CASE UNCHANGED vars
  BY <1>1, OthersKeepResults
  DEF vars, brokerVars, jobRows, deadLetterVars, dlqVars, NoFault
<1>2. ASSUME NEW j \in Jobs, Submit(j)
      PROVE  ResultsInv'
  BY <1>2, OthersKeepResults DEF Submit, Create, brokerVars, deadLetterVars, dlqVars
<1>3. ASSUME NEW c \in Collectors, Collect(c)
      PROVE  ResultsInv'
  BY <1>3, HandleResults, PublishResults, CommitResults DEF Collect
<1>4. ASSUME NEW c \in Collectors, Persist(c) \/ CommitFails(c)
      PROVE  ResultsInv'
  <2>1. /\ UNCHANGED <<collectorVars, resultsTopic, dlqLog, dlqLost, jobAttempts>>
        /\ NoFault \/ \E kind : Fault(kind)
    BY <1>4
    DEF Persist, CommitFails, FetchLetter, InsertLetter, CommitLetter, CommitLetterFails,
        brokerVars, jobRows
  <2> QED BY <2>1, OthersKeepResults
<1>5. CASE Purge \/ \E r \in Requests : Request(r)
  <2>1. /\ UNCHANGED <<collectorVars, resultsTopic, dlqLog, dlqLost, jobAttempts>>
        /\ NoFault \/ \E kind : Fault(kind)
    BY <1>5
    DEF Purge, Request, Delete, ReplayGet, MarkReplayed, ReplayCreate, ReplayFails, Create,
        brokerVars, jobRows, dlqVars
  <2> QED BY <2>1, OthersKeepResults
<1> QED
  BY <1>1, <1>2, <1>3, <1>4, <1>5, RunAttemptResults, StopResults, LostResults DEF Next

-----------------------------------------------------------------------------
(***************************************************************************)
(* The dead letter consumer: what is published is inserted before it is    *)
(* committed, once and once more for every fault.                          *)
(***************************************************************************)

LEMMA StoredFinite ==
  ASSUME TypeOK, NEW m
  PROVE  IsFiniteSet(StoredOf(m)) /\ Cardinality(StoredOf(m)) \in Nat
<1>1. StoredOf(m) \subseteq OffsetsOf(m)
  BY DEF StoredOf
<1> QED BY <1>1, OffsetsFinite, FS_Subset, FS_CardinalityType

\* Steps that leave rows and the consumer alone, except for a status.
LEMMA OthersKeepLetters ==
  ASSUME TypeOK, LettersInv,
         UNCHANGED <<letterOf, dlqLog, dlqCommitted, dlqHandling, dlqStored>>,
         \A l \in Letters : letterStatus'[l] = "ABSENT" => letterStatus[l] = "ABSENT",
         NoFault \/ \E kind : Fault(kind)
  PROVE  LettersInv'
<1>1. faults \in Nat /\ faults' \in Nat /\ (faults' = faults \/ faults' = faults + 1)
  BY FaultsStep DEF TypeOK
<1>2. DlqHandlingInv' /\ AbsentInv'
  BY DEF LettersInv, DlqHandlingInv, AbsentInv
<1>3. /\ dlqLog' = dlqLog /\ Stored' = Stored
      /\ \A m : RowsOf(m)' = RowsOf(m) /\ StoredOf(m)' = StoredOf(m)
  BY DEF RowsOf, StoredOf, Stored, OffsetsOf
<1>4. StoredInv'
  BY <1>3 DEF LettersInv, StoredInv
<1>5. ASSUME NEW m \in ResultMessage
      PROVE  /\ IsFiniteSet(RowsOf(m))
             /\ Cardinality(RowsOf(m)) <= Cardinality(StoredOf(m)) + faults'
  <2>1. /\ IsFiniteSet(RowsOf(m)) /\ Cardinality(RowsOf(m)) \in Nat
        /\ Cardinality(RowsOf(m)) <= Cardinality(StoredOf(m)) + faults
    BY FS_CardinalityType DEF LettersInv, RowsInv
  <2> QED BY <1>1, <2>1, StoredFinite
<1>6. RowsInv'
  BY <1>3, <1>5 DEF RowsInv
<1> QED BY <1>2, <1>4, <1>6 DEF LettersInv

\* A message more on the topic, which nobody has fetched.
LEMMA PublishLetters ==
  ASSUME TypeOK, LettersInv, NEW c \in Collectors, NEW m \in resultsTopic, Publish(c, m)
  PROVE  LettersInv'
<1>1. /\ dlqLog' = Append(dlqLog, m)
      /\ UNCHANGED <<letterStatus, letterOf, dlqCommitted, dlqHandling, dlqStored, faults>>
  BY DEF Publish, PublishDeadLetter, letterRows, NoFault
<1>2. /\ dlqLog \in Seq(ResultMessage) /\ Len(dlqLog) \in Nat /\ m \in ResultMessage
  BY DEF TypeOK, BrokerTypeOK, DeadLettersTypeOK
<1>3. Stored \subseteq 1 .. Len(dlqLog)
  BY DEF TypeOK, DeadLettersTypeOK, Stored
<1>4. /\ Len(dlqLog') = Len(dlqLog) + 1
      /\ \A o \in 1 .. Len(dlqLog) : dlqLog'[o] = dlqLog[o]
  BY <1>1, <1>2
<1>5. Stored' = Stored /\ \A n : RowsOf(n)' = RowsOf(n)
  BY <1>1 DEF Stored, RowsOf
<1>6. \A n : StoredOf(n)' = StoredOf(n)
  BY <1>2, <1>4, <1>5, <1>3 DEF StoredOf, OffsetsOf
<1>7. DlqHandlingInv' /\ AbsentInv'
  BY <1>1 DEF LettersInv, DlqHandlingInv, AbsentInv
<1>8. StoredInv'
  BY <1>2, <1>4, <1>5, <1>3 DEF LettersInv, StoredInv
<1>9. RowsInv'
  BY <1>1, <1>5, <1>6 DEF LettersInv, RowsInv
<1> QED BY <1>7, <1>8, <1>9 DEF LettersInv

LEMMA FetchLetters ==
  ASSUME TypeOK, LettersInv, NEW c \in Collectors, NEW o \in 1 .. Len(dlqLog),
         FetchLetter(c, o)
  PROVE  LettersInv'
<1>1. /\ dlqHandling[c] = {} /\ o \notin dlqCommitted
      /\ \A d \in Collectors : o \notin dlqHandling[d]
      /\ dlqHandling' = [dlqHandling EXCEPT ![c] = {o}]
      /\ dlqStored' = [dlqStored EXCEPT ![c] = FALSE]
      /\ UNCHANGED <<letterStatus, letterOf, dlqLog, dlqCommitted, faults>>
  BY DEF FetchLetter, StoredAtFetch, letterRows, NoFault
<1>2. /\ dlqHandling \in [Collectors -> SUBSET (1 .. Len(dlqLog))]
      /\ dlqStored \in [Collectors -> BOOLEAN]
  BY DEF TypeOK, DeadLettersTypeOK
<1>3. DlqHandlingInv' /\ AbsentInv'
  BY <1>1, <1>2 DEF LettersInv, DlqHandlingInv, AbsentInv
<1>4. Stored' = Stored
  BY <1>1, <1>2 DEF Stored
<1>5. \A n : RowsOf(n)' = RowsOf(n) /\ StoredOf(n)' = StoredOf(n)
  BY <1>1, <1>4 DEF RowsOf, StoredOf, OffsetsOf
<1>6. StoredInv' /\ RowsInv'
  BY <1>1, <1>4, <1>5 DEF LettersInv, StoredInv, RowsInv
<1> QED BY <1>3, <1>6 DEF LettersInv

LEMMA InsertLetters ==
  ASSUME TypeOK, LettersInv, NEW c \in Collectors, NEW o \in 1 .. Len(dlqLog),
         NEW l \in Letters, InsertLetter(c, o, l)
  PROVE  LettersInv'
<1>1. /\ o \in dlqHandling[c] /\ ~dlqStored[c] /\ letterStatus[l] = "ABSENT"
      /\ letterStatus' = [letterStatus EXCEPT ![l] = "OPEN"]
      /\ letterOf' = [letterOf EXCEPT ![l] = {dlqLog[o]}]
      /\ dlqStored' = [dlqStored EXCEPT ![c] = TRUE]
      /\ UNCHANGED <<dlqLog, dlqCommitted, dlqHandling, faults>>
  BY DEF InsertLetter, NewLetterStatus, NoFault
<1>2. /\ dlqHandling \in [Collectors -> SUBSET (1 .. Len(dlqLog))]
      /\ dlqStored \in [Collectors -> BOOLEAN]
      /\ letterOf \in [Letters -> SUBSET ResultMessage]
      /\ letterStatus \in [Letters -> LetterStatus]
      /\ dlqLog[o] \in ResultMessage /\ faults \in Nat
  BY FaultsAssumption DEF TypeOK, DeadLettersTypeOK, FaultsTypeOK
<1>3. DlqHandlingInv' /\ AbsentInv'
  BY <1>1, <1>2 DEF LettersInv, DlqHandlingInv, AbsentInv
<1>4. letterOf[l] = {} /\ \A p \in dlqHandling[c] : p = o
  BY <1>1 DEF LettersInv, AbsentInv, DlqHandlingInv
<1>5. Stored' = Stored \cup {o} /\ o \notin Stored
  <2>1. Stored' = Stored \cup dlqHandling[c]
    BY <1>1, <1>2 DEF Stored
  <2>2. dlqHandling[c] = {o}
    BY <1>1, <1>4
  <2>3. o \notin Stored
    BY <1>1 DEF LettersInv, DlqHandlingInv, Stored
  <2> QED BY <2>1, <2>2, <2>3
<1> PICK m \in ResultMessage : m = dlqLog[o]
  BY <1>2
<1>6. /\ RowsOf(m)' = RowsOf(m) \cup {l} /\ l \notin RowsOf(m)
      /\ \A n : n # m => RowsOf(n)' = RowsOf(n)
  BY <1>1, <1>2, <1>4 DEF RowsOf
<1>7. /\ StoredOf(m)' = StoredOf(m) \cup {o} /\ o \notin StoredOf(m)
      /\ \A n : n # m => StoredOf(n)' = StoredOf(n)
  BY <1>1, <1>5 DEF StoredOf, OffsetsOf
<1>8. StoredInv'
  BY <1>1, <1>5, <1>6 DEF LettersInv, StoredInv
<1>9. /\ IsFiniteSet(RowsOf(m)) /\ Cardinality(RowsOf(m)) \in Nat
      /\ Cardinality(RowsOf(m)) <= Cardinality(StoredOf(m)) + faults
  BY <1>2, FS_CardinalityType DEF LettersInv, RowsInv
<1>10. /\ IsFiniteSet(RowsOf(m)')
       /\ Cardinality(RowsOf(m)') = Cardinality(RowsOf(m)) + 1
       /\ Cardinality(StoredOf(m)') = Cardinality(StoredOf(m)) + 1
  <2>1. /\ IsFiniteSet(RowsOf(m) \cup {l})
        /\ Cardinality(RowsOf(m) \cup {l}) = Cardinality(RowsOf(m)) + 1
    BY <1>6, <1>9, FS_AddElement
  <2>2. Cardinality(StoredOf(m) \cup {o}) = Cardinality(StoredOf(m)) + 1
    BY <1>7, StoredFinite, FS_AddElement
  <2> QED BY <1>6, <1>7, <2>1, <2>2
<1>11. Cardinality(RowsOf(m)') <= Cardinality(StoredOf(m)') + faults
  BY <1>2, <1>9, <1>10, StoredFinite
<1>12. RowsInv'
  <2> SUFFICES ASSUME NEW n \in ResultMessage
               PROVE  /\ IsFiniteSet(RowsOf(n)')
                      /\ Cardinality(RowsOf(n)') <= Cardinality(StoredOf(n)') + faults
    BY <1>1 DEF RowsInv
  <2>1. CASE n = m
    BY <1>10, <1>11, <2>1
  <2>2. CASE n # m
    BY <1>6, <1>7, <2>2 DEF LettersInv, RowsInv
  <2> QED BY <2>1, <2>2
<1> QED BY <1>3, <1>8, <1>12 DEF LettersInv

LEMMA CommitLetters ==
  ASSUME TypeOK, LettersInv, NEW c \in Collectors, NEW o \in 1 .. Len(dlqLog),
         CommitLetter(c, o)
  PROVE  LettersInv'
<1>1. /\ o \in dlqHandling[c] /\ dlqStored[c]
      /\ dlqCommitted' = dlqCommitted \cup {o}
      /\ dlqHandling' = [dlqHandling EXCEPT ![c] = {}]
      /\ dlqStored' = [dlqStored EXCEPT ![c] = FALSE]
      /\ UNCHANGED <<letterStatus, letterOf, dlqLog, faults>>
  BY DEF CommitLetter, AfterCommit, DoneWithLetter, letterRows, NoFault
<1>2. /\ dlqHandling \in [Collectors -> SUBSET (1 .. Len(dlqLog))]
      /\ dlqStored \in [Collectors -> BOOLEAN]
  BY DEF TypeOK, DeadLettersTypeOK
<1>3. dlqHandling[c] = {o}
  BY <1>1 DEF LettersInv, DlqHandlingInv
<1>4. DlqHandlingInv' /\ AbsentInv'
  BY <1>1, <1>2 DEF LettersInv, DlqHandlingInv, AbsentInv
<1>5. Stored' = Stored
  BY <1>1, <1>2, <1>3 DEF Stored
<1>6. \A n : RowsOf(n)' = RowsOf(n) /\ StoredOf(n)' = StoredOf(n)
  BY <1>1, <1>5 DEF RowsOf, StoredOf, OffsetsOf
<1>7. StoredInv' /\ RowsInv'
  BY <1>1, <1>5, <1>6 DEF LettersInv, StoredInv, RowsInv
<1> QED BY <1>4, <1>7 DEF LettersInv

\* One message at most is inserted again.
LEMMA StopLetters ==
  ASSUME TypeOK, LettersInv, NEW c \in Collectors, CommitFails(c) \/ StopProcess(c)
  PROVE  LettersInv'
<1>1. /\ dlqHandling' = [dlqHandling EXCEPT ![c] = {}]
      /\ dlqStored' = [dlqStored EXCEPT ![c] = FALSE]
      /\ faults' = faults + 1
      /\ UNCHANGED <<letterStatus, letterOf, dlqLog, dlqCommitted>>
  BY DEF CommitFails, StopProcess, CommitLetterFails, DoneWithLetter, letterRows, Fault
<1>2. /\ dlqHandling \in [Collectors -> SUBSET (1 .. Len(dlqLog))]
      /\ dlqStored \in [Collectors -> BOOLEAN]
      /\ faults \in Nat
  BY FaultsAssumption DEF TypeOK, DeadLettersTypeOK, FaultsTypeOK
<1>3. DlqHandlingInv' /\ AbsentInv'
  BY <1>1, <1>2 DEF LettersInv, DlqHandlingInv, AbsentInv
<1>4. Stored' \subseteq Stored /\ Stored \subseteq Stored' \cup dlqHandling[c]
  BY <1>1, <1>2 DEF Stored
<1>5. PICK o : dlqHandling[c] \subseteq {o}
  BY DEF LettersInv, DlqHandlingInv
<1>6. \A n : RowsOf(n)' = RowsOf(n)
  BY <1>1 DEF RowsOf
<1>7. StoredInv'
  BY <1>1, <1>4, <1>6 DEF LettersInv, StoredInv
<1>8. ASSUME NEW n \in ResultMessage
      PROVE  /\ IsFiniteSet(RowsOf(n))
             /\ Cardinality(RowsOf(n)) <= Cardinality(StoredOf(n)') + faults'
  <2>1. StoredOf(n)' \subseteq StoredOf(n) /\ StoredOf(n) \subseteq StoredOf(n)' \cup {o}
    BY <1>1, <1>4, <1>5 DEF StoredOf, OffsetsOf
  <2>2. /\ IsFiniteSet(StoredOf(n)) /\ IsFiniteSet(StoredOf(n)')
        /\ Cardinality(StoredOf(n)) \in Nat /\ Cardinality(StoredOf(n)') \in Nat
    BY <2>1, StoredFinite, FS_Subset, FS_CardinalityType
  <2>3. /\ IsFiniteSet(StoredOf(n)' \cup {o})
        /\ \/ Cardinality(StoredOf(n)' \cup {o}) = Cardinality(StoredOf(n)')
           \/ Cardinality(StoredOf(n)' \cup {o}) = Cardinality(StoredOf(n)') + 1
    BY <2>2, FS_AddElement
  <2>4. Cardinality(StoredOf(n)) <= Cardinality(StoredOf(n)' \cup {o})
    BY <2>1, <2>3, FS_Subset
  <2>5. /\ IsFiniteSet(RowsOf(n)) /\ Cardinality(RowsOf(n)) \in Nat
        /\ Cardinality(RowsOf(n)) <= Cardinality(StoredOf(n)) + faults
    BY FS_CardinalityType DEF LettersInv, RowsInv
  <2> QED BY <1>1, <1>2, <2>2, <2>3, <2>4, <2>5
<1>9. RowsInv'
  BY <1>6, <1>8 DEF RowsInv
<1> QED BY <1>3, <1>7, <1>9 DEF LettersInv

LEMMA LettersInductive ==
  ASSUME TypeOK, LettersInv, [Next]_vars
  PROVE  LettersInv'
<1>1. letterStatus \in [Letters -> LetterStatus]
  BY DEF TypeOK, DeadLettersTypeOK
<1>2. CASE /\ UNCHANGED <<letterStatus, letterOf, dlqLog, dlqCommitted, dlqHandling, dlqStored>>
           /\ NoFault \/ \E kind : Fault(kind)
  BY <1>2, OthersKeepLetters
<1>3. ASSUME \/ \E j \in Jobs : Submit(j)
             \/ \E w \in Workers, ok \in BOOLEAN : RunAttempt(w, ok)
             \/ UNCHANGED vars
      PROVE  LettersInv'
  BY <1>2, <1>3 DEF Submit, RunAttempt, vars, deadLetterVars, letterRows, dlqVars, NoFault
<1>4. ASSUME NEW c \in Collectors, Collect(c)
      PROVE  LettersInv'
  <2>1. PICK m \in resultsTopic :
          \/ /\ HandleSuccess(c, m) \/ HandleFailure(c, m) \/ CommitResult(c, m)
             /\ UNCHANGED deadLetterVars
          \/ Publish(c, m)
    BY <1>4 DEF Collect
  <2>2. CASE ~Publish(c, m)
    BY <1>2, <2>1, <2>2
    DEF HandleSuccess, HandleFailure, CommitResult, deadLetterVars, letterRows, dlqVars
  <2> QED BY <2>1, <2>2, PublishLetters
<1>5. ASSUME NEW c \in Collectors, Persist(c)
      PROVE  LettersInv'
  BY <1>5, FetchLetters, InsertLetters, CommitLetters DEF Persist
<1>6. ASSUME NEW r \in Requests, Request(r)
      PROVE  LettersInv'
  <2>1. /\ UNCHANGED <<letterOf, dlqVars>> /\ (NoFault \/ \E kind : Fault(kind))
        /\ \/ UNCHANGED letterStatus
           \/ \E l \in Letters : letterStatus' = [letterStatus EXCEPT ![l] = "REPLAYED"]
    BY <1>6
    DEF Request, ReplayGet, MarkReplayed, ReplayCreate, ReplayFails, letterRows
  <2> QED BY <1>1, <2>1, OthersKeepLetters DEF dlqVars
<1>7. CASE Purge
  <2>1. /\ UNCHANGED <<letterOf, dlqVars>> /\ NoFault
        /\ \E l \in Letters : letterStatus' = [letterStatus EXCEPT ![l] = "PURGED"]
    BY <1>7 DEF Purge, Delete
  <2> QED BY <1>1, <2>1, OthersKeepLetters DEF dlqVars
<1>8. ASSUME NEW c \in Collectors, PublishLost(c)
      PROVE  LettersInv'
  BY <1>2, <1>8 DEF PublishLost, PublishDeadLetterUnacked, letterRows
<1> QED BY <1>3, <1>4, <1>5, <1>6, <1>7, <1>8, StopLetters DEF Next

-----------------------------------------------------------------------------
(***************************************************************************)
(* Replays: how many jobs are made from a letter, and which one it names.  *)
(***************************************************************************)

LEMMA ReplaysFinite ==
  ASSUME NEW l
  PROVE  /\ IsFiniteSet(ReplaysOf(l)) /\ Cardinality(ReplaysOf(l)) \in Nat
         /\ \A place : /\ IsFiniteSet(RequestsAt(place, l))
                       /\ Cardinality(RequestsAt(place, l)) \in Nat
         /\ Cardinality(Requests) \in Nat
         /\ Cardinality(RequestsAt("mark", l)) + Cardinality(RequestsAt("create", l))
              <= Cardinality(Requests)
<1>1. IsFiniteSet(ReplaysOf(l)) /\ Cardinality(ReplaysOf(l)) \in Nat
  BY ModelsAssumption, FS_Subset, FS_CardinalityType DEF ReplaysOf
<1>2. IsFiniteSet(Requests) /\ Cardinality(Requests) \in Nat
  BY DeadLettersAssumption, FS_CardinalityType
<1>3. ASSUME NEW place
      PROVE  /\ IsFiniteSet(RequestsAt(place, l))
             /\ Cardinality(RequestsAt(place, l)) \in Nat
  <2>1. RequestsAt(place, l) \subseteq Requests
    BY DEF RequestsAt
  <2> QED BY <1>2, <2>1, FS_Subset, FS_CardinalityType
<1> DEFINE A == RequestsAt("mark", l)
           B == RequestsAt("create", l)
<1>4. A \cup B \subseteq Requests /\ A \cap B = {}
  BY DEF RequestsAt
<1>5. IsFiniteSet(A) /\ IsFiniteSet(B) /\ Cardinality(A) \in Nat /\ Cardinality(B) \in Nat
  BY <1>3
<1> HIDE DEF A, B
<1>6. Cardinality(A \cup B) = Cardinality(A) + Cardinality(B) - Cardinality(A \cap B)
  BY <1>5, FS_Union
<1>7. Cardinality(A \cap B) = 0 /\ Cardinality(A \cup B) <= Cardinality(Requests)
  BY <1>2, <1>4, FS_EmptySet, FS_Subset
<1>8. Cardinality(A) + Cardinality(B) <= Cardinality(Requests)
  BY <1>5, <1>6, <1>7
<1> QED BY <1>1, <1>2, <1>3, <1>8 DEF A, B

\* Steps of the consumers and of others that change jobs.
LEMMA OthersKeepReplays ==
  ASSUME TypeOK, ReplayInv, UNCHANGED <<replayedJob, replayVars>>,
         \A l \in Letters : \/ letterStatus'[l] = letterStatus[l]
                            \/ letterStatus[l] = "ABSENT" /\ letterStatus'[l] = "OPEN",
         \A j \in Jobs : jobStatus'[j] = "ABSENT" => jobStatus[j] = "ABSENT",
         NoFault \/ \E kind : Fault(kind)
  PROVE  ReplayInv'
<1>1. faults \in Nat /\ faults' \in Nat /\ (faults' = faults \/ faults' = faults + 1)
  BY FaultsStep DEF TypeOK
<1>2. /\ replayLetter \in [Requests -> SUBSET Letters]
      /\ replayNew \in [Requests -> SUBSET Jobs]
      /\ replayedJob \in [Letters -> SUBSET Jobs]
  BY DEF TypeOK, DeadLettersTypeOK
<1>3. RequestInv'
  BY <1>2 DEF ReplayInv, RequestInv, replayVars
<1>4. NewJobsInv' /\ ReplayedNamesReplay'
  BY <1>2 DEF ReplayInv, NewJobsInv, ReplayedNamesReplay, replayVars
<1>5. \A l : ReplaysOf(l)' = ReplaysOf(l)
             /\ \A place : RequestsAt(place, l)' = RequestsAt(place, l)
  BY DEF ReplaysOf, RequestsAt, replayVars
<1>6. ASSUME NEW l \in Letters
      PROVE  /\ letterStatus'[l] \in {"ABSENT", "OPEN"} =>
                  Cardinality(ReplaysOf(l)) <= faults' + Cardinality(RequestsAt("mark", l))
             /\ letterStatus'[l] \notin {"ABSENT", "OPEN"} =>
                  Cardinality(ReplaysOf(l)) + Cardinality(RequestsAt("create", l))
                    <= Cardinality(Requests) + faults'
  <2>1. (letterStatus'[l] \in {"ABSENT", "OPEN"}) = (letterStatus[l] \in {"ABSENT", "OPEN"})
    OBVIOUS
  <2> QED BY <1>1, <2>1, ReplaysFinite DEF ReplayInv, CountInv
<1>7. CountInv'
  BY <1>5, <1>6 DEF CountInv
<1> QED BY <1>3, <1>4, <1>7 DEF ReplayInv

LEMMA GetReplays ==
  ASSUME TypeOK, ReplayInv, NEW r \in Requests, NEW l \in Letters, ReplayGet(r, l)
  PROVE  ReplayInv'
<1>1. /\ replay[r] = "get" /\ letterStatus[l] = "OPEN"
      /\ replay' = [replay EXCEPT ![r] = "create"]
      /\ replayLetter' = [replayLetter EXCEPT ![r] = {l}]
      /\ UNCHANGED <<letterStatus, replayedJob, replayNew, replayOf, jobStatus, faults>>
  BY DEF ReplayGet, Replayable, letterRows, jobRows, NoFault
<1>2. /\ replay \in [Requests -> {"get", "create", "mark"}]
      /\ replayLetter \in [Requests -> SUBSET Letters]
  BY DEF TypeOK, DeadLettersTypeOK
<1>3. RequestInv' /\ NewJobsInv' /\ ReplayedNamesReplay'
  BY <1>1, <1>2 DEF ReplayInv, RequestInv, NewJobsInv, ReplayedNamesReplay
<1>4. /\ \A k : ReplaysOf(k)' = ReplaysOf(k) /\ RequestsAt("mark", k)' = RequestsAt("mark", k)
      /\ \A k : k # l => RequestsAt("create", k)' = RequestsAt("create", k)
  BY <1>1, <1>2 DEF ReplaysOf, RequestsAt, ReplayInv, RequestInv
<1>5. CountInv'
  BY <1>1, <1>4 DEF ReplayInv, CountInv
<1> QED BY <1>3, <1>5 DEF ReplayInv

LEMMA CreateReplays ==
  ASSUME TypeOK, ReplayInv, NEW r \in Requests, NEW j \in Jobs, ReplayCreate(r, j)
  PROVE  ReplayInv'
<1>1. /\ replay[r] = "create" /\ jobStatus[j] = "ABSENT"
      /\ jobStatus' = [jobStatus EXCEPT ![j] = "QUEUED"]
      /\ replayOf' = [replayOf EXCEPT ![j] = replayLetter[r]]
      /\ replayNew' = [replayNew EXCEPT ![r] = {j}]
      /\ replay' = [replay EXCEPT ![r] = "mark"]
      /\ UNCHANGED <<letterStatus, replayedJob, replayLetter, faults>>
  BY DEF ReplayCreate, Create, letterRows, NoFault
<1>2. /\ replay \in [Requests -> {"get", "create", "mark"}]
      /\ replayLetter \in [Requests -> SUBSET Letters]
      /\ replayNew \in [Requests -> SUBSET Jobs]
      /\ replayOf \in [Jobs -> SUBSET Letters]
      /\ replayedJob \in [Letters -> SUBSET Jobs]
      /\ jobStatus \in [Jobs -> JobRowStatus]
      /\ faults \in Nat
  BY FaultsAssumption
  DEF TypeOK, DeadLettersTypeOK, RepositoryTypeOK, FaultsTypeOK
<1>3. replayOf[j] = {}
  BY <1>1 DEF ReplayInv, NewJobsInv
<1>4. \A k \in Jobs : jobStatus[k] # "ABSENT" =>
        jobStatus'[k] # "ABSENT" /\ replayOf'[k] = replayOf[k]
  BY <1>1, <1>2
<1>5. RequestInv'
  <2> SUFFICES ASSUME NEW q \in Requests
               PROVE  /\ replay'[q] = "get" => replayLetter[q] = {}
                      /\ \A l, k \in replayLetter[q] : l = k
                      /\ \A l \in replayLetter[q] : letterStatus[l] # "ABSENT"
                      /\ replay'[q] = "mark" =>
                           \E k \in replayNew'[q] :
                             jobStatus'[k] # "ABSENT" /\ replayLetter[q] \subseteq replayOf'[k]
    BY <1>1 DEF RequestInv
  <2>1. CASE q = r
    BY <1>1, <1>2, <2>1 DEF ReplayInv, RequestInv
  <2>2. CASE q # r
    BY <1>1, <1>2, <1>4, <2>2 DEF ReplayInv, RequestInv
  <2> QED BY <2>1, <2>2
<1>6. NewJobsInv' /\ ReplayedNamesReplay'
  BY <1>1, <1>2, <1>4 DEF ReplayInv, NewJobsInv, ReplayedNamesReplay
<1>7. CountInv'
  <2> SUFFICES ASSUME NEW l \in Letters
               PROVE  /\ letterStatus[l] \in {"ABSENT", "OPEN"} =>
                           Cardinality(ReplaysOf(l)')
                             <= faults + Cardinality(RequestsAt("mark", l)')
                      /\ letterStatus[l] \notin {"ABSENT", "OPEN"} =>
                           Cardinality(ReplaysOf(l)') + Cardinality(RequestsAt("create", l)')
                             <= Cardinality(Requests) + faults
    BY <1>1 DEF CountInv
  <2>1. CASE l \notin replayLetter[r]
    <3>1. /\ ReplaysOf(l)' = ReplaysOf(l)
          /\ RequestsAt("mark", l)' = RequestsAt("mark", l)
          /\ RequestsAt("create", l)' = RequestsAt("create", l)
      BY <1>1, <1>2, <1>3, <2>1 DEF ReplaysOf, RequestsAt
    <3> QED BY <3>1 DEF ReplayInv, CountInv
  <2>2. CASE l \in replayLetter[r]
    <3>1. /\ ReplaysOf(l)' = ReplaysOf(l) \cup {j} /\ j \notin ReplaysOf(l)
          /\ RequestsAt("mark", l)' = RequestsAt("mark", l) \cup {r}
          /\ r \notin RequestsAt("mark", l)
          /\ RequestsAt("create", l)' = RequestsAt("create", l) \ {r}
          /\ r \in RequestsAt("create", l)
      BY <1>1, <1>2, <1>3, <2>2 DEF ReplaysOf, RequestsAt
    <3>2. Cardinality(ReplaysOf(l) \cup {j}) = Cardinality(ReplaysOf(l)) + 1
      BY <3>1, ReplaysFinite, FS_AddElement
    <3>3. Cardinality(RequestsAt("mark", l) \cup {r}) = Cardinality(RequestsAt("mark", l)) + 1
      BY <3>1, ReplaysFinite, FS_AddElement
    <3>4. Cardinality(RequestsAt("create", l) \ {r})
            = Cardinality(RequestsAt("create", l)) - 1
      BY <3>1, ReplaysFinite, FS_RemoveElement
    <3>5. /\ Cardinality(ReplaysOf(l)) \in Nat /\ Cardinality(Requests) \in Nat
          /\ Cardinality(RequestsAt("mark", l)) \in Nat
          /\ Cardinality(RequestsAt("create", l)) \in Nat
      BY ReplaysFinite
    <3>6. /\ letterStatus[l] \in {"ABSENT", "OPEN"} =>
               Cardinality(ReplaysOf(l)) + 1
                 <= faults + (Cardinality(RequestsAt("mark", l)) + 1)
          /\ letterStatus[l] \notin {"ABSENT", "OPEN"} =>
               Cardinality(ReplaysOf(l)) + 1 + (Cardinality(RequestsAt("create", l)) - 1)
                 <= Cardinality(Requests) + faults
      BY <1>2, <3>5 DEF ReplayInv, CountInv
    <3> QED BY <3>1, <3>2, <3>3, <3>4, <3>6
  <2> QED BY <2>1, <2>2
<1> QED BY <1>5, <1>6, <1>7 DEF ReplayInv

\* What the end of a request does to the others.
LEMMA DoneRequests ==
  ASSUME TypeOK, ReplayInv, NEW r \in Requests, ReplayDone(r),
         UNCHANGED <<replayOf, jobStatus>>,
         \A l \in Letters : letterStatus'[l] = "ABSENT" => letterStatus[l] = "ABSENT"
  PROVE  /\ RequestInv' /\ NewJobsInv'
         /\ \A l : /\ ReplaysOf(l)' = ReplaysOf(l)
                   /\ \A place \in {"create", "mark"} :
                        RequestsAt(place, l)' = RequestsAt(place, l) \ {r}
<1>1. /\ replay' = [replay EXCEPT ![r] = "get"]
      /\ replayLetter' = [replayLetter EXCEPT ![r] = {}]
      /\ replayNew' = [replayNew EXCEPT ![r] = {}]
  BY DEF ReplayDone
<1>2. /\ replay \in [Requests -> {"get", "create", "mark"}]
      /\ replayLetter \in [Requests -> SUBSET Letters]
      /\ replayNew \in [Requests -> SUBSET Jobs]
  BY DEF TypeOK, DeadLettersTypeOK
<1>3. RequestInv' /\ NewJobsInv'
  BY <1>1, <1>2 DEF ReplayInv, RequestInv, NewJobsInv
<1>4. \A l : /\ ReplaysOf(l)' = ReplaysOf(l)
             /\ \A place \in {"create", "mark"} :
                  RequestsAt(place, l)' = RequestsAt(place, l) \ {r}
  BY <1>1, <1>2 DEF ReplaysOf, RequestsAt
<1> QED BY <1>3, <1>4

LEMMA MarkReplays ==
  ASSUME TypeOK, ReplayInv, NEW r \in Requests, NEW l \in Letters, MarkReplayed(r, l)
  PROVE  ReplayInv'
<1>1. /\ replay[r] = "mark" /\ l \in replayLetter[r] /\ ReplayDone(r)
      /\ \/ letterStatus[l] = "PURGED" /\ UNCHANGED <<letterStatus, replayedJob>>
         \/ /\ letterStatus[l] # "PURGED"
            /\ letterStatus' = [letterStatus EXCEPT ![l] = "REPLAYED"]
            /\ replayedJob' = [replayedJob EXCEPT ![l] = replayNew[r]]
      /\ UNCHANGED <<replayOf, jobStatus, faults>>
  BY DEF MarkReplayed, Replayed, jobRows, NoFault
<1>2. /\ letterStatus \in [Letters -> LetterStatus]
      /\ replayedJob \in [Letters -> SUBSET Jobs]
      /\ faults \in Nat
  BY FaultsAssumption DEF TypeOK, DeadLettersTypeOK, FaultsTypeOK
<1>3. letterStatus[l] # "ABSENT" /\ \A k \in replayLetter[r] : k = l
  BY <1>1 DEF ReplayInv, RequestInv
<1>4. \A k \in Letters : k # l => letterStatus'[k] = letterStatus[k]
  BY <1>1, <1>2
<1>5. letterStatus'[l] \notin {"ABSENT", "OPEN"}
  BY <1>1, <1>2
<1>6. /\ RequestInv' /\ NewJobsInv'
      /\ \A k : /\ ReplaysOf(k)' = ReplaysOf(k)
                /\ \A place \in {"create", "mark"} :
                     RequestsAt(place, k)' = RequestsAt(place, k) \ {r}
  BY <1>1, <1>4, <1>5, DoneRequests
<1>7. ReplayedNamesReplay'
  <2>1. PICK j \in replayNew[r] : jobStatus[j] # "ABSENT" /\ l \in replayOf[j]
    BY <1>1 DEF ReplayInv, RequestInv
  <2> QED BY <1>1, <1>2, <2>1 DEF ReplayInv, ReplayedNamesReplay
<1>8. CountInv'
  <2> SUFFICES ASSUME NEW k \in Letters
               PROVE  /\ letterStatus'[k] \in {"ABSENT", "OPEN"} =>
                           Cardinality(ReplaysOf(k))
                             <= faults + Cardinality(RequestsAt("mark", k)')
                      /\ letterStatus'[k] \notin {"ABSENT", "OPEN"} =>
                           Cardinality(ReplaysOf(k)) + Cardinality(RequestsAt("create", k)')
                             <= Cardinality(Requests) + faults
    BY <1>1, <1>6 DEF CountInv
  <2>1. RequestsAt("create", k)' = RequestsAt("create", k)
    <3>1. r \notin RequestsAt("create", k)
      BY <1>1 DEF RequestsAt
    <3> QED BY <1>6, <3>1
  <2>2. CASE k = l
    BY <1>2, <1>5, <2>1, <2>2, ReplaysFinite DEF ReplayInv, CountInv
  <2>3. CASE k # l
    <3>1. r \notin RequestsAt("mark", k)
      BY <1>3, <2>3 DEF RequestsAt
    <3>2. RequestsAt("mark", k)' = RequestsAt("mark", k)
      BY <1>6, <3>1
    <3> QED BY <1>4, <2>1, <2>3, <3>2 DEF ReplayInv, CountInv
  <2> QED BY <2>2, <2>3
<1> QED BY <1>6, <1>7, <1>8 DEF ReplayInv

LEMMA FailReplays ==
  ASSUME TypeOK, ReplayInv, NEW r \in Requests, ReplayFails(r)
  PROVE  ReplayInv'
<1>1. /\ ReplayDone(r) /\ faults' = faults + 1
      /\ UNCHANGED <<letterStatus, replayedJob, replayOf, jobStatus>>
  BY DEF ReplayFails, Fault, letterRows, jobRows
<1>2. faults \in Nat
  BY FaultsAssumption DEF TypeOK, FaultsTypeOK
<1>3. /\ RequestInv' /\ NewJobsInv'
      /\ \A k : /\ ReplaysOf(k)' = ReplaysOf(k)
                /\ \A place \in {"create", "mark"} :
                     RequestsAt(place, k)' = RequestsAt(place, k) \ {r}
  BY <1>1, DoneRequests
<1>4. ReplayedNamesReplay'
  BY <1>1 DEF ReplayInv, ReplayedNamesReplay
<1>5. ASSUME NEW k, NEW place \in {"create", "mark"}
      PROVE  /\ Cardinality(RequestsAt(place, k) \ {r}) \in Nat
             /\ Cardinality(RequestsAt(place, k) \ {r}) <= Cardinality(RequestsAt(place, k))
             /\ Cardinality(RequestsAt(place, k)) <= Cardinality(RequestsAt(place, k) \ {r}) + 1
  <2>1. IsFiniteSet(RequestsAt(place, k)) /\ Cardinality(RequestsAt(place, k)) \in Nat
    BY ReplaysFinite
  <2>2. Cardinality(RequestsAt(place, k) \ {r})
          = IF r \in RequestsAt(place, k) THEN Cardinality(RequestsAt(place, k)) - 1
                                          ELSE Cardinality(RequestsAt(place, k))
    BY <2>1, FS_RemoveElement
  <2>3. IsFiniteSet(RequestsAt(place, k) \ {r})
    BY <2>1, FS_RemoveElement
  <2> QED BY <2>1, <2>2, <2>3, FS_CardinalityType
<1>6. CountInv'
  <2> SUFFICES ASSUME NEW k \in Letters
               PROVE  /\ letterStatus[k] \in {"ABSENT", "OPEN"} =>
                           Cardinality(ReplaysOf(k))
                             <= faults + 1 + Cardinality(RequestsAt("mark", k) \ {r})
                      /\ letterStatus[k] \notin {"ABSENT", "OPEN"} =>
                           Cardinality(ReplaysOf(k))
                             + Cardinality(RequestsAt("create", k) \ {r})
                             <= Cardinality(Requests) + (faults + 1)
    BY <1>1, <1>3 DEF CountInv
  <2>1. /\ Cardinality(ReplaysOf(k)) \in Nat /\ Cardinality(Requests) \in Nat
        /\ Cardinality(RequestsAt("mark", k)) \in Nat
        /\ Cardinality(RequestsAt("create", k)) \in Nat
    BY ReplaysFinite
  <2>2. /\ letterStatus[k] \in {"ABSENT", "OPEN"} =>
             Cardinality(ReplaysOf(k)) <= faults + Cardinality(RequestsAt("mark", k))
        /\ letterStatus[k] \notin {"ABSENT", "OPEN"} =>
             Cardinality(ReplaysOf(k)) + Cardinality(RequestsAt("create", k))
               <= Cardinality(Requests) + faults
    BY DEF ReplayInv, CountInv
  <2> QED BY <1>2, <1>5, <2>1, <2>2
<1> QED BY <1>3, <1>4, <1>6 DEF ReplayInv

LEMMA PurgeReplays ==
  ASSUME TypeOK, ReplayInv, NEW l \in Letters, Delete(l)
  PROVE  ReplayInv'
<1>1. /\ letterStatus[l] \in {"OPEN", "REPLAYED"}
      /\ letterStatus' = [letterStatus EXCEPT ![l] = "PURGED"]
      /\ UNCHANGED <<replayedJob, replay, replayLetter, replayNew, replayOf, jobStatus, faults>>
  BY DEF Delete, replayVars, jobRows, NoFault
<1>2. /\ letterStatus \in [Letters -> LetterStatus] /\ faults \in Nat
      /\ replayLetter \in [Requests -> SUBSET Letters]
  BY FaultsAssumption DEF TypeOK, DeadLettersTypeOK, FaultsTypeOK
<1>3. RequestInv' /\ NewJobsInv' /\ ReplayedNamesReplay'
  BY <1>1, <1>2 DEF ReplayInv, RequestInv, NewJobsInv, ReplayedNamesReplay
<1>4. \A k : ReplaysOf(k)' = ReplaysOf(k)
             /\ \A place : RequestsAt(place, k)' = RequestsAt(place, k)
  BY <1>1 DEF ReplaysOf, RequestsAt
<1>5. ASSUME NEW k \in Letters, k # l
      PROVE  letterStatus'[k] = letterStatus[k]
  BY <1>1, <1>2, <1>5
<1>6. /\ letterStatus'[l] = "PURGED"
      /\ Cardinality(ReplaysOf(l)) + Cardinality(RequestsAt("create", l))
           <= Cardinality(Requests) + faults
  BY <1>1, <1>2, ReplaysFinite DEF ReplayInv, CountInv
<1>7. CountInv'
  BY <1>1, <1>4, <1>5, <1>6 DEF ReplayInv, CountInv
<1> QED BY <1>3, <1>7 DEF ReplayInv

LEMMA ReplayInductive ==
  ASSUME TypeOK, ReplayInv, [Next]_vars
  PROVE  ReplayInv'
<1>1. letterStatus \in [Letters -> LetterStatus] /\ jobStatus \in [Jobs -> JobRowStatus]
  BY DEF TypeOK, DeadLettersTypeOK, RepositoryTypeOK
<1>2. CASE UNCHANGED vars
  BY <1>2, OthersKeepReplays
  DEF vars, deadLetterVars, letterRows, jobRows, NoFault
<1>3. ASSUME NEW j \in Jobs, Submit(j)
      PROVE  ReplayInv'
  BY <1>1, <1>3, OthersKeepReplays DEF Submit, Create, deadLetterVars, letterRows
<1>4. ASSUME NEW w \in Workers, NEW ok \in BOOLEAN, RunAttempt(w, ok)
      PROVE  ReplayInv'
  BY <1>4, RunAttemptFacts, OthersKeepReplays DEF RunAttempt, deadLetterVars, letterRows
<1>5. ASSUME NEW c \in Collectors, Collect(c)
      PROVE  ReplayInv'
  <2>1. PICK m \in resultsTopic :
          \/ /\ HandleSuccess(c, m) \/ HandleFailure(c, m) \/ CommitResult(c, m)
             /\ UNCHANGED deadLetterVars
          \/ Publish(c, m)
    BY <1>5 DEF Collect
  <2>2. UNCHANGED <<letterStatus, replayedJob, replayVars>> /\ NoFault
    BY <2>1
    DEF HandleSuccess, HandleFailure, CommitResult, Publish, PublishDeadLetter,
        deadLetterVars, letterRows
  <2>3. \/ UNCHANGED jobStatus
        \/ \E st \in {"COMPLETED", "DEAD", "RETRYING"} :
             jobStatus' = [jobStatus EXCEPT ![m.job] = st]
    BY <2>1
    DEF HandleSuccess, HandleFailure, CommitResult, Publish, PublishDeadLetter,
        MarkCompleted, MarkFailed, FailedStatus, setStatus, jobRows
  <2>4. \A j \in Jobs : jobStatus'[j] = "ABSENT" => jobStatus[j] = "ABSENT"
    BY <1>1, <2>3
  <2> QED BY <2>2, <2>4, OthersKeepReplays
<1>6. ASSUME NEW c \in Collectors,
             Persist(c) \/ PublishLost(c) \/ CommitFails(c) \/ StopProcess(c)
      PROVE  ReplayInv'
  <2>1. /\ UNCHANGED <<replayedJob, replayVars, jobStatus>>
        /\ NoFault \/ \E kind : Fault(kind)
        /\ \/ UNCHANGED letterStatus
           \/ \E l \in Letters : /\ letterStatus[l] = "ABSENT"
                                 /\ letterStatus' = [letterStatus EXCEPT ![l] = "OPEN"]
    BY <1>6
    DEF Persist, PublishLost, PublishDeadLetterUnacked, CommitFails, StopProcess,
        FetchLetter, InsertLetter, NewLetterStatus, CommitLetter, CommitLetterFails,
        letterRows, jobRows
  <2> QED BY <1>1, <2>1, OthersKeepReplays
<1>7. ASSUME NEW r \in Requests, Request(r)
      PROVE  ReplayInv'
  BY <1>7, GetReplays, CreateReplays, MarkReplays, FailReplays DEF Request
<1>8. CASE Purge
  BY <1>8, PurgeReplays DEF Purge
<1> QED BY <1>2, <1>3, <1>4, <1>5, <1>6, <1>7, <1>8 DEF Next

-----------------------------------------------------------------------------
(***************************************************************************)
(* Theorems.                                                               *)
(***************************************************************************)

FlowInv == TypeOK /\ ResultsInv /\ LettersInv /\ ReplayInv

LEMMA FlowInvInit == Init => FlowInv
<1> SUFFICES ASSUME Init PROVE FlowInv
  OBVIOUS
<1>1. TypeOK
  BY TypeInit
<1>2. /\ resultsTopic = {} /\ condemned = {} /\ dlqLog = <<>> /\ dlqCommitted = {}
      /\ faults = 0 /\ Len(dlqLog) = 0
      /\ \A c \in Collectors : /\ stage[c] = "handle" /\ handling[c] = {}
                               /\ dlqHandling[c] = {} /\ ~dlqStored[c]
      /\ \A l \in Letters : letterStatus[l] = "ABSENT" /\ letterOf[l] = {}
      /\ \A r \in Requests : replay[r] = "get" /\ replayLetter[r] = {}
      /\ \A j \in Jobs : replayOf[j] = {}
  BY DEF Init, BrokerInit, ResultCollectorInit, DeadLettersInit, FaultsInit
<1>3. \A m : /\ OffsetsOf(m) = {} /\ StoredOf(m) = {} /\ RowsOf(m) = {} /\ ReplaysOf(m) = {}
             /\ \A place : RequestsAt(place, m) = {}
  BY <1>2 DEF OffsetsOf, StoredOf, RowsOf, ReplaysOf, RequestsAt
<1>4. \A m : /\ Cardinality(OffsetsOf(m)) = 0 /\ Cardinality(StoredOf(m)) = 0
             /\ Cardinality(RowsOf(m)) = 0 /\ IsFiniteSet(RowsOf(m))
             /\ Cardinality(ReplaysOf(m)) = 0
             /\ \A place : Cardinality(RequestsAt(place, m)) = 0
  BY <1>3, FS_EmptySet
<1>5. ResultsInv
  <2>1. AttemptsInv /\ HandlingInv /\ CondemnedInv /\ PublishedInv
    BY <1>2 DEF AttemptsInv, HandlingInv, CondemnedInv, PublishedInv
  <2>2. CopiesInv
    BY <1>2, <1>4 DEF CopiesInv
  <2> QED BY <2>1, <2>2 DEF ResultsInv
<1>6. LettersInv
  <2>1. DlqHandlingInv /\ AbsentInv
    BY <1>2 DEF DlqHandlingInv, AbsentInv
  <2>2. Stored = {}
    BY <1>2 DEF Stored
  <2>3. StoredInv /\ RowsInv
    BY <1>2, <1>4, <2>2 DEF StoredInv, RowsInv
  <2> QED BY <2>1, <2>3 DEF LettersInv
<1>7. ReplayInv
  <2>1. RequestInv /\ NewJobsInv /\ ReplayedNamesReplay
    BY <1>2 DEF RequestInv, NewJobsInv, ReplayedNamesReplay
  <2>2. CountInv
    BY <1>2, <1>4 DEF CountInv
  <2> QED BY <2>1, <2>2 DEF ReplayInv
<1> QED BY <1>1, <1>5, <1>6, <1>7 DEF FlowInv

LEMMA FlowInvInductive ==
  ASSUME FlowInv, [Next]_vars
  PROVE  FlowInv'
BY TypeInductive, ResultsInductive, LettersInductive, ReplayInductive DEF FlowInv

LEMMA FlowInvImplies ==
  ASSUME FlowInv
  PROVE  DeadLetterReachesTable /\ RowsBounded /\ ReplaysBounded
<1> USE DEF FlowInv
<1>1. DeadLetterReachesTable
  <2> SUFFICES ASSUME NEW m \in condemned, m \notin resultsTopic,
                      \A o \in OffsetsOf(m) : o \in dlqCommitted, ~NeverWritten(m)
               PROVE  RowsOf(m) # {}
    BY DEF DeadLetterReachesTable
  <2>1. PICK o \in OffsetsOf(m) : TRUE
    BY DEF ResultsInv, PublishedInv, Sent, NeverWritten
  <2> QED BY <2>1 DEF OffsetsOf, Stored, LettersInv, StoredInv
<1>2. RowsBounded
  <2> SUFFICES ASSUME NEW m \in ResultMessage
               PROVE  Cardinality(RowsOf(m)) <= 1 + 2 * faults
    BY DEF RowsBounded, TypeOK, BrokerTypeOK
  <2>1. /\ IsFiniteSet(RowsOf(m)) /\ Cardinality(RowsOf(m)) \in Nat
        /\ Cardinality(RowsOf(m)) <= Cardinality(StoredOf(m)) + faults
    BY FS_CardinalityType DEF LettersInv, RowsInv
  <2>2. StoredOf(m) \subseteq OffsetsOf(m)
    BY DEF StoredOf
  <2>3. /\ Cardinality(StoredOf(m)) <= Cardinality(OffsetsOf(m))
        /\ Cardinality(StoredOf(m)) \in Nat /\ Cardinality(OffsetsOf(m)) \in Nat
    BY <2>2, OffsetsFinite, StoredFinite, FS_Subset
  <2>4. Cardinality(OffsetsOf(m)) <= faults + 1 /\ faults \in Nat
    BY FaultsAssumption DEF ResultsInv, CopiesInv, TypeOK, FaultsTypeOK
  <2> QED BY <2>1, <2>3, <2>4
<1>3. ReplaysBounded
  <2> SUFFICES ASSUME NEW l \in Letters
               PROVE  Cardinality(ReplaysOf(l)) <= Cardinality(Requests) + faults
    BY DEF ReplaysBounded
  <2>1. /\ Cardinality(ReplaysOf(l)) \in Nat /\ Cardinality(Requests) \in Nat
        /\ Cardinality(RequestsAt("mark", l)) \in Nat
        /\ Cardinality(RequestsAt("create", l)) \in Nat
        /\ Cardinality(RequestsAt("mark", l)) + Cardinality(RequestsAt("create", l))
             <= Cardinality(Requests)
    BY ReplaysFinite
  <2>2. faults \in Nat
    BY FaultsAssumption DEF TypeOK, FaultsTypeOK
  <2>3. CASE letterStatus[l] \in {"ABSENT", "OPEN"}
    <3>1. Cardinality(ReplaysOf(l)) <= faults + Cardinality(RequestsAt("mark", l))
      BY <2>3 DEF ReplayInv, CountInv
    <3> QED BY <2>1, <2>2, <3>1
  <2>4. CASE letterStatus[l] \notin {"ABSENT", "OPEN"}
    <3>1. Cardinality(ReplaysOf(l)) + Cardinality(RequestsAt("create", l))
            <= Cardinality(Requests) + faults
      BY <2>4 DEF ReplayInv, CountInv
    <3> QED BY <2>1, <2>2, <3>1
  <2> QED BY <2>3, <2>4
<1> QED BY <1>1, <1>2, <1>3

\* Type correctness of the flow of dead letters.
THEOREM FlowTyped == Spec => []TypeOK
<1>1. FlowInv => TypeOK
  BY DEF FlowInv
<1>2. FlowInv /\ [Next]_vars => FlowInv'
  BY FlowInvInductive
<1> QED BY <1>1, <1>2, FlowInvInit, PTL DEF Spec

\* Across ends of the process at any point of either consumer, a result that made
\* its job DEAD is still to be handled, on its way, or a row of dead_letters, unless
\* every message of it was lost on the way to Kafka.
THEOREM CondemnedReachTable == Spec => []DeadLetterReachesTable
<1>1. FlowInv => DeadLetterReachesTable
  BY FlowInvImplies
<1>2. FlowInv /\ [Next]_vars => FlowInv'
  BY FlowInvInductive
<1> QED BY <1>1, <1>2, FlowInvInit, PTL DEF Spec

\* One failure has one row, and at most two more for each fault.
THEOREM RowsPerFailure == Spec => []RowsBounded
<1>1. FlowInv => RowsBounded
  BY FlowInvImplies
<1>2. FlowInv /\ [Next]_vars => FlowInv'
  BY FlowInvInductive
<1> QED BY <1>1, <1>2, FlowInvInit, PTL DEF Spec

\* However requests race and fail, a REPLAYED letter names a job made from it.
THEOREM ReplayNamed == Spec => []ReplayedNamesReplay
<1>1. FlowInv => ReplayedNamesReplay
  BY DEF FlowInv, ReplayInv
<1>2. FlowInv /\ [Next]_vars => FlowInv'
  BY FlowInvInductive
<1> QED BY <1>1, <1>2, FlowInvInit, PTL DEF Spec

\* A letter is replayed at most once by every request in flight, and once more for
\* every request that fails.
THEOREM ReplaysPerLetter == Spec => []ReplaysBounded
<1>1. FlowInv => ReplaysBounded
  BY FlowInvImplies
<1>2. FlowInv /\ [Next]_vars => FlowInv'
  BY FlowInvInductive
<1> QED BY <1>1, <1>2, FlowInvInit, PTL DEF Spec
=============================================================================
