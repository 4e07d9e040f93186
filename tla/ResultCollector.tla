--------------------------- MODULE ResultCollector --------------------------
(***************************************************************************)
(* cmd/result-collector: the consumer of the results topic.                *)
(*                                                                         *)
(* HandleResult updates the job, publishes a dead letter when the update   *)
(* made the job DEAD, and returns; then the offset is committed.  A result *)
(* lies in one partition, and a partition has one consumer of the group at *)
(* a time.                                                                 *)
(***************************************************************************)
EXTENDS Repository, Broker, Faults

CONSTANT Collectors   \* the collector processes, members of one group

VARIABLES
  stage,      \* what the collector does next: "handle", "publish", "commit"
  handling,   \* msg: the result being handled, at most one
  condemned   \* history: the results for which MarkFailed returned DEAD

collectorVars == <<stage, handling, condemned>>

Stage == {"handle", "publish", "commit"}

ResultCollectorTypeOK ==
  /\ stage \in [Collectors -> Stage]
  /\ handling \in [Collectors -> SUBSET ResultMessage]
  /\ condemned \subseteq ResultMessage

ResultCollectorInit ==
  /\ stage = [c \in Collectors |-> "handle"]
  /\ handling = [c \in Collectors |-> {}]
  /\ condemned = {}

-----------------------------------------------------------------------------
\* The collector fetches m.  Each message has one owner in the group; the time in
\* a rebalance in which the former owner is still busy with m is left out.
FetchResult(c, m) ==
  /\ stage[c] = "handle"
  /\ m \in resultsTopic
  /\ \A d \in Collectors : m \notin handling[d]
  /\ handling' = [handling EXCEPT ![c] = {m}]

HandleSuccess(c, m) ==
  /\ m.success
  /\ FetchResult(c, m)
  /\ MarkCompleted(m.job)
  /\ stage' = [stage EXCEPT ![c] = "commit"]
  /\ NoFault
  /\ UNCHANGED <<condemned, workerRows, brokerVars>>

\* Variant of AfterFailure: the dead letter is left out.
AfterFailureNoDeadLetter(j) == "commit"

\* status == models.JobStatusDead.
AfterFailure(j) == IF FailedStatus(j) = "DEAD" THEN "publish" ELSE "commit"

HandleFailure(c, m) ==
  /\ ~m.success
  /\ FetchResult(c, m)
  /\ MarkFailed(m.job)
  /\ stage' = [stage EXCEPT ![c] = AfterFailure(m.job)]
  /\ condemned' = IF FailedStatus(m.job) = "DEAD" THEN condemned \cup {m}
                                                  ELSE condemned
  /\ NoFault
  /\ UNCHANGED <<workerRows, brokerVars>>

PublishDeadLetter(c, m) ==
  /\ stage[c] = "publish"
  /\ m \in handling[c]
  /\ deadLettersTopic' = WriteMessage(deadLettersTopic, m)
  /\ stage' = [stage EXCEPT ![c] = "commit"]
  /\ NoFault
  /\ UNCHANGED <<handling, condemned, jobRows, workerRows,
                 jobsTopic, resultsTopic, heartbeatsTopic>>

\* The write asks for no acknowledgement and is lost.
PublishDeadLetterUnacked(c, m) ==
  /\ stage[c] = "publish"
  /\ m \in handling[c]
  /\ stage' = [stage EXCEPT ![c] = "commit"]
  /\ Fault("unacked_write")
  /\ UNCHANGED <<handling, condemned, jobRows, workerRows, brokerVars>>

CommitResult(c, m) ==
  /\ stage[c] = "commit"
  /\ m \in handling[c]
  /\ resultsTopic' = CommitMessage(resultsTopic, m)
  /\ stage' = [stage EXCEPT ![c] = "handle"]
  /\ handling' = [handling EXCEPT ![c] = {}]
  /\ NoFault
  /\ UNCHANGED <<condemned, jobRows, workerRows,
                 jobsTopic, heartbeatsTopic, deadLettersTopic>>

\* The process ends before the commit: a crash, a signal, or log.Fatal after a
\* failed publication or commit.  Uncommitted, m is delivered again, to the
\* process of the group that gets the partition: c stands for that one from here.
StopCollector(c) ==
  /\ stage[c] # "handle"
  /\ stage' = [stage EXCEPT ![c] = "handle"]
  /\ handling' = [handling EXCEPT ![c] = {}]
  /\ Fault("collector_stop")
  /\ UNCHANGED <<condemned, jobRows, workerRows, brokerVars>>
=============================================================================
