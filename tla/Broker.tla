------------------------------- MODULE Broker -------------------------------
(***************************************************************************)
(* The Kafka topics of internal/broker, as the programs use them.          *)
(*                                                                         *)
(* A topic is the set of its messages that are not committed yet.  The     *)
(* writers balance by LeastBytes, which ignores the key, so two messages   *)
(* about one job or one worker may lie in different partitions and be      *)
(* consumed in any order.  A consumer fetches, handles and commits: a      *)
(* message leaves the set when its offset is committed and is delivered    *)
(* again when the consumer ends before that.                               *)
(***************************************************************************)
EXTENDS Models

VARIABLES
  jobsTopic,         \* TopicJobs: every worker reads all of it, in its own group
  resultsTopic,      \* TopicResults
  heartbeatsTopic,   \* TopicHeartbeats
  deadLettersTopic   \* TopicDeadLetter: all that was ever published on it

brokerVars == <<jobsTopic, resultsTopic, heartbeatsTopic, deadLettersTopic>>

BrokerTypeOK ==
  /\ jobsTopic \subseteq JobMessage
  /\ resultsTopic \subseteq ResultMessage
  /\ heartbeatsTopic \subseteq HeartbeatMessage
  /\ deadLettersTopic \subseteq ResultMessage

BrokerInit ==
  /\ jobsTopic = {}
  /\ resultsTopic = {}
  /\ heartbeatsTopic = {}
  /\ deadLettersTopic = {}

\* Writer.WriteMessages of one message, and Reader.CommitMessages of one.
WriteMessage(topic, m) == topic \cup {m}
CommitMessage(topic, m) == topic \ {m}
=============================================================================
