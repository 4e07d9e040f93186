---------------------------- MODULE DeadLetters -----------------------------
(***************************************************************************)
(* The dead_letters table (internal/repository/dead_letters.go), the       *)
(* consumer that fills it (internal/collector/dead_letter_consumer.go) and *)
(* the requests that replay and purge letters (dead_letter_handler.go).    *)
(*                                                                         *)
(* The consumer runs in the process of the result collector.  It reads the *)
(* topic as a log: a result that is published twice is two messages there. *)
(* A row has an id of its own; nothing in the table identifies the message *)
(* it was made from.                                                       *)
(***************************************************************************)
EXTENDS ResultCollector, Sequences

CONSTANTS
  Letters,      \* the ids of rows
  Requests      \* concurrent POST /dead-letters/{id}/replay

ASSUME DeadLettersAssumption == Letters \subseteq Nat /\ IsFiniteSet(Requests)

VARIABLES
  letterStatus,    \* dead_letters.status; ABSENT and PURGED are not in the table
  letterOf,        \* the result a row was made from, as a set
  replayedJob,     \* dead_letters.replayed_job_id, as a set
  dlqLog,          \* the messages of the dead letters topic
  dlqLost,         \* history: the results of which a message was lost
  dlqCommitted,    \* the offsets that are committed
  dlqHandling,     \* km: the offset of the message the consumer handles, as a set
  dlqStored,       \* Insert has returned for it
  replay,          \* where a request is: "get", "create" or "mark"
  replayLetter,    \* id: the letter it replays, as a set
  replayNew,       \* created: the job it has created, as a set
  replayOf         \* history: the letter a job is a replay of, as a set

letterRows == <<letterStatus, letterOf, replayedJob>>
dlqVars == <<dlqLog, dlqLost, dlqCommitted, dlqHandling, dlqStored>>
replayVars == <<replay, replayLetter, replayNew, replayOf>>
deadLetterVars == <<letterRows, dlqVars, replayVars>>

LetterStatus == {"ABSENT", "OPEN", "REPLAYED", "PURGED"}

DeadLettersTypeOK ==
  /\ letterStatus \in [Letters -> LetterStatus]
  /\ letterOf \in [Letters -> SUBSET ResultMessage]
  /\ replayedJob \in [Letters -> SUBSET Jobs]
  /\ dlqLog \in Seq(ResultMessage)
  /\ dlqLost \subseteq ResultMessage
  /\ dlqCommitted \subseteq 1 .. Len(dlqLog)
  /\ dlqHandling \in [Collectors -> SUBSET (1 .. Len(dlqLog))]
  /\ dlqStored \in [Collectors -> BOOLEAN]
  /\ replay \in [Requests -> {"get", "create", "mark"}]
  /\ replayLetter \in [Requests -> SUBSET Letters]
  /\ replayNew \in [Requests -> SUBSET Jobs]
  /\ replayOf \in [Jobs -> SUBSET Letters]

DeadLettersInit ==
  /\ letterStatus = [l \in Letters |-> "ABSENT"]
  /\ letterOf = [l \in Letters |-> {}]
  /\ replayedJob = [l \in Letters |-> {}]
  /\ dlqLog = <<>>
  /\ dlqLost = {}
  /\ dlqCommitted = {}
  /\ dlqHandling = [c \in Collectors |-> {}]
  /\ dlqStored = [c \in Collectors |-> FALSE]
  /\ replay = [r \in Requests |-> "get"]
  /\ replayLetter = [r \in Requests |-> {}]
  /\ replayNew = [r \in Requests |-> {}]
  /\ replayOf = [j \in Jobs |-> {}]

-----------------------------------------------------------------------------
(***************************************************************************)
(* The consumer: fetch, insert, commit.                                    *)
(***************************************************************************)

\* Variant of StoredAtFetch: the commit does not wait for the insert.
StoredBefore == TRUE

\* Insert is called after the fetch.
StoredAtFetch == FALSE

FetchLetter(c, o) ==
  /\ dlqHandling[c] = {}
  /\ o \in 1 .. Len(dlqLog) /\ o \notin dlqCommitted
  /\ \A d \in Collectors : o \notin dlqHandling[d]
  /\ dlqHandling' = [dlqHandling EXCEPT ![c] = {o}]
  /\ dlqStored' = [dlqStored EXCEPT ![c] = StoredAtFetch]
  /\ NoFault
  /\ UNCHANGED <<letterRows, dlqLog, dlqLost, dlqCommitted, replayVars, jobRows, brokerVars>>

\* Variant of NewLetterStatus: Insert writes the field of dl, which is not set.
NoLetterStatus == ""

\* Insert does not name the column: its default.
NewLetterStatus == "OPEN"

\* Insert: a new row.
InsertLetter(c, o, l) ==
  /\ o \in dlqHandling[c]
  /\ ~dlqStored[c]
  /\ letterStatus[l] = "ABSENT"
  /\ \A k \in Letters : k < l => letterStatus[k] # "ABSENT"
  /\ letterStatus' = [letterStatus EXCEPT ![l] = NewLetterStatus]
  /\ letterOf' = [letterOf EXCEPT ![l] = {dlqLog[o]}]
  /\ dlqStored' = [dlqStored EXCEPT ![c] = TRUE]
  /\ NoFault
  /\ UNCHANGED <<replayedJob, dlqLog, dlqLost, dlqCommitted, dlqHandling, replayVars,
                 jobRows, brokerVars>>

DoneWithLetter(c) ==
  /\ dlqHandling' = [dlqHandling EXCEPT ![c] = {}]
  /\ dlqStored' = [dlqStored EXCEPT ![c] = FALSE]

\* Variant of AfterCommit: the offset is not committed.
NotCommitted(o) == dlqCommitted

\* CommitMessages.
AfterCommit(o) == dlqCommitted \cup {o}

CommitLetter(c, o) ==
  /\ o \in dlqHandling[c]
  /\ dlqStored[c]
  /\ dlqCommitted' = AfterCommit(o)
  /\ DoneWithLetter(c)
  /\ NoFault
  /\ UNCHANGED <<letterRows, dlqLog, dlqLost, replayVars, jobRows, brokerVars>>

\* The commit fails with a temporary error: the message will be delivered again.
CommitLetterFails(c, o) ==
  /\ o \in dlqHandling[c]
  /\ dlqStored[c]
  /\ DoneWithLetter(c)
  /\ Fault("redelivery")
  /\ UNCHANGED <<letterRows, dlqLog, dlqLost, dlqCommitted, replayVars, jobRows, brokerVars>>

-----------------------------------------------------------------------------
(***************************************************************************)
(* Replay: three statements, with nothing that holds them together.        *)
(***************************************************************************)

\* Variant of Replayable: the status is not looked at.
ReplayableTwice(l) == letterStatus[l] \in {"OPEN", "REPLAYED"}

\* Get finds the row and its status is not REPLAYED; else 404 or 409.
Replayable(l) == letterStatus[l] = "OPEN"

ReplayGet(r, l) ==
  /\ replay[r] = "get"
  /\ Replayable(l)
  /\ replay' = [replay EXCEPT ![r] = "create"]
  /\ replayLetter' = [replayLetter EXCEPT ![r] = {l}]
  /\ NoFault
  /\ UNCHANGED <<letterRows, dlqVars, replayNew, replayOf, jobRows, brokerVars>>

ReplayDone(r) ==
  /\ replay' = [replay EXCEPT ![r] = "get"]
  /\ replayLetter' = [replayLetter EXCEPT ![r] = {}]
  /\ replayNew' = [replayNew EXCEPT ![r] = {}]

\* Jobs.Create of a new job with the letter's type and payload.
ReplayCreate(r, j) ==
  /\ replay[r] = "create"
  /\ Create(j)
  /\ replayOf' = [replayOf EXCEPT ![j] = replayLetter[r]]
  /\ replayNew' = [replayNew EXCEPT ![r] = {j}]
  /\ replay' = [replay EXCEPT ![r] = "mark"]
  /\ NoFault
  /\ UNCHANGED <<letterRows, dlqVars, replayLetter, brokerVars>>

\* Create fails and no row was inserted, or MarkReplayed fails, or the process
\* ends: the request is not answered with 201.
ReplayFails(r) ==
  /\ replay[r] # "get"
  /\ ReplayDone(r)
  /\ Fault("replay_error")
  /\ UNCHANGED <<letterRows, dlqVars, replayOf, jobRows, brokerVars>>

\* Variant of Replayed: replayed_job_id is set to the letter's own job.
ReplayedOldJob(r, l) == {m.job : m \in letterOf[l]}

\* replayed_job_id = created.ID.
Replayed(r, l) == replayNew[r]

\* MarkReplayed; it changes nothing when the letter was purged meanwhile.
MarkReplayed(r, l) ==
  /\ replay[r] = "mark"
  /\ l \in replayLetter[r]
  /\ IF letterStatus[l] = "PURGED"
     THEN UNCHANGED <<letterStatus, replayedJob>>
     ELSE /\ letterStatus' = [letterStatus EXCEPT ![l] = "REPLAYED"]
          /\ replayedJob' = [replayedJob EXCEPT ![l] = Replayed(r, l)]
  /\ ReplayDone(r)
  /\ NoFault
  /\ UNCHANGED <<letterOf, dlqVars, replayOf, jobRows, brokerVars>>

Delete(l) ==
  /\ letterStatus[l] \in {"OPEN", "REPLAYED"}
  /\ letterStatus' = [letterStatus EXCEPT ![l] = "PURGED"]
  /\ NoFault
  /\ UNCHANGED <<letterOf, replayedJob, dlqVars, replayVars, jobRows, brokerVars>>
=============================================================================
