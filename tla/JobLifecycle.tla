---------------------------- MODULE JobLifecycle ----------------------------
(***************************************************************************)
(* What the pipeline promises a reader of the jobs table, with no worker,  *)
(* topic or process in it: which changes of status and attempts can ever   *)
(* be observed.                                                            *)
(*                                                                         *)
(* An outcome is recorded only for a job that was dispatched, and whatever *)
(* the status is by then: an outcome may belong to an earlier attempt.     *)
(***************************************************************************)
EXTENDS Models

CONSTANT MaxDispatches   \* model bound, as in Repository

VARIABLES status, attempts

rows == <<status, attempts>>

Init ==
  /\ status = [j \in Jobs |-> "ABSENT"]
  /\ attempts = [j \in Jobs |-> 0]

\* Jobs are created in the order of their created_at, ready to be dispatched.
Submit(j) ==
  /\ status[j] = "ABSENT"
  /\ \A k \in Jobs : k < j => status[k] # "ABSENT"
  /\ status' = [status EXCEPT ![j] = "QUEUED"]
  /\ UNCHANGED attempts

\* A job that has not ended can be cancelled.
CancelJob(j) ==
  /\ status[j] \in {"QUEUED", "RUNNING", "RETRYING"}
  /\ status' = [status EXCEPT ![j] = "DEAD"]
  /\ UNCHANGED attempts

Waiting == {j \in Jobs : /\ status[j] \in {"QUEUED", "RETRYING"}
                         /\ attempts[j] < MaxDispatches}

\* j must not be dispatched while k is left waiting.
Precedes(k, j) ==
  \/ Priority[k] > Priority[j]
  \/ Priority[k] = Priority[j] /\ k < j

\* Jobs are dispatched highest priority first, then oldest first.
Dispatch(S) ==
  /\ S # {}
  /\ \A j \in S : \A k \in Waiting : Precedes(k, j) => k \in S
  /\ status' = [j \in Jobs |-> IF j \in S THEN "RUNNING" ELSE status[j]]
  /\ attempts' = [j \in Jobs |-> IF j \in S THEN attempts[j] + 1 ELSE attempts[j]]

\* Running jobs go back to the queue and keep their attempts.
Return(S) ==
  /\ S # {}
  /\ status' = [j \in Jobs |-> IF j \in S THEN "QUEUED" ELSE status[j]]
  /\ UNCHANGED attempts

Succeed(j) ==
  /\ attempts[j] > 0
  /\ status' = [status EXCEPT ![j] = "COMPLETED"]
  /\ UNCHANGED attempts

Fail(j) ==
  /\ attempts[j] > 0
  /\ status' = [status EXCEPT ![j] = IF attempts[j] >= MaxAttempts
                                     THEN "DEAD" ELSE "RETRYING"]
  /\ UNCHANGED attempts

Next ==
  \/ \E j \in Jobs : Submit(j) \/ CancelJob(j) \/ Succeed(j) \/ Fail(j)
  \/ \E S \in SUBSET Waiting : Dispatch(S)
  \/ \E S \in SUBSET {j \in Jobs : status[j] = "RUNNING"} : Return(S)

Spec == Init /\ [][Next]_rows
=============================================================================
