----------------------------- MODULE WorkerPool -----------------------------
(***************************************************************************)
(* What the rest of the system relies on in a worker, as WorkerNode has    *)
(* it: the jobs it has received and not started, a bounded number of jobs  *)
(* that run, and a report for each job that has run.  Executor implements  *)
(* it.                                                                     *)
(***************************************************************************)
EXTENDS Naturals, FiniteSets

CONSTANTS
  Jobs,          \* the messages addressed to the worker
  JobChanSize,   \* how many it may hold before they start
  MaxConcurr     \* how many may run at a time

VARIABLES
  up,          \* the process runs
  jobChan,     \* received, not started
  executing,   \* running
  reported     \* the jobs whose outcome was published

vars == <<up, jobChan, executing, reported>>

Init ==
  /\ up = TRUE
  /\ jobChan = {}
  /\ executing = {}
  /\ reported = {}

Receive(j) ==
  /\ up
  /\ j \notin jobChan \cup executing \cup reported
  /\ Cardinality(jobChan) < JobChanSize
  /\ jobChan' = jobChan \cup {j}
  /\ UNCHANGED <<up, executing, reported>>

Start(j) ==
  /\ up
  /\ j \in jobChan
  /\ Cardinality(executing) < MaxConcurr
  /\ jobChan' = jobChan \ {j}
  /\ executing' = executing \cup {j}
  /\ UNCHANGED <<up, reported>>

\* The outcome is published, or it is lost.
Finish(j) ==
  /\ up
  /\ j \in executing
  /\ executing' = executing \ {j}
  /\ reported' \in {reported, reported \cup {j}}
  /\ UNCHANGED <<up, jobChan>>

\* The process ends, and what it held is gone.
Stop ==
  /\ up
  /\ up' = FALSE
  /\ jobChan' = {}
  /\ executing' = {}
  /\ UNCHANGED reported

Next == Stop \/ \E j \in Jobs : Receive(j) \/ Start(j) \/ Finish(j)

Spec == Init /\ [][Next]_vars
=============================================================================
