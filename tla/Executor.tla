------------------------------ MODULE Executor ------------------------------
(***************************************************************************)
(* One worker process: main and its goroutines (cmd/worker/main.go), the   *)
(* consumer that feeds jobChan (internal/worker/kafka_consumer.go), and    *)
(* the executor with its semaphore and its counter (executor.go).          *)
(*                                                                         *)
(* A job moves from "sent" (published) over "queued" (in jobChan), "held"  *)
(* (taken by Run, which waits for the semaphore), "acquired", "running",   *)
(* "ran" (execute has returned) and "released" (the deferred function has  *)
(* given the slot back) to "gone".  Jobs are delivered once here; Pipeline *)
(* has redelivery.                                                         *)
(***************************************************************************)
EXTENDS Faults, Sequences, FiniteSets

CONSTANTS
  Jobs,         \* the messages addressed to this worker
  ChanSize,     \* the buffer of jobChan
  MaxConcurr    \* maxConcurr

ASSUME ExecutorAssumption ==
  /\ ChanSize \in Nat \ {0}
  /\ MaxConcurr \in Nat \ {0}

VARIABLES
  main,           \* "up" until main returns
  ctxDone,        \* ctx is cancelled
  run,            \* where Executor.Run is: "loop", "waiting" in wg.Wait, "stopped"
  jobChan,        \* the buffered channel
  jobState,       \* where a job is
  runningCount,   \* runningCount
  reported        \* the jobs whose outcome was published

vars == <<main, ctxDone, run, jobChan, jobState, runningCount, reported, faults>>

In(states) == {j \in Jobs : jobState[j] \in states}

JobState ==
  {"sent", "queued", "held", "acquired", "running", "ran", "released", "gone"}

TypeOK ==
  /\ main \in {"up", "down"}
  /\ ctxDone \in BOOLEAN
  /\ run \in {"loop", "waiting", "stopped"}
  /\ jobChan \in Seq(Jobs)
  /\ jobState \in [Jobs -> JobState]
  /\ runningCount \in Nat
  /\ reported \subseteq Jobs
  /\ FaultsTypeOK

Init ==
  /\ main = "up"
  /\ ctxDone = FALSE
  /\ run = "loop"
  /\ jobChan = <<>>
  /\ jobState = [j \in Jobs |-> "sent"]
  /\ runningCount = 0
  /\ reported = {}
  /\ FaultsInit

-----------------------------------------------------------------------------
Move(j, state) == jobState' = [jobState EXCEPT ![j] = state]

\* handle: the message is for this worker and the channel has room.  When ctx is
\* done as well, select takes either branch.
Handle(j) ==
  /\ main = "up"
  /\ jobState[j] = "sent"
  /\ Len(jobChan) < ChanSize
  /\ jobChan' = Append(jobChan, j)
  /\ Move(j, "queued")
  /\ NoFault
  /\ UNCHANGED <<main, ctxDone, run, runningCount, reported>>

\* Run receives from jobChan; select may do so after ctx is done.
Take ==
  /\ main = "up"
  /\ run = "loop"
  /\ In({"held", "acquired"}) = {}
  /\ jobChan # <<>>
  /\ Move(Head(jobChan), "held")
  /\ jobChan' = Tail(jobChan)
  /\ NoFault
  /\ UNCHANGED <<main, ctxDone, run, runningCount, reported>>

\* Variant of SlotFree: the job just taken is not counted.
SlotFreeOffByOne == Cardinality(In({"acquired", "running", "ran"})) <= MaxConcurr

\* sem has room.
SlotFree == Cardinality(In({"acquired", "running", "ran"})) < MaxConcurr

\* sem <- struct{}{}.
Acquire(j) ==
  /\ main = "up"
  /\ jobState[j] = "held"
  /\ SlotFree
  /\ Move(j, "acquired")
  /\ NoFault
  /\ UNCHANGED <<main, ctxDone, run, jobChan, runningCount, reported>>

\* wg.Add(1), runningCount.Add(1), and the goroutine starts.
Spawn(j) ==
  /\ main = "up"
  /\ jobState[j] = "acquired"
  /\ Move(j, "running")
  /\ runningCount' = runningCount + 1
  /\ NoFault
  /\ UNCHANGED <<main, ctxDone, run, jobChan, reported>>

\* execute: the runner returns, or there is none, and the result is published.
Execute(j) ==
  /\ main = "up"
  /\ jobState[j] = "running"
  /\ ~ctxDone
  /\ Move(j, "ran")
  /\ reported' = reported \cup {j}
  /\ NoFault
  /\ UNCHANGED <<main, ctxDone, run, jobChan, runningCount>>

\* The runner sees that ctx is done or returns anyway.  Publish answers with ctx's
\* error; the message may be written all the same.
ExecuteCancelled(j) ==
  /\ main = "up"
  /\ jobState[j] = "running"
  /\ ctxDone
  /\ Move(j, "ran")
  /\ reported' \in {reported, reported \cup {j}}
  /\ NoFault
  /\ UNCHANGED <<main, ctxDone, run, jobChan, runningCount>>

\* ReportResult fails: the error is logged.
ExecuteUnreported(j) ==
  /\ main = "up"
  /\ jobState[j] = "running"
  /\ ~ctxDone
  /\ Move(j, "ran")
  /\ Fault("report_lost")
  /\ UNCHANGED <<main, ctxDone, run, jobChan, runningCount, reported>>

\* Variant of Releasable: the slot of a job that was not reported is kept.
ReleasableIfReported(j) == jobState[j] = "ran" /\ j \in reported

\* The deferred function runs however execute returned.
Releasable(j) == jobState[j] = "ran"

\* <-sem.
Release(j) ==
  /\ main = "up"
  /\ Releasable(j)
  /\ Move(j, "released")
  /\ NoFault
  /\ UNCHANGED <<main, ctxDone, run, jobChan, runningCount, reported>>

\* Variant of Counted: runningCount is decremented twice.
CountedTwice(n) == n - 2

\* runningCount.Add(-1).
Counted(n) == n - 1

\* wg.Done(), runningCount.Add(-1).
Done(j) ==
  /\ main = "up"
  /\ jobState[j] = "released"
  /\ Move(j, "gone")
  /\ runningCount' = Counted(runningCount)
  /\ NoFault
  /\ UNCHANGED <<main, ctxDone, run, jobChan, reported>>

-----------------------------------------------------------------------------
\* A signal, or the job consumer fails and calls stop().
Cancel ==
  /\ ~ctxDone
  /\ ctxDone' = TRUE
  /\ Fault("stop")
  /\ UNCHANGED <<main, run, jobChan, jobState, runningCount, reported>>

\* Run takes <-ctx.Done() and waits for the goroutines.
RunWaits ==
  /\ main = "up"
  /\ run = "loop"
  /\ ctxDone
  /\ In({"held", "acquired"}) = {}
  /\ run' = "waiting"
  /\ NoFault
  /\ UNCHANGED <<main, ctxDone, jobChan, jobState, runningCount, reported>>

RunStops ==
  /\ main = "up"
  /\ run = "waiting"
  /\ In({"running", "ran", "released"}) = {}
  /\ run' = "stopped"
  /\ NoFault
  /\ UNCHANGED <<main, ctxDone, jobChan, jobState, runningCount, reported>>

\* <-ctx.Done() in main: it returns, and with it every goroutine ends.
MainReturns ==
  /\ main = "up"
  /\ ctxDone
  /\ main' = "down"
  /\ NoFault
  /\ UNCHANGED <<ctxDone, run, jobChan, jobState, runningCount, reported>>

\* The heartbeat loop ticks and reads runningCount, or the process has ended.
Idle ==
  /\ main = "down" \/ ~ctxDone
  /\ UNCHANGED vars

-----------------------------------------------------------------------------
Work(j) ==
  \/ Handle(j)
  \/ Acquire(j)
  \/ Spawn(j)
  \/ Execute(j)
  \/ ExecuteCancelled(j)
  \/ Release(j)
  \/ Done(j)

Next ==
  \/ \E j \in Jobs : Work(j) \/ ExecuteUnreported(j)
  \/ Take
  \/ Cancel
  \/ RunWaits
  \/ RunStops
  \/ MainReturns
  \/ Idle

\* Goroutines that can go on do, and the runners return.
Fairness == WF_vars(Take) /\ \A j \in Jobs : WF_vars(Work(j))

Spec == Init /\ [][Next]_vars /\ Fairness

-----------------------------------------------------------------------------
\* What a stopped process held is gone.
Alive(S) == IF main = "up" THEN S ELSE {}

Pool == INSTANCE WorkerPool
  WITH JobChanSize <- ChanSize + 1,
       up <- main = "up",
       jobChan <- Alive(In({"queued", "held", "acquired"})),
       executing <- Alive(In({"running"}))

\* The executor implements the worker that the pipeline relies on: it holds at
\* most one job more than its channel, runs at most MaxConcurr at a time, each job
\* once, and reports no job that did not run (Executor.Run).
PoolSpec == Pool!Spec

\* runningCount, which heartbeats report, never misses a running job, and exceeds
\* the slots only by goroutines that are about to end (order of the deferred
\* statements in Run).
CountCoversRunning ==
  /\ Cardinality(In({"running"})) <= runningCount
  /\ runningCount <= MaxConcurr + Cardinality(In({"released"}))

\* Every job addressed to a worker that goes on is run and given up in the end,
\* though the consumer waits for the channel, the channel for Run and Run for the
\* semaphore.
EveryJobEnds == \A j \in Jobs : <>(jobState[j] = "gone" \/ ctxDone)
=============================================================================
