--------------------------- MODULE ExecutorProofs ---------------------------
(***************************************************************************)
(* Proofs about Executor, for any jobs, any size of jobChan, any number of *)
(* slots and any faults.                                                   *)
(***************************************************************************)
EXTENDS Executor, FiniteSetTheorems, TLAPS

-----------------------------------------------------------------------------
(***************************************************************************)
(* The inductive invariant.  The channel holds every queued job once, Run  *)
(* holds at most one job outside of it, the semaphore is never overfull,   *)
(* runningCount counts the goroutines that have not reached their last     *)
(* deferred statement, and only jobs that have run are reported.           *)
(***************************************************************************)

Slots == In({"acquired", "running", "ran"})
Goroutines == In({"running", "ran", "released"})

ChannelInv ==
  /\ \A i \in 1 .. Len(jobChan) : jobState[jobChan[i]] = "queued"
  /\ \A i, k \in 1 .. Len(jobChan) : jobChan[i] = jobChan[k] => i = k
  /\ IsFiniteSet(In({"queued"})) /\ Cardinality(In({"queued"})) = Len(jobChan)

OneTaken == \A j, k \in In({"held", "acquired"}) : j = k

SlotsInv == IsFiniteSet(Slots) /\ Cardinality(Slots) <= MaxConcurr

CountInv == IsFiniteSet(Goroutines) /\ Cardinality(Goroutines) = runningCount

ReportedRan == reported \subseteq In({"ran", "released", "gone"})

ExecutorInv ==
  /\ TypeOK
  /\ ChannelInv
  /\ OneTaken
  /\ SlotsInv
  /\ CountInv
  /\ ReportedRan

-----------------------------------------------------------------------------
\* In, as a function of the states.
Where(f, S) == {j \in Jobs : f[j] \in S}

\* How many jobs a move from one state to another adds to the jobs in S.
Gain(from, to, S) ==
  IF from \notin S /\ to \in S THEN 1 ELSE IF from \in S /\ to \notin S THEN -1 ELSE 0

\* What moving one job does to the size of such a set.
LEMMA WhereMoved ==
  ASSUME NEW f \in [Jobs -> JobState], NEW j \in Jobs, NEW st, NEW S,
         NEW g, \A k \in Jobs : g[k] = IF k = j THEN st ELSE f[k],
         IsFiniteSet(Where(f, S))
  PROVE  /\ IsFiniteSet(Where(g, S))
         /\ Cardinality(Where(f, S)) \in Nat
         /\ Cardinality(Where(g, S)) = Cardinality(Where(f, S)) + Gain(f[j], st, S)
<1>1. j \in Where(f, S) <=> f[j] \in S
  BY DEF Where
<1>2. Cardinality(Where(f, S)) \in Nat
  BY FS_CardinalityType
<1>3. CASE st \in S
  <2>1. Where(g, S) = Where(f, S) \cup {j}
    BY <1>3 DEF Where
  <2>2. /\ IsFiniteSet(Where(g, S))
        /\ Cardinality(Where(g, S)) = IF f[j] \in S THEN Cardinality(Where(f, S))
                                                    ELSE Cardinality(Where(f, S)) + 1
    BY <1>1, <2>1, FS_AddElement
  <2> QED BY <1>2, <1>3, <2>2 DEF Gain
<1>4. CASE st \notin S
  <2>1. Where(g, S) = Where(f, S) \ {j}
    BY <1>4 DEF Where
  <2>2. /\ IsFiniteSet(Where(g, S))
        /\ Cardinality(Where(g, S)) = IF f[j] \in S THEN Cardinality(Where(f, S)) - 1
                                                    ELSE Cardinality(Where(f, S))
    BY <1>1, <2>1, FS_RemoveElement
  <2> QED BY <1>2, <1>4, <2>2 DEF Gain
<1> QED BY <1>3, <1>4

\* What a move does to the sets that the invariant counts.
LEMMA MoveCount ==
  ASSUME ExecutorInv, NEW j \in Jobs, NEW st \in JobState, Move(j, st)
  PROVE  /\ IsFiniteSet(In({"queued"})') /\ IsFiniteSet(Slots') /\ IsFiniteSet(Goroutines')
         /\ Cardinality(In({"queued"})') = Len(jobChan) + Gain(jobState[j], st, {"queued"})
         /\ Cardinality(Slots) \in Nat
         /\ Cardinality(Slots') =
              Cardinality(Slots) + Gain(jobState[j], st, {"acquired", "running", "ran"})
         /\ Cardinality(Goroutines') =
              runningCount + Gain(jobState[j], st, {"running", "ran", "released"})
<1> USE DEF ExecutorInv
<1>1. /\ jobState \in [Jobs -> JobState]
      /\ \A k \in Jobs : jobState'[k] = IF k = j THEN st ELSE jobState[k]
  BY DEF TypeOK, Move
<1>2. /\ In({"queued"}) = Where(jobState, {"queued"})
      /\ In({"queued"})' = Where(jobState', {"queued"})
  BY DEF In, Where
<1>3. /\ Slots = Where(jobState, {"acquired", "running", "ran"})
      /\ Slots' = Where(jobState', {"acquired", "running", "ran"})
  BY DEF Slots, In, Where
<1>4. /\ Goroutines = Where(jobState, {"running", "ran", "released"})
      /\ Goroutines' = Where(jobState', {"running", "ran", "released"})
  BY DEF Goroutines, In, Where
<1> HIDE DEF ExecutorInv
<1>0. ASSUME NEW S, IsFiniteSet(Where(jobState, S))
      PROVE  /\ IsFiniteSet(Where(jobState', S))
             /\ Cardinality(Where(jobState, S)) \in Nat
             /\ Cardinality(Where(jobState', S)) =
                  Cardinality(Where(jobState, S)) + Gain(jobState[j], st, S)
  BY <1>0, <1>1, WhereMoved
<1>5. /\ IsFiniteSet(In({"queued"})')
      /\ Cardinality(In({"queued"})') = Len(jobChan) + Gain(jobState[j], st, {"queued"})
  BY <1>0, <1>2 DEF ExecutorInv, ChannelInv
<1>6. /\ IsFiniteSet(Slots') /\ Cardinality(Slots) \in Nat
      /\ Cardinality(Slots') =
           Cardinality(Slots) + Gain(jobState[j], st, {"acquired", "running", "ran"})
  BY <1>0, <1>3 DEF ExecutorInv, SlotsInv
<1>7. /\ IsFiniteSet(Goroutines')
      /\ Cardinality(Goroutines') =
           runningCount + Gain(jobState[j], st, {"running", "ran", "released"})
  BY <1>0, <1>4 DEF ExecutorInv, CountInv
<1> QED BY <1>5, <1>6, <1>7

LEMMA SameIn ==
  ASSUME UNCHANGED jobState, NEW S
  PROVE  In(S)' = In(S)
BY DEF In

-----------------------------------------------------------------------------
(***************************************************************************)
(* The steps of a job after the channel leave the channel alone.           *)
(***************************************************************************)
LEMMA ChannelKept ==
  ASSUME ExecutorInv, NEW j \in Jobs, NEW st \in JobState \ {"queued"},
         jobState[j] # "queued", Move(j, st), UNCHANGED jobChan
  PROVE  ChannelInv'
<1> USE DEF ExecutorInv, TypeOK
<1>1. IsFiniteSet(In({"queued"})') /\ Cardinality(In({"queued"})') = Len(jobChan)
  BY MoveCount DEF Gain
<1>2. \A i \in 1 .. Len(jobChan) : jobChan[i] \in Jobs
  OBVIOUS
<1>3. \A i \in 1 .. Len(jobChan) : jobState'[jobChan[i]] = "queued"
  BY <1>2 DEF ChannelInv, Move
<1> QED BY <1>1, <1>3 DEF ChannelInv

LEMMA HandleStep ==
  ASSUME ExecutorInv, NEW j \in Jobs, Handle(j)
  PROVE  ExecutorInv'
<1> USE DEF ExecutorInv
<1>1. /\ jobState \in [Jobs -> JobState] /\ jobChan \in Seq(Jobs)
      /\ jobState[j] = "sent" /\ Move(j, "queued") /\ jobChan' = Append(jobChan, j)
      /\ UNCHANGED <<main, ctxDone, run, runningCount, reported, faults>>
  BY DEF Handle, TypeOK, NoFault
<1>2. TypeOK'
  BY <1>1 DEF TypeOK, Move, JobState, FaultsTypeOK
<1>3. ChannelInv'
  <2>1. IsFiniteSet(In({"queued"})') /\ Cardinality(In({"queued"})') = Len(jobChan) + 1
    BY <1>1, MoveCount DEF Gain, JobState
  <2>2. /\ Len(jobChan') = Len(jobChan) + 1 /\ Len(jobChan) \in Nat
        /\ jobChan'[Len(jobChan) + 1] = j
        /\ \A i \in 1 .. Len(jobChan) : jobChan'[i] = jobChan[i] /\ jobChan[i] \in Jobs
    BY <1>1
  <2>3. jobState'[j] = "queued" /\ \A k \in Jobs : k # j => jobState'[k] = jobState[k]
    BY <1>1 DEF Move
  <2>4. \A i \in 1 .. Len(jobChan) : jobChan[i] # j
    BY <1>1 DEF ChannelInv
  <2> QED BY <2>1, <2>2, <2>3, <2>4 DEF ChannelInv
<1>4. OneTaken'
  BY <1>1 DEF OneTaken, In, Move
<1>5. SlotsInv' /\ CountInv'
  BY <1>1, MoveCount, ExecutorAssumption DEF SlotsInv, CountInv, TypeOK, Gain, JobState
<1>6. ReportedRan'
  BY <1>1 DEF ReportedRan, In, Move
<1> QED BY <1>2, <1>3, <1>4, <1>5, <1>6

LEMMA TakeStep ==
  ASSUME ExecutorInv, Take
  PROVE  ExecutorInv'
<1> USE DEF ExecutorInv
<1> DEFINE j == Head(jobChan)
<1>1. /\ jobState \in [Jobs -> JobState] /\ jobChan \in Seq(Jobs)
      /\ jobChan # <<>> /\ Move(j, "held") /\ jobChan' = Tail(jobChan)
      /\ In({"held", "acquired"}) = {}
      /\ UNCHANGED <<main, ctxDone, run, runningCount, reported, faults>>
  BY DEF Take, TypeOK, NoFault
<1>2. j \in Jobs /\ jobState[j] = "queued" /\ j = jobChan[1] /\ Len(jobChan) \in Nat \ {0}
  BY <1>1 DEF ChannelInv
<1>3. TypeOK'
  BY <1>1, <1>2 DEF TypeOK, Move, JobState, FaultsTypeOK
<1>4. ChannelInv'
  <2>1. IsFiniteSet(In({"queued"})') /\ Cardinality(In({"queued"})') = Len(jobChan) - 1
    BY <1>1, <1>2, MoveCount DEF Gain, JobState
  <2>2. /\ Len(jobChan') = Len(jobChan) - 1
        /\ \A i \in 1 .. Len(jobChan') : /\ jobChan'[i] = jobChan[i + 1]
                                         /\ i + 1 \in 1 .. Len(jobChan)
                                         /\ jobChan[i + 1] \in Jobs
    BY <1>1, <1>2
  <2>3. \A k \in Jobs : k # j => jobState'[k] = jobState[k]
    BY <1>1 DEF Move
  <2>4. \A i \in 1 .. Len(jobChan') : jobChan'[i] # j
    BY <1>2, <2>2 DEF ChannelInv
  <2> QED BY <2>1, <2>2, <2>3, <2>4, <1>2 DEF ChannelInv
<1>5. OneTaken'
  BY <1>1, <1>2 DEF OneTaken, In, Move
<1>6. SlotsInv' /\ CountInv'
  BY <1>1, <1>2, MoveCount, ExecutorAssumption DEF SlotsInv, CountInv, TypeOK, Gain, JobState
<1>7. ReportedRan'
  BY <1>1, <1>2 DEF ReportedRan, In, Move
<1> QED BY <1>3, <1>4, <1>5, <1>6, <1>7

\* The semaphore has room for the job that Run holds.
LEMMA AcquireStep ==
  ASSUME ExecutorInv, NEW j \in Jobs, Acquire(j)
  PROVE  ExecutorInv'
<1> USE DEF ExecutorInv
<1>1. /\ jobState \in [Jobs -> JobState]
      /\ jobState[j] = "held" /\ Move(j, "acquired")
      /\ Cardinality(Slots) < MaxConcurr
      /\ UNCHANGED <<main, ctxDone, run, jobChan, runningCount, reported, faults>>
  BY DEF Acquire, SlotFree, Slots, TypeOK, NoFault
<1>2. TypeOK'
  BY <1>1 DEF TypeOK, Move, JobState, FaultsTypeOK
<1>3. ChannelInv'
  BY <1>1, ChannelKept DEF JobState
<1>4. OneTaken'
  BY <1>1 DEF OneTaken, In, Move
<1>5. SlotsInv' /\ CountInv'
  BY <1>1, MoveCount, ExecutorAssumption DEF SlotsInv, CountInv, TypeOK, Gain, JobState
<1>6. ReportedRan'
  BY <1>1 DEF ReportedRan, In, Move
<1> QED BY <1>2, <1>3, <1>4, <1>5, <1>6

LEMMA SpawnStep ==
  ASSUME ExecutorInv, NEW j \in Jobs, Spawn(j)
  PROVE  ExecutorInv'
<1> USE DEF ExecutorInv
<1>1. /\ jobState \in [Jobs -> JobState]
      /\ jobState[j] = "acquired" /\ Move(j, "running")
      /\ runningCount \in Nat /\ runningCount' = runningCount + 1
      /\ UNCHANGED <<main, ctxDone, run, jobChan, reported, faults>>
  BY DEF Spawn, TypeOK, NoFault
<1>2. TypeOK'
  BY <1>1 DEF TypeOK, Move, JobState, FaultsTypeOK
<1>3. ChannelInv'
  BY <1>1, ChannelKept DEF JobState
<1>4. OneTaken'
  BY <1>1 DEF OneTaken, In, Move
<1>5. SlotsInv' /\ CountInv'
  BY <1>1, MoveCount, ExecutorAssumption DEF SlotsInv, CountInv, TypeOK, Gain, JobState
<1>6. ReportedRan'
  BY <1>1 DEF ReportedRan, In, Move
<1> QED BY <1>2, <1>3, <1>4, <1>5, <1>6

\* Reported or not, the slot and the count stay until the deferred function runs.
LEMMA ExecuteStep ==
  ASSUME ExecutorInv, NEW j \in Jobs,
         Execute(j) \/ ExecuteCancelled(j) \/ ExecuteUnreported(j)
  PROVE  ExecutorInv'
<1> USE DEF ExecutorInv
<1>1. /\ jobState \in [Jobs -> JobState]
      /\ jobState[j] = "running" /\ Move(j, "ran")
      /\ reported' \in {reported, reported \cup {j}}
      /\ UNCHANGED <<main, ctxDone, run, jobChan, runningCount>>
  BY DEF Execute, ExecuteCancelled, ExecuteUnreported, TypeOK
<1>2. TypeOK'
  <2>1. FaultsTypeOK'
    BY FaultsAssumption
    DEF Execute, ExecuteCancelled, ExecuteUnreported, NoFault, Fault, TypeOK, FaultsTypeOK
  <2> QED BY <1>1, <2>1 DEF TypeOK, Move, JobState
<1>3. ChannelInv'
  BY <1>1, ChannelKept DEF JobState
<1>4. OneTaken'
  BY <1>1 DEF OneTaken, In, Move
<1>5. SlotsInv' /\ CountInv'
  BY <1>1, MoveCount, ExecutorAssumption DEF SlotsInv, CountInv, TypeOK, Gain, JobState
<1>6. ReportedRan'
  BY <1>1 DEF ReportedRan, In, Move
<1> QED BY <1>2, <1>3, <1>4, <1>5, <1>6

LEMMA ReleaseStep ==
  ASSUME ExecutorInv, NEW j \in Jobs, Release(j)
  PROVE  ExecutorInv'
<1> USE DEF ExecutorInv
<1>1. /\ jobState \in [Jobs -> JobState]
      /\ jobState[j] = "ran" /\ Move(j, "released")
      /\ UNCHANGED <<main, ctxDone, run, jobChan, runningCount, reported, faults>>
  BY DEF Release, Releasable, TypeOK, NoFault
<1>2. TypeOK'
  BY <1>1 DEF TypeOK, Move, JobState, FaultsTypeOK
<1>3. ChannelInv'
  BY <1>1, ChannelKept DEF JobState
<1>4. OneTaken'
  BY <1>1 DEF OneTaken, In, Move
<1>5. SlotsInv' /\ CountInv'
  BY <1>1, MoveCount, ExecutorAssumption DEF SlotsInv, CountInv, TypeOK, Gain, JobState
<1>6. ReportedRan'
  BY <1>1 DEF ReportedRan, In, Move
<1> QED BY <1>2, <1>3, <1>4, <1>5, <1>6

\* The goroutine that ends was counted, so the counter does not become negative.
LEMMA DoneStep ==
  ASSUME ExecutorInv, NEW j \in Jobs, Done(j)
  PROVE  ExecutorInv'
<1> USE DEF ExecutorInv
<1>1. /\ jobState \in [Jobs -> JobState]
      /\ jobState[j] = "released" /\ Move(j, "gone")
      /\ runningCount \in Nat /\ runningCount' = runningCount - 1
      /\ UNCHANGED <<main, ctxDone, run, jobChan, reported, faults>>
  BY DEF Done, Counted, TypeOK, NoFault
<1>2. SlotsInv' /\ CountInv'
  BY <1>1, MoveCount, ExecutorAssumption DEF SlotsInv, CountInv, TypeOK, Gain, JobState
<1>3. runningCount' \in Nat
  BY <1>2, FS_CardinalityType DEF CountInv
<1>4. TypeOK'
  BY <1>1, <1>3 DEF TypeOK, Move, JobState, FaultsTypeOK
<1>5. ChannelInv'
  BY <1>1, ChannelKept DEF JobState
<1>6. OneTaken'
  BY <1>1 DEF OneTaken, In, Move
<1>7. ReportedRan'
  BY <1>1 DEF ReportedRan, In, Move
<1> QED BY <1>2, <1>4, <1>5, <1>6, <1>7

LEMMA ExecutorInvInductive ==
  ASSUME ExecutorInv, [Next]_vars
  PROVE  ExecutorInv'
<1>1. CASE Cancel \/ RunWaits \/ RunStops \/ MainReturns \/ Idle \/ UNCHANGED vars
  <2>1. UNCHANGED <<jobChan, jobState, runningCount, reported>>
    BY <1>1 DEF Cancel, RunWaits, RunStops, MainReturns, Idle, vars
  <2>2. FaultsTypeOK'
    BY <1>1, FaultsAssumption
    DEF Cancel, RunWaits, RunStops, MainReturns, Idle, vars, ExecutorInv, TypeOK,
        FaultsTypeOK, Fault, NoFault
  <2>3. /\ main' \in {"up", "down"} /\ ctxDone' \in BOOLEAN
        /\ run' \in {"loop", "waiting", "stopped"}
    BY <1>1
    DEF Cancel, RunWaits, RunStops, MainReturns, Idle, vars, ExecutorInv, TypeOK
  <2>4. TypeOK'
    BY <2>1, <2>2, <2>3 DEF ExecutorInv, TypeOK
  <2> QED
    BY <2>1, <2>4, SameIn
    DEF ExecutorInv, ChannelInv, OneTaken, SlotsInv, Slots, CountInv, Goroutines, ReportedRan
<1> QED
  BY <1>1, HandleStep, TakeStep, AcquireStep, SpawnStep, ExecuteStep, ReleaseStep, DoneStep
  DEF Next, Work

LEMMA ExecutorInvInit == Init => ExecutorInv
<1> SUFFICES ASSUME Init PROVE ExecutorInv
  OBVIOUS
<1>1. \A S : "sent" \notin S => In(S) = {}
  BY DEF Init, In
<1>2. jobChan = <<>> /\ Len(jobChan) = 0 /\ runningCount = 0 /\ reported = {}
  BY DEF Init
<1>3. jobChan \in Seq(Jobs)
  BY <1>2
<1>4. TypeOK
  <2>1. /\ main \in {"up", "down"} /\ ctxDone \in BOOLEAN
        /\ run \in {"loop", "waiting", "stopped"}
        /\ jobState \in [Jobs -> JobState]
    BY DEF Init, JobState
  <2>2. FaultsTypeOK
    BY FaultsAssumption DEF Init, FaultsInit, FaultsTypeOK
  <2> QED BY <1>2, <1>3, <2>1, <2>2 DEF TypeOK
<1>5. \A S : "sent" \notin S => IsFiniteSet(In(S)) /\ Cardinality(In(S)) = 0
  BY <1>1, FS_EmptySet
<1>6. ChannelInv
  BY <1>2, <1>5 DEF ChannelInv
<1>7. OneTaken /\ SlotsInv /\ CountInv /\ ReportedRan
  BY <1>1, <1>2, <1>5, ExecutorAssumption
  DEF OneTaken, SlotsInv, Slots, CountInv, Goroutines, ReportedRan
<1> QED BY <1>4, <1>6, <1>7 DEF ExecutorInv

-----------------------------------------------------------------------------
(***************************************************************************)
(* What heartbeats report.                                                 *)
(***************************************************************************)

LEMMA CountBounds ==
  ASSUME ExecutorInv
  PROVE  CountCoversRunning
<1> DEFINE R == In({"running"})
           A == In({"released"})
<1>1. R \subseteq Goroutines /\ A \subseteq Goroutines
  BY DEF In, Goroutines
<1>2. Goroutines \ A \subseteq Slots
  BY DEF In, Goroutines, Slots
<1>3. /\ IsFiniteSet(A) /\ Cardinality(R) <= runningCount
      /\ IsFiniteSet(Goroutines \ A)
      /\ Cardinality(Goroutines \ A) = Cardinality(Goroutines) - Cardinality(Goroutines \cap A)
  BY <1>1, FS_Subset, FS_Difference DEF ExecutorInv, CountInv
<1>4. Cardinality(Goroutines \ A) <= Cardinality(Slots) /\ Goroutines \cap A = A
  BY <1>1, <1>2, FS_Subset DEF ExecutorInv, SlotsInv
<1>5. /\ Cardinality(Goroutines) \in Nat /\ Cardinality(Slots) \in Nat
      /\ Cardinality(A) \in Nat /\ MaxConcurr \in Nat
  BY <1>3, FS_CardinalityType, ExecutorAssumption DEF ExecutorInv, SlotsInv, CountInv
<1>6. Cardinality(Goroutines) = runningCount /\ Cardinality(Slots) <= MaxConcurr
  BY DEF ExecutorInv, SlotsInv, CountInv
<1> HIDE DEF R, A
<1>7. runningCount <= MaxConcurr + Cardinality(A)
  <2>1. Cardinality(Goroutines \ A) = Cardinality(Goroutines) - Cardinality(A)
    BY <1>3, <1>4
  <2> QED BY <2>1, <1>4, <1>5, <1>6
<1> QED BY <1>3, <1>7 DEF CountCoversRunning, R, A

\* The count that a heartbeat sends is never below the jobs that run and above
\* the slots only by goroutines that end, for any executor: dispatching by the
\* reported count gives a worker no more than it can take because of an
\* undercount.
THEOREM CountSafe == Spec => []CountCoversRunning
<1>1. Init => ExecutorInv
  BY ExecutorInvInit
<1>2. ExecutorInv /\ [Next]_vars => ExecutorInv'
  BY ExecutorInvInductive
<1>3. ExecutorInv => CountCoversRunning
  BY CountBounds
<1> QED BY <1>1, <1>2, <1>3, PTL DEF Spec

\* Type correctness of the executor; runningCount never becomes negative.
THEOREM ExecutorTyped == Spec => []TypeOK
<1>1. Init => ExecutorInv
  BY ExecutorInvInit
<1>2. ExecutorInv /\ [Next]_vars => ExecutorInv'
  BY ExecutorInvInductive
<1>3. ExecutorInv => TypeOK
  BY DEF ExecutorInv
<1> QED BY <1>1, <1>2, <1>3, PTL DEF Spec

-----------------------------------------------------------------------------
(***************************************************************************)
(* The executor implements the worker of the pipeline.                     *)
(***************************************************************************)

Waiting == In({"queued", "held", "acquired"})
Running == In({"running"})

\* The channel, the job that Run holds and the one it starts are all a worker
\* has received and not started.
LEMMA ReceiveHasRoom ==
  ASSUME ExecutorInv, Len(jobChan) < ChanSize
  PROVE  IsFiniteSet(Waiting) /\ Cardinality(Waiting) < ChanSize + 1
<1> DEFINE Q == In({"queued"})
           T == In({"held", "acquired"})
<1>1. Waiting = Q \cup T /\ Q \cap T = {}
  BY DEF Waiting, In
<1>2. IsFiniteSet(T) /\ Cardinality(T) \in Nat /\ Cardinality(T) <= 1
  <2>1. CASE T = {}
    BY <2>1, FS_EmptySet
  <2>2. CASE T # {}
    <3>1. PICK t : t \in T
      BY <2>2
    <3>2. T = {t}
      BY <3>1 DEF ExecutorInv, OneTaken
    <3>3. IsFiniteSet({t}) /\ Cardinality({t}) = 1
      BY FS_Singleton
    <3> HIDE DEF T
    <3>4. IsFiniteSet(T) /\ Cardinality(T) = 1
      BY <3>2, <3>3
    <3> QED BY <3>4
  <2> QED BY <2>1, <2>2
<1>3. IsFiniteSet(Q) /\ Cardinality(Q) = Len(jobChan) /\ Len(jobChan) \in Nat
  BY DEF ExecutorInv, TypeOK, ChannelInv
<1>4. /\ IsFiniteSet(Q \cup T)
      /\ Cardinality(Q \cup T) = Cardinality(Q) + Cardinality(T) - Cardinality(Q \cap T)
  BY <1>2, <1>3, FS_Union
<1>5. Cardinality(Q \cap T) = 0
  BY <1>1, FS_EmptySet
<1> QED BY <1>1, <1>2, <1>3, <1>4, <1>5, ExecutorAssumption

\* A job that has its slot and is about to run leaves room for itself among the
\* jobs that run.
LEMMA StartHasSlot ==
  ASSUME ExecutorInv, NEW j \in Jobs, jobState[j] = "acquired"
  PROVE  IsFiniteSet(Running) /\ Cardinality(Running) < MaxConcurr
<1>1. Running \subseteq Slots \ {j} /\ j \in Slots
  BY DEF Running, Slots, In
<1>2. /\ IsFiniteSet(Slots \ {j})
      /\ Cardinality(Slots \ {j}) = Cardinality(Slots) - 1
  BY <1>1, FS_RemoveElement DEF ExecutorInv, SlotsInv
<1>3. IsFiniteSet(Running) /\ Cardinality(Running) <= Cardinality(Slots \ {j})
  BY <1>1, <1>2, FS_Subset
<1>4. Cardinality(Slots) \in Nat /\ Cardinality(Running) \in Nat
  BY <1>3, FS_CardinalityType DEF ExecutorInv, SlotsInv
<1> QED BY <1>2, <1>3, <1>4, ExecutorAssumption DEF ExecutorInv, SlotsInv

\* While main runs, a worker has what its goroutines hold.
LEMMA AliveUp ==
  /\ main = "up" => /\ Alive(In({"queued", "held", "acquired"})) = Waiting
                     /\ Alive(In({"running"})) = Running
  /\ main' = "up" => /\ Alive(In({"queued", "held", "acquired"}))' = Waiting'
                      /\ Alive(In({"running"}))' = Running'
BY DEF Alive, Waiting, Running

LEMMA PoolStep ==
  ASSUME ExecutorInv, [Next]_vars
  PROVE  [Pool!Next]_(Pool!vars)
<1>1. jobState \in [Jobs -> JobState]
  BY DEF ExecutorInv, TypeOK
<1>2. CASE UNCHANGED <<main, jobState, reported>>
  BY <1>2, SameIn DEF Pool!vars, Alive
<1>3. ASSUME NEW j \in Jobs, Handle(j)
      PROVE  Pool!Receive(j)
  <2>1. /\ main = "up" /\ main' = main /\ reported' = reported
        /\ jobState[j] = "sent" /\ Len(jobChan) < ChanSize /\ Move(j, "queued")
    BY <1>3 DEF Handle
  <2>2. Waiting' = Waiting \cup {j} /\ Running' = Running
    BY <1>1, <2>1 DEF Waiting, Running, In, Move
  <2>3. j \notin Waiting \cup Running \cup reported
    BY <2>1 DEF ExecutorInv, ReportedRan, Waiting, Running, In
  <2>4. Cardinality(Waiting) < ChanSize + 1
    BY <2>1, ReceiveHasRoom
  <2> DEFINE W == Alive(In({"queued", "held", "acquired"}))
             E == Alive(In({"running"}))
  <2>5. W = Waiting /\ E = Running /\ W' = Waiting' /\ E' = Running'
    BY <2>1, AliveUp
  <2> HIDE DEF W, E
  <2>6. /\ j \notin W \cup E \cup reported
        /\ Cardinality(W) < ChanSize + 1
        /\ W' = W \cup {j} /\ E' = E
    BY <2>2, <2>3, <2>4, <2>5
  <2>7. Pool!Cardinality(W) = Cardinality(W)
    BY DEF Pool!Cardinality, Cardinality
  <2> QED BY <2>1, <2>6, <2>7 DEF Pool!Receive, W, E
<1>4. ASSUME NEW j \in Jobs, Spawn(j)
      PROVE  Pool!Start(j)
  <2>1. /\ main = "up" /\ main' = main /\ reported' = reported
        /\ jobState[j] = "acquired" /\ Move(j, "running")
    BY <1>4 DEF Spawn
  <2>2. /\ j \in Waiting
        /\ Waiting' = Waiting \ {j} /\ Running' = Running \cup {j}
    BY <1>1, <2>1 DEF Waiting, Running, In, Move
  <2>3. Cardinality(Running) < MaxConcurr
    BY <2>1, StartHasSlot
  <2> DEFINE W == Alive(In({"queued", "held", "acquired"}))
             E == Alive(In({"running"}))
  <2>4. W = Waiting /\ E = Running /\ W' = Waiting' /\ E' = Running'
    BY <2>1, AliveUp
  <2> HIDE DEF W, E
  <2>5. /\ j \in W
        /\ Cardinality(E) < MaxConcurr
        /\ W' = W \ {j} /\ E' = E \cup {j}
    BY <2>2, <2>3, <2>4
  <2>6. Pool!Cardinality(E) = Cardinality(E)
    BY DEF Pool!Cardinality, Cardinality
  <2> QED BY <2>1, <2>5, <2>6 DEF Pool!Start, W, E
<1>5. ASSUME NEW j \in Jobs, Execute(j) \/ ExecuteCancelled(j) \/ ExecuteUnreported(j)
      PROVE  Pool!Finish(j)
  <2>1. /\ main = "up" /\ main' = main
        /\ reported' \in {reported, reported \cup {j}}
        /\ jobState[j] = "running" /\ Move(j, "ran")
    BY <1>5 DEF Execute, ExecuteCancelled, ExecuteUnreported
  <2>2. /\ j \in Running
        /\ Waiting' = Waiting /\ Running' = Running \ {j}
    BY <1>1, <2>1 DEF Waiting, Running, In, Move
  <2> QED BY <2>1, <2>2, AliveUp DEF Pool!Finish
<1>6. CASE MainReturns
  <2>1. main = "up" /\ main' = "down" /\ reported' = reported
    BY <1>6 DEF MainReturns
  <2> QED BY <2>1 DEF Pool!Next, Pool!Stop, Alive
\* Moves within what has been received, or after a job has run.
<1>7. ASSUME NEW j \in Jobs, Acquire(j) \/ Release(j) \/ Done(j)
      PROVE  UNCHANGED Pool!vars
  <2>1. /\ main' = main /\ reported' = reported
        /\ \/ jobState[j] = "held" /\ Move(j, "acquired")
           \/ jobState[j] = "ran" /\ Move(j, "released")
           \/ jobState[j] = "released" /\ Move(j, "gone")
    BY <1>7 DEF Acquire, Release, Releasable, Done
  <2>2. Waiting' = Waiting /\ Running' = Running
    BY <1>1, <2>1 DEF Waiting, Running, In, Move
  <2> QED BY <2>1, <2>2 DEF Pool!vars, Alive, Waiting, Running
<1>8. CASE Take
  <2>1. /\ main' = main /\ reported' = reported /\ jobChan # <<>>
        /\ Move(Head(jobChan), "held")
    BY <1>8 DEF Take
  <2>2. Head(jobChan) \in Jobs /\ jobState[Head(jobChan)] = "queued"
    BY <2>1 DEF ExecutorInv, TypeOK, ChannelInv
  <2>3. Waiting' = Waiting /\ Running' = Running
    BY <1>1, <2>1, <2>2 DEF Waiting, Running, In, Move
  <2> QED BY <2>1, <2>3 DEF Pool!vars, Alive, Waiting, Running
<1>9. CASE Cancel \/ RunWaits \/ RunStops \/ Idle \/ UNCHANGED vars
  BY <1>2, <1>9 DEF Cancel, RunWaits, RunStops, Idle, vars
<1> QED
  BY <1>3, <1>4, <1>5, <1>6, <1>7, <1>8, <1>9 DEF Next, Work, Pool!Next

\* The goroutines, the channel, the semaphore and the counter of a worker process
\* implement the worker that the rest of the system relies on, for any sizes of
\* the channel and the semaphore: it holds at most one job more than its channel,
\* runs at most MaxConcurr, runs a job once, and reports no job that did not run.
THEOREM ExecutorImplementsPool == Spec => PoolSpec
<1>1. Init => ExecutorInv
  BY ExecutorInvInit
<1>2. ExecutorInv /\ [Next]_vars => ExecutorInv'
  BY ExecutorInvInductive
<1>3. Init => Pool!Init
  BY DEF Init, Pool!Init, Alive, In
<1>4. ExecutorInv /\ [Next]_vars => [Pool!Next]_(Pool!vars)
  BY PoolStep
<1> QED BY <1>1, <1>2, <1>3, <1>4, PTL DEF Spec, PoolSpec, Pool!Spec
=============================================================================
