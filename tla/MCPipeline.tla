----------------------------- MODULE MCPipeline -----------------------------
(***************************************************************************)
(* The pipeline instantiated for TLC.                                      *)
(***************************************************************************)
EXTENDS Pipeline, TLC

\* Two jobs, the younger one more urgent.
UrgentLast == [j \in Jobs |-> j]

\* Worker UUIDs are interchangeable.
WorkerSymmetry == Permutations(Workers)

\* The faults of each kind of run.
NothingRepeated == LosingFaults \cup {"publish_error"}
NothingLost == RepeatingFaults \cup {"publish_error"}
=============================================================================
