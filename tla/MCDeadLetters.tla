---------------------------- MODULE MCDeadLetters ---------------------------
(***************************************************************************)
(* The flow of dead letters instantiated for TLC.                          *)
(***************************************************************************)
EXTENDS DeadLetterFlow

SamePriority == [j \in Jobs |-> 0]
=============================================================================
