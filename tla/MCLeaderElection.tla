-------------------------- MODULE MCLeaderElection --------------------------
(***************************************************************************)
(* Leader election instantiated for TLC.                                   *)
(***************************************************************************)
EXTENDS LeaderElection

\* Everything that may happen to a scheduler.
AllFaults == {"kill", "signal", "consumer_error", "campaign_error", "connection_lost"}
=============================================================================
