----------------------------- MODULE MCExecutor -----------------------------
(***************************************************************************)
(* The executor instantiated for TLC: its configuration gives every        *)
(* constant its value.                                                     *)
(***************************************************************************)
EXTENDS Executor
=============================================================================
