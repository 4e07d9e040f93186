----------------------------- MODULE MCConsumer -----------------------------
(***************************************************************************)
(* The consumer group instantiated for TLC: its configuration gives every  *)
(* constant its value.                                                     *)
(***************************************************************************)
EXTENDS Consumer
=============================================================================
