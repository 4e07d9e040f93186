------------------------------ MODULE MCPaging ------------------------------
(***************************************************************************)
(* The lists instantiated for TLC: the configuration gives every constant  *)
(* its value.                                                              *)
(***************************************************************************)
EXTENDS Paging
=============================================================================
