--------------------------- MODULE MCRateLimiter ----------------------------
(***************************************************************************)
(* The rate limiter instantiated for TLC: its configuration gives every    *)
(* constant its value.                                                     *)
(***************************************************************************)
EXTENDS RateLimiter
=============================================================================
