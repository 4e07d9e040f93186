--------------------------- MODULE MCStatusCache ----------------------------
(***************************************************************************)
(* The status cache instantiated for TLC.                                  *)
(***************************************************************************)
EXTENDS StatusCache, TLC

\* Requests are interchangeable.
ReaderSymmetry == Permutations(Readers)
=============================================================================
