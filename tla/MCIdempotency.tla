---------------------------- MODULE MCIdempotency ---------------------------
(***************************************************************************)
(* Submissions for TLC: who sends what under which key.                    *)
(***************************************************************************)
EXTENDS Idempotency

CONSTANTS r1, r2, r3, r4, k1

\* Under one key r1, r2 with another content of the same hash and r3 with another
\* hash; r4 has the content of r1 and no header.
SomeTypes == [r \in Requests |-> IF r = r2 THEN <<"job", "1">> ELSE <<"job">>]
SomePayloads ==
  [r \in Requests |-> IF r \in {r2, r3} THEN <<"2">> ELSE <<"1", "2">>]
OneKey == [r \in Requests |-> IF r = r4 THEN NoHeader ELSE k1]
=============================================================================
