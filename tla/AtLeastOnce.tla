---------------------------- MODULE AtLeastOnce -----------------------------
(***************************************************************************)
(* What a consumer group promises: a message is pending until it has been  *)
(* handled, and may be pending again after that.  Broker's topics are the  *)
(* pending messages; Consumer implements this.                             *)
(***************************************************************************)
CONSTANT Messages

VARIABLES pending, handled

vars == <<pending, handled>>

Init ==
  /\ pending = Messages
  /\ handled = {}

Handle(m) ==
  /\ m \in pending \cup handled
  /\ handled' = handled \cup {m}
  /\ UNCHANGED pending

\* Commits remove what was handled.
Commit ==
  /\ pending' \subseteq pending
  /\ pending \ pending' \subseteq handled
  /\ UNCHANGED handled

\* Something handled is delivered again.
Redeliver ==
  /\ pending \subseteq pending'
  /\ pending' \ pending \subseteq handled
  /\ UNCHANGED handled

Next == Commit \/ Redeliver \/ \E m \in Messages : Handle(m)

Spec == Init /\ [][Next]_vars
=============================================================================
