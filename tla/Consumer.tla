------------------------------ MODULE Consumer ------------------------------
(***************************************************************************)
(* Consumer.Run of internal/broker/consumer.go: the members of a group     *)
(* that read one partition of a topic.                                     *)
(*                                                                         *)
(* Offsets are numbered from 1 and the committed offset is the last one    *)
(* that is not read again.  The group gives the partition to one member at *)
(* a time, which reads on from the committed offset; a member that lost it *)
(* may still handle and commit the message it had fetched.                 *)
(***************************************************************************)
EXTENDS Faults

CONSTANTS
  Members,    \* the processes of the group
  NoMember,   \* the partition is not assigned
  Length,     \* the number of messages in the partition
  Poison      \* the offsets of messages whose handler returns an error each time

ASSUME ConsumerAssumption ==
  /\ NoMember \notin Members
  /\ Length \in Nat
  /\ Poison \subseteq 1 .. Length

VARIABLES
  owner,       \* group: the member the partition is assigned to
  committed,   \* group: the committed offset
  stage,       \* where Run is; "ended" when it has returned
  offset,      \* the last offset a member has fetched
  handled      \* history: the offsets whose handler has returned nil

vars == <<owner, committed, stage, offset, handled, faults>>

Offsets == 1 .. Length

TypeOK ==
  /\ owner \in Members \cup {NoMember}
  /\ committed \in 0 .. Length
  /\ stage \in [Members -> {"fetch", "handle", "commit", "ended"}]
  /\ offset \in [Members -> 0 .. Length]
  /\ handled \subseteq Offsets
  /\ FaultsTypeOK

Init ==
  /\ owner = NoMember
  /\ committed = 0
  /\ stage = [c \in Members |-> "fetch"]
  /\ offset = [c \in Members |-> 0]
  /\ handled = {}
  /\ FaultsInit

-----------------------------------------------------------------------------
GoTo(c, place) == stage' = [stage EXCEPT ![c] = place]

\* Variant of StartOffset: kafka.LastOffset, a new group starts at the end.
LastOffset == IF committed = 0 THEN Length ELSE committed

\* A member reads from the committed offset, and a group that has committed
\* nothing from kafka.FirstOffset.
StartOffset == committed

\* The group assigns the partition to a member that is there.
Assign(c) ==
  /\ owner = NoMember
  /\ stage[c] = "fetch"
  /\ owner' = c
  /\ offset' = [offset EXCEPT ![c] = StartOffset]
  /\ NoFault
  /\ UNCHANGED <<committed, stage, handled>>

\* The group takes the partition from its owner, whatever that is doing.
Revoke ==
  /\ owner # NoMember
  /\ owner' = NoMember
  /\ Fault("rebalance")
  /\ UNCHANGED <<committed, stage, offset, handled>>

\* FetchMessage, which blocks at the end of the partition; a temporary error is
\* retried after a second.
Fetch(c) ==
  /\ stage[c] = "fetch"
  /\ owner = c
  /\ offset[c] < Length
  /\ offset' = [offset EXCEPT ![c] = @ + 1]
  /\ GoTo(c, "handle")
  /\ NoFault
  /\ UNCHANGED <<owner, committed, handled>>

Handle(c) ==
  /\ stage[c] = "handle"
  /\ offset[c] \notin Poison
  /\ handled' = handled \cup {offset[c]}
  /\ GoTo(c, "commit")
  /\ NoFault
  /\ UNCHANGED <<owner, committed, offset>>

\* Variant of AfterHandlerError: the error is logged and the message committed.
CommitAfterError == "commit"

\* Run returns the handler's error.
AfterHandlerError == "ended"

\* The handler fails for this message, now and whenever it is delivered.
HandlePoison(c) ==
  /\ stage[c] = "handle"
  /\ offset[c] \in Poison
  /\ GoTo(c, AfterHandlerError)
  /\ owner' = IF owner = c THEN NoMember ELSE owner
  /\ NoFault
  /\ UNCHANGED <<committed, offset, handled>>

\* The handler fails this time.
HandleFails(c) ==
  /\ stage[c] = "handle"
  /\ GoTo(c, AfterHandlerError)
  /\ owner' = IF owner = c THEN NoMember ELSE owner
  /\ Fault("handler_error")
  /\ UNCHANGED <<committed, offset, handled>>

\* CommitMessages: the offset is stored even when it is below the committed one,
\* after the partition was given to another member.
Commit(c) ==
  /\ stage[c] = "commit"
  /\ committed' = offset[c]
  /\ GoTo(c, "fetch")
  /\ NoFault
  /\ UNCHANGED <<owner, offset, handled>>

\* The commit of a member that lost the partition is refused, with an error that is
\* not temporary (an illegal generation, a rebalance): Run returns it.
CommitRefused(c) ==
  /\ stage[c] = "commit"
  /\ owner # c
  /\ GoTo(c, "ended")
  /\ NoFault
  /\ UNCHANGED <<owner, committed, offset, handled>>

\* A temporary error: Run sleeps and goes on with the next message, whose commit
\* covers this one.
CommitFails(c) ==
  /\ stage[c] = "commit"
  /\ GoTo(c, "fetch")
  /\ Fault("commit_error")
  /\ UNCHANGED <<owner, committed, offset, handled>>

\* Run returns anywhere: ctx is done, another error, or the process crashes.
Stop(c) ==
  /\ stage[c] # "ended"
  /\ GoTo(c, "ended")
  /\ owner' = IF owner = c THEN NoMember ELSE owner
  /\ Fault("stop")
  /\ UNCHANGED <<committed, offset, handled>>

\* Somebody starts the process again, and it joins the group.  Nothing in the
\* repository does: deploy/ starts none of the processes modelled here.
Restart(c) ==
  /\ stage[c] = "ended"
  /\ GoTo(c, "fetch")
  /\ offset' = [offset EXCEPT ![c] = 0]
  /\ NoFault
  /\ UNCHANGED <<owner, committed, handled>>

-----------------------------------------------------------------------------
Run(c) ==
  \/ Fetch(c)
  \/ Handle(c)
  \/ HandlePoison(c)
  \/ Commit(c)
  \/ CommitRefused(c)

Next ==
  \/ \E c \in Members : \/ Run(c)
                        \/ Assign(c)
                        \/ HandleFails(c)
                        \/ CommitFails(c)
                        \/ Stop(c)
                        \/ Restart(c)
  \/ Revoke

\* Run goes on and the group assigns the partition.  Nobody has to start a process
\* again.
Fairness ==
  /\ \A c \in Members : WF_vars(Run(c))
  /\ WF_vars(\E c \in Members : Assign(c))

Spec == Init /\ [][Next]_vars /\ Fairness

-----------------------------------------------------------------------------
Group == INSTANCE AtLeastOnce
  WITH Messages <- Offsets, pending <- (committed + 1) .. Length

\* No message is skipped: what is not delivered again has been handled, across
\* failed commits, rebalances and late commits of former owners (Run commits only
\* after the handler has returned nil).
AtLeastOnceSpec == Group!Spec

\* What makes it so: a member never stands ahead of the messages it or the group
\* has handled.
NoneSkipped ==
  /\ TypeOK
  /\ 1 .. committed \subseteq handled
  /\ \A c \in Members :
       /\ stage[c] \in {"fetch", "commit"} => 1 .. offset[c] \subseteq handled
       /\ stage[c] = "handle" => offset[c] > 0 /\ 1 .. (offset[c] - 1) \subseteq handled

\* As long as the group is not left by its last member for good, every message is
\* handled in the end up to the first one whose handler always fails, whichever
\* member had fetched it and ended, was refused its commit or lost the partition
\* (FetchMessage reads on from the committed offset).  The one that always fails ends
\* every member that gets it.
HandledUpToPoison ==
  []<>(\E c \in Members : stage[c] # "ended") =>
    \A o \in Offsets : (\A p \in Poison : o < p) => <>(o \in handled)
=============================================================================
