--------------------------- MODULE ProcessProofs ----------------------------
(***************************************************************************)
(* Proofs about Consumer and LeaderElection, for any group, any length of  *)
(* the partition, any messages that always fail, any set of schedulers and *)
(* any faults.                                                             *)
(***************************************************************************)
EXTENDS Consumer, LeaderElection, TLAPS

(***************************************************************************)
(* A member moves ahead only over messages that were handled before.       *)
(***************************************************************************)
LEMMA NoneSkippedStep ==
  ASSUME NoneSkipped, [Next]_vars
  PROVE  NoneSkipped'
<1> USE FaultsAssumption, ConsumerAssumption
         DEF NoneSkipped, TypeOK, FaultsTypeOK, Offsets, Fault, NoFault, GoTo
<1>1. CASE UNCHANGED vars
  BY <1>1 DEF vars
<1>2. CASE Revoke
  BY <1>2 DEF Revoke
<1>3. ASSUME NEW c \in Members,
             Run(c) \/ Assign(c) \/ HandleFails(c) \/ CommitFails(c) \/ Stop(c)
               \/ Restart(c)
      PROVE  NoneSkipped'
  <2>1. CASE Fetch(c)
    BY <2>1 DEF Fetch
  <2>2. CASE Handle(c)
    <3>1. /\ offset[c] \in 1 .. Length
          /\ 1 .. (offset[c] - 1) \subseteq handled
          /\ handled' = handled \cup {offset[c]}
          /\ stage' = [stage EXCEPT ![c] = "commit"]
          /\ UNCHANGED <<owner, committed, offset, faults>>
      BY <2>2 DEF Handle
    <3>2. 1 .. offset[c] \subseteq handled'
      BY <3>1
    <3>3. TypeOK'
      BY <3>1
    <3>4. (1 .. committed \subseteq handled)'
      BY <3>1
    <3>5. ASSUME NEW d \in Members
          PROVE  /\ stage[d]' \in {"fetch", "commit"} => 1 .. offset[d]' \subseteq handled'
                 /\ stage[d]' = "handle"
                      => offset[d]' > 0 /\ 1 .. (offset[d]' - 1) \subseteq handled'
      BY <3>1, <3>2
    <3> QED
      BY <3>3, <3>4, <3>5
  <2>3. CASE HandlePoison(c)
    BY <2>3 DEF HandlePoison, AfterHandlerError
  <2>4. CASE Commit(c)
    BY <2>4 DEF Commit
  <2>5. CASE CommitRefused(c)
    BY <2>5 DEF CommitRefused
  <2>6. CASE Assign(c)
    BY <2>6 DEF Assign, StartOffset
  <2>7. CASE HandleFails(c)
    BY <2>7 DEF HandleFails, AfterHandlerError
  <2>8. CASE CommitFails(c)
    BY <2>8 DEF CommitFails
  <2>9. CASE Stop(c)
    BY <2>9 DEF Stop
  <2>10. CASE Restart(c)
    BY <2>10 DEF Restart
  <2> QED
    BY <1>3, <2>1, <2>2, <2>3, <2>4, <2>5, <2>6, <2>7, <2>8, <2>9, <2>10
    DEF Run
<1> QED
  BY <1>1, <1>2, <1>3 DEF Next

(***************************************************************************)
(* What is committed was handled, and no member is ahead of what was       *)
(* handled, whatever is lost, repeated or reassigned: a message below the  *)
(* committed offset is never one that nobody handled.                      *)
(***************************************************************************)
THEOREM NoMessageSkipped == Spec => []NoneSkipped
<1>1. Init => NoneSkipped
  BY FaultsAssumption, ConsumerAssumption
  DEF Init, FaultsInit, NoneSkipped, TypeOK, FaultsTypeOK, Offsets
<1>2. NoneSkipped /\ [Next]_vars => NoneSkipped'
  BY NoneSkippedStep
<1> QED
  BY <1>1, <1>2, PTL DEF Spec

(***************************************************************************)
(* Every step is a handling, a commit of what was handled, a redelivery of *)
(* what was handled, or invisible.                                         *)
(***************************************************************************)
LEMMA GroupStep ==
  ASSUME NoneSkipped, [Next]_vars
  PROVE  [Group!Next]_(Group!vars)
<1> USE FaultsAssumption, ConsumerAssumption DEF NoneSkipped, TypeOK, Offsets
<1>1. CASE UNCHANGED <<committed, handled>>
  BY <1>1 DEF Group!vars
<1>2. ASSUME NEW c \in Members, Handle(c)
      PROVE  [Group!Next]_(Group!vars)
  <2>1. offset[c] \in Offsets /\ committed' = committed
        /\ handled' = handled \cup {offset[c]}
    BY <1>2 DEF Handle
  <2>2. offset[c] \in ((committed + 1) .. Length) \cup handled
    BY <2>1
  <2>3. Group!Handle(offset[c])
    BY <2>1, <2>2 DEF Group!Handle
  <2> QED
    BY <2>1, <2>3 DEF Group!Next
<1>3. ASSUME NEW c \in Members, Commit(c)
      PROVE  [Group!Next]_(Group!vars)
  <2>1. /\ offset[c] \in 0 .. Length
        /\ committed \in 0 .. Length
        /\ committed' = offset[c]
        /\ handled' = handled
        /\ 1 .. offset[c] \subseteq handled
        /\ 1 .. committed \subseteq handled
    BY <1>3 DEF Commit
  <2>2. CASE committed <= offset[c]
    <3>1. /\ ((committed + 1) .. Length)' \subseteq (committed + 1) .. Length
          /\ ((committed + 1) .. Length) \ ((committed + 1) .. Length)' \subseteq handled
      BY <2>1, <2>2
    <3> QED
      BY <2>1, <3>1 DEF Group!Commit, Group!Next
  <2>3. CASE offset[c] < committed
    <3>1. /\ (committed + 1) .. Length \subseteq ((committed + 1) .. Length)'
          /\ ((committed + 1) .. Length)' \ ((committed + 1) .. Length) \subseteq handled
      BY <2>1, <2>3
    <3> QED
      BY <2>1, <3>1 DEF Group!Redeliver, Group!Next
  <2> QED
    BY <2>1, <2>2, <2>3
<1> QED
  BY <1>1, <1>2, <1>3
  DEF Next, Run, vars, Fetch, HandlePoison, CommitRefused, Assign, HandleFails,
      CommitFails, Stop, Restart, Revoke

(***************************************************************************)
(* A consumer group implements AtLeastOnce: no message of the partition is *)
(* passed over, whatever is lost, repeated or reassigned.                  *)
(***************************************************************************)
THEOREM ConsumerImplements == Spec => AtLeastOnceSpec
<1>1. Init => Group!Init
  BY ConsumerAssumption DEF Init, Group!Init, Offsets
<1>2. NoneSkipped /\ [Next]_vars => [Group!Next]_(Group!vars)
  BY GroupStep
<1> QED
  BY <1>1, <1>2, NoMessageSkipped, PTL DEF Spec, AtLeastOnceSpec, Group!Spec

-----------------------------------------------------------------------------
(***************************************************************************)
(* Every step that gives the lock finds it free, and every step that frees *)
(* it belongs to a process without an open connection afterwards.          *)
(***************************************************************************)
LEMMA ElectionStep ==
  ASSUME ElectionInv, [ElectionNext]_electionVars
  PROVE  ElectionInv'
<1> USE FaultsAssumption, LeaderElectionAssumption
         DEF ElectionInv, ElectionTypeOK, FaultsTypeOK, Fault, NoFault
<1>1. CASE UNCHANGED electionVars
  BY <1>1 DEF electionVars, processVars
<1>2. ASSUME NEW s \in Schedulers,
             \/ Progress(s) \/ IdleTick(s)
             \/ CampaignError(s) \/ Signal(s)
             \/ ConsumerFails(s) \/ Kill(s)
             \/ Start(s) \/ ConnectionFails(s)
      PROVE  ElectionInv'
  <2>1. CASE Campaign(s)
    BY <2>1 DEF Campaign, Granted
  <2>2. CASE ShutDown(s)
    BY <2>2 DEF ShutDown, Unlocked, ConnAfterResign
  <2>3. CASE LoopStopped(s)
    BY <2>3 DEF LoopStopped
  <2>4. CASE Close(s)
    BY <2>4 DEF Close, Gone
  <2>5. CASE SessionEnds(s)
    BY <2>5 DEF SessionEnds, processVars
  <2>6. CASE IdleTick(s)
    BY <2>6, <1>1 DEF IdleTick
  <2>7. CASE CampaignError(s)
    BY <2>7 DEF CampaignError, Granted, ConnAfterError
  <2>8. CASE Signal(s)
    BY <2>8 DEF Signal
  <2>9. CASE ConsumerFails(s)
    BY <2>9 DEF ConsumerFails
  <2>10. CASE Kill(s)
    BY <2>10 DEF Kill, Gone
  <2>11. CASE Start(s)
    BY <2>11 DEF Start
  <2>12. CASE ConnectionFails(s)
    BY <2>12 DEF ConnectionFails
  <2> QED
    BY <1>2, <2>1, <2>2, <2>3, <2>4, <2>5, <2>6, <2>7, <2>8, <2>9, <2>10,
       <2>11, <2>12 DEF Progress
<1> QED
  BY <1>1, <1>2 DEF ElectionNext

(***************************************************************************)
(* A connection that an elector keeps and that works holds the lock, a     *)
(* process whose loop leads keeps one, and a process that is down does not *)
(* believe that it leads, whatever is killed, signalled, cut off or        *)
(* restarted.                                                              *)
(***************************************************************************)
THEOREM ElectionSafe == ElectionSpec => []ElectionInv
<1>1. ElectionInit => ElectionInv
  BY FaultsAssumption, LeaderElectionAssumption
  DEF ElectionInit, FaultsInit, ElectionInv, ElectionTypeOK, FaultsTypeOK
<1>2. ElectionInv /\ [ElectionNext]_electionVars => ElectionInv'
  BY ElectionStep
<1> QED
  BY <1>1, <1>2, PTL DEF ElectionSpec

(***************************************************************************)
(* The dispatcher and the monitor run in at most one scheduler process     *)
(* whose connection works, whatever is killed, signalled or restarted.     *)
(***************************************************************************)
THEOREM OneLeader == ElectionSpec => []AtMostOneLeader
<1>1. ElectionInv => AtMostOneLeader
  BY DEF ElectionInv, ElectionTypeOK, AtMostOneLeader, Leads
<1> QED
  BY <1>1, ElectionSafe, PTL
=============================================================================
