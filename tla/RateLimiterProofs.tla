-------------------------- MODULE RateLimiterProofs -------------------------
(***************************************************************************)
(* Proofs about RateLimiter, for any number of requests, any limit, window *)
(* and deadline, and any faults.                                           *)
(***************************************************************************)
EXTENDS RateLimiter, FiniteSetTheorems, TLAPS

(***************************************************************************)
(* The numbers of the windows.                                             *)
(***************************************************************************)
LEMMA WindowsInOrder ==
  ASSUME NEW t \in Nat, NEW u \in Nat, t <= u, NEW n \in Nat \ {0}
  PROVE  t \div n \in Nat /\ u \div n \in Nat /\ t \div n <= u \div n
OBVIOUS

LEMMA WindowTyped ==
  ASSUME NEW t \in Time
  PROVE  WindowOf(t) \in Windows
BY WindowsInOrder, RateLimiterAssumption DEF Time, Windows, WindowOf

-----------------------------------------------------------------------------
(***************************************************************************)
(* The counter of a window never exceeds the requests of the window that   *)
(* have come past INCR, and the answers to INCR that were lost: a counter  *)
(* that expires only loses count.  A request that is refused read such a   *)
(* counter, and what it counted stays counted.                             *)
(***************************************************************************)

\* The requests of window w that have come past INCR.
Passed(w) == {q \in Requests : key[q] = w /\ stage[q] \notin {"idle", "incr"}}

\* The other requests that arrived in the window of r.
Others(r) == {q \in Requests \ {r} : /\ stage[q] # "idle"
                                     /\ arrived[q] \div Window = arrived[r] \div Window}

CountBounded ==
  \A w \in Windows : lost[w] <= faults /\ counter[w] <= lost[w] + Cardinality(Passed(w))

KeyOfArrival == \A q \in Requests : stage[q] # "idle" => key[q] = arrived[q] \div Window

LimiterInv ==
  /\ TypeOK
  /\ CountBounded
  /\ KeyOfArrival
  /\ RefusedOnlyWhenBusy

LEMMA RequestsFinite ==
  /\ IsFiniteSet(Requests)
  /\ Cardinality(Requests) = NumRequests
  /\ \A S \in SUBSET Requests : /\ IsFiniteSet(S)
                                /\ Cardinality(S) \in Nat /\ Cardinality(S) <= NumRequests
<1>1. IsFiniteSet(Requests) /\ Cardinality(Requests) = NumRequests
  BY FS_Interval, RateLimiterAssumption DEF Requests
<1>2. ASSUME NEW S \in SUBSET Requests
      PROVE  /\ IsFiniteSet(S)
             /\ Cardinality(S) \in Nat /\ Cardinality(S) <= NumRequests
  BY <1>1, FS_Subset, FS_CardinalityType
<1> QED BY <1>1, <1>2

LEMMA MoreRequests ==
  ASSUME NEW S \in SUBSET Requests, NEW T \in SUBSET Requests, S \subseteq T
  PROVE  /\ Cardinality(S) \in Nat /\ Cardinality(T) \in Nat
         /\ Cardinality(S) <= Cardinality(T)
BY RequestsFinite, FS_Subset

\* A request that has arrived keeps its window and never becomes idle again, one
\* past INCR does not return to it, and no fault or lost answer is taken back.
LEMMA OnlyForward ==
  ASSUME TypeOK, [Next]_vars
  PROVE  /\ faults \in Nat /\ faults' \in Nat /\ faults <= faults'
         /\ \A w \in Windows : lost[w] \in Nat /\ lost'[w] \in Nat /\ lost[w] <= lost'[w]
         /\ \A q \in Requests : stage[q] # "idle" =>
              /\ key'[q] = key[q] /\ arrived'[q] = arrived[q]
              /\ stage'[q] # "idle"
         /\ \A q \in Requests : stage[q] \notin {"idle", "incr"} =>
              stage'[q] \notin {"idle", "incr"}
<1> USE DEF TypeOK, FaultsTypeOK, Fault, NoFault
<1>1. faults \in Nat /\ faults' \in Nat /\ faults <= faults'
  BY FaultsAssumption
  DEF Next, Arrive, Incr, IncrFirst, Expire, ExpireFails, IncrAnswerLost, IncrFails, Crash,
      Tick, vars
<1>0. \A w \in Windows : lost[w] \in Nat /\ lost'[w] \in Nat /\ lost[w] <= lost'[w]
  BY FaultsAssumption
  DEF Next, Arrive, Incr, IncrFirst, Expire, ExpireFails, IncrAnswerLost, IncrFails, Crash,
      Tick, vars
<1>2. CASE UNCHANGED requestVars
  BY <1>0, <1>1, <1>2 DEF requestVars
<1>3. ASSUME NEW r \in Requests, Arrive(r)
      PROVE  \A q \in Requests :
               /\ stage[q] # "idle" => /\ key'[q] = key[q] /\ arrived'[q] = arrived[q]
                                       /\ stage'[q] # "idle"
               /\ stage[q] \notin {"idle", "incr"} => stage'[q] \notin {"idle", "incr"}
  BY <1>3 DEF Arrive
<1>4. ASSUME NEW r \in Requests,
             \/ Incr(r) \/ IncrFirst(r) \/ Expire(r) \/ ExpireFails(r) \/ IncrFails(r)
             \/ Crash(r)
      PROVE  \A q \in Requests :
               /\ stage[q] # "idle" => /\ key'[q] = key[q] /\ arrived'[q] = arrived[q]
                                       /\ stage'[q] # "idle"
               /\ stage[q] \notin {"idle", "incr"} => stage'[q] \notin {"idle", "incr"}
  <2>1. /\ UNCHANGED <<key, arrived>>
        /\ \E st \in {"expire", "served", "refused", "failed"} :
             stage' = [stage EXCEPT ![r] = st]
    BY <1>4 DEF Incr, IncrFirst, Expire, ExpireFails, IncrFails, Crash, Decide
  <2> QED BY <2>1
<1> QED
  BY <1>0, <1>1, <1>2, <1>3, <1>4 DEF Next, IncrAnswerLost, Tick, vars

LEMMA SetsGrow ==
  ASSUME TypeOK, [Next]_vars
  PROVE  /\ \A w : Cardinality(Passed(w)) \in Nat /\ Cardinality(Passed(w)') \in Nat
                   /\ Cardinality(Passed(w)) <= Cardinality(Passed(w)')
         /\ \A r \in Requests : stage[r] # "idle" =>
              /\ Cardinality(Others(r)) \in Nat /\ Cardinality(Others(r)') \in Nat
              /\ Cardinality(Others(r)) <= Cardinality(Others(r)')
<1>1. ASSUME NEW w
      PROVE  /\ Cardinality(Passed(w)) \in Nat /\ Cardinality(Passed(w)') \in Nat
             /\ Cardinality(Passed(w)) <= Cardinality(Passed(w)')
  <2>1. /\ Passed(w) \in SUBSET Requests /\ Passed(w)' \in SUBSET Requests
        /\ Passed(w) \subseteq Passed(w)'
    BY OnlyForward DEF Passed
  <2> QED BY <2>1, MoreRequests
<1>2. ASSUME NEW r \in Requests, stage[r] # "idle"
      PROVE  /\ Cardinality(Others(r)) \in Nat /\ Cardinality(Others(r)') \in Nat
             /\ Cardinality(Others(r)) <= Cardinality(Others(r)')
  <2>1. /\ Others(r) \in SUBSET Requests /\ Others(r)' \in SUBSET Requests
        /\ Others(r) \subseteq Others(r)'
    BY <1>2, OnlyForward DEF Others
  <2> QED BY <2>1, MoreRequests
<1> QED BY <1>1, <1>2

\* INCR counts the request that sends it.
LEMMA PassedGrows ==
  ASSUME TypeOK, NEW r \in Requests, stage[r] = "incr",
         NEW st \in {"expire", "served", "refused"}, stage' = [stage EXCEPT ![r] = st],
         key' = key
  PROVE  Cardinality(Passed(key[r])') = Cardinality(Passed(key[r])) + 1
<1>1. /\ Passed(key[r]) \in SUBSET Requests
      /\ r \notin Passed(key[r])
      /\ Passed(key[r])' = Passed(key[r]) \cup {r}
  BY DEF Passed, TypeOK
<1> QED BY <1>1, RequestsFinite, FS_AddElement

LEMMA CountStep ==
  ASSUME TypeOK, CountBounded, [Next]_vars
  PROVE  \A w \in Windows : /\ counter'[w] \in Nat
                            /\ counter'[w] <= lost'[w] + Cardinality(Passed(w)')
<1> SUFFICES ASSUME NEW w \in Windows
             PROVE  counter'[w] \in Nat /\ counter'[w] <= lost'[w] + Cardinality(Passed(w)')
  OBVIOUS
<1>1. /\ counter[w] \in Nat /\ lost[w] \in Nat /\ lost'[w] \in Nat /\ lost[w] <= lost'[w]
      /\ Cardinality(Passed(w)) \in Nat /\ Cardinality(Passed(w)') \in Nat
      /\ Cardinality(Passed(w)) <= Cardinality(Passed(w)')
      /\ counter[w] <= lost[w] + Cardinality(Passed(w))
  BY OnlyForward, SetsGrow DEF TypeOK, CountBounded
<1>2. CASE counter'[w] = counter[w] \/ counter'[w] = 0
  BY <1>1, <1>2
<1>3. ASSUME NEW r \in Requests, Incr(r) \/ IncrFirst(r), w = key[r]
      PROVE  counter'[w] \in Nat /\ counter'[w] <= lost'[w] + Cardinality(Passed(w)')
  <2>1. /\ counter'[w] = counter[w] + 1
        /\ stage[r] = "incr" /\ key' = key
        /\ \E st \in {"expire", "served", "refused"} : stage' = [stage EXCEPT ![r] = st]
    BY <1>3 DEF Incr, IncrFirst, Incremented, Decide, TypeOK
  <2>2. Cardinality(Passed(w)') = Cardinality(Passed(w)) + 1
    BY <1>3, <2>1, PassedGrows DEF Passed
  <2> QED BY <1>1, <2>1, <2>2
<1>4. ASSUME NEW r \in Requests, IncrAnswerLost(r), w = key[r]
      PROVE  counter'[w] \in Nat /\ counter'[w] <= lost'[w] + Cardinality(Passed(w)')
  <2>1. counter'[w] = counter[w] + 1 /\ lost'[w] = lost[w] + 1
    BY <1>4 DEF IncrAnswerLost, Incremented, TypeOK
  <2> QED BY <1>1, <2>1
<1>5. \/ counter'[w] = counter[w] \/ counter'[w] = 0
      \/ \E r \in Requests : (Incr(r) \/ IncrFirst(r) \/ IncrAnswerLost(r)) /\ w = key[r]
  BY DEF Next, Arrive, Incr, IncrFirst, Expire, ExpireFails, IncrAnswerLost, IncrFails, Crash,
         Tick, Incremented, redisVars, vars, TypeOK
<1> QED BY <1>2, <1>3, <1>4, <1>5

\* Every lost answer is a fault.
LEMMA LostStep ==
  ASSUME TypeOK, CountBounded, [Next]_vars
  PROVE  /\ lost' \in [Windows -> 0 .. MaxFaults]
         /\ \A w \in Windows : lost'[w] <= faults'
<1> USE FaultsAssumption DEF TypeOK, FaultsTypeOK, CountBounded
<1>1. CASE lost' = lost
  BY <1>1, OnlyForward
<1>2. ASSUME NEW r \in Requests, IncrAnswerLost(r)
      PROVE  /\ lost' \in [Windows -> 0 .. MaxFaults]
             /\ \A w \in Windows : lost'[w] <= faults'
  <2>1. /\ faults < MaxFaults /\ faults' = faults + 1
        /\ lost' = [lost EXCEPT ![key[r]] = @ + 1]
    BY <1>2 DEF IncrAnswerLost, Fault
  <2>2. \A w \in Windows : lost'[w] \in Nat /\ lost'[w] <= faults + 1
    BY <2>1
  <2> QED BY <2>1, <2>2
<1> QED
  BY <1>1, <1>2
  DEF Next, Arrive, Incr, IncrFirst, Expire, ExpireFails, IncrFails, Crash, Tick, vars

LEMMA LimiterTyped ==
  ASSUME TypeOK, CountBounded, [Next]_vars
  PROVE  TypeOK'
<1>1. \A w \in Windows : counter'[w] \in 0 .. NumRequests + MaxFaults
  <2> SUFFICES ASSUME NEW w \in Windows
               PROVE  counter'[w] \in 0 .. NumRequests + MaxFaults
    OBVIOUS
  <2>1. counter'[w] \in Nat /\ counter'[w] <= lost'[w] + Cardinality(Passed(w)')
    BY CountStep
  <2>2. Passed(w)' \in SUBSET Requests
    BY DEF Passed
  <2>3. Cardinality(Passed(w)') \in Nat /\ Cardinality(Passed(w)') <= NumRequests
    BY <2>2, RequestsFinite
  <2>4. lost'[w] \in Nat /\ lost'[w] <= MaxFaults
    BY LostStep, FaultsAssumption
  <2> QED BY <2>1, <2>3, <2>4, FaultsAssumption, RateLimiterAssumption
<1>2. counter' = [w \in Windows |-> counter'[w]]
  BY DEF Next, Arrive, Incr, IncrFirst, Expire, ExpireFails, IncrAnswerLost, IncrFails, Crash,
         Tick, Incremented, redisVars, vars, TypeOK
<1>3. counter' \in [Windows -> 0 .. NumRequests + MaxFaults]
  BY <1>1, <1>2
<1>4. FaultsTypeOK'
  BY FaultsAssumption
  DEF TypeOK, FaultsTypeOK, Next, Arrive, Incr, IncrFirst, Expire, ExpireFails,
      IncrAnswerLost, IncrFails, Crash, Tick, Fault, NoFault, vars
<1> SUFFICES /\ expires' \in [Windows -> 0 .. NoTTL]
             /\ stage' \in [Requests -> {"idle", "incr", "expire", "served", "refused", "failed"}]
             /\ key' \in [Requests -> Windows]
             /\ arrived' \in [Requests -> Time]
             /\ decided' \in [Requests -> Time]
             /\ now' \in Time
  BY <1>3, <1>4, LostStep DEF TypeOK
<1>5. CASE UNCHANGED vars
  BY <1>5 DEF vars, redisVars, requestVars, TypeOK
<1>6. ASSUME NEW r \in Requests, Arrive(r)
      PROVE  /\ UNCHANGED <<expires, decided, now>>
             /\ stage' = [stage EXCEPT ![r] = "incr"]
             /\ key' \in [Requests -> Windows]
             /\ arrived' \in [Requests -> Time]
  BY <1>6, WindowTyped DEF Arrive, redisVars, TypeOK
<1>7. ASSUME NEW r \in Requests, Incr(r) \/ ExpireFails(r)
      PROVE  /\ UNCHANGED <<expires, key, arrived, now>>
             /\ \E st \in {"served", "refused"} : stage' = [stage EXCEPT ![r] = st]
             /\ decided' = [decided EXCEPT ![r] = now]
  BY <1>7 DEF Incr, ExpireFails, Decide, redisVars
<1>8. ASSUME NEW r \in Requests, Expire(r)
      PROVE  /\ UNCHANGED <<key, arrived, now>>
             /\ expires' \in [Windows -> 0 .. NoTTL]
             /\ \E st \in {"served", "refused"} : stage' = [stage EXCEPT ![r] = st]
             /\ decided' = [decided EXCEPT ![r] = now]
  <2>1. now + Window \in 0 .. NoTTL
    BY RateLimiterAssumption DEF TypeOK, Time, NoTTL
  <2> QED BY <1>8, <2>1 DEF Expire, Decide, TypeOK
<1>9. ASSUME NEW r \in Requests, IncrFirst(r) \/ IncrAnswerLost(r) \/ IncrFails(r) \/ Crash(r)
      PROVE  /\ UNCHANGED <<expires, key, arrived, decided, now>>
             /\ \/ stage' = stage
                \/ \E st \in {"expire", "failed"} : stage' = [stage EXCEPT ![r] = st]
  BY <1>9 DEF IncrFirst, IncrAnswerLost, IncrFails, Crash, redisVars, requestVars
<1>10. CASE Tick
  <2>1. now' \in Time
    BY <1>10, RateLimiterAssumption DEF Tick, TypeOK, Time
  <2>2. NoTTL \in 0 .. NoTTL
    BY RateLimiterAssumption DEF NoTTL
  <2>3. expires' \in [Windows -> 0 .. NoTTL]
    BY <1>10, <2>2 DEF Tick, TypeOK
  <2> QED BY <1>10, <2>1, <2>3 DEF Tick, TypeOK, requestVars
<1> QED
  BY <1>5, <1>6, <1>7, <1>8, <1>9, <1>10 DEF Next, TypeOK

LEMMA KeyStep ==
  ASSUME TypeOK, KeyOfArrival, [Next]_vars
  PROVE  KeyOfArrival'
<1> SUFFICES ASSUME NEW q \in Requests, stage'[q] # "idle"
             PROVE  key'[q] = arrived'[q] \div Window
  BY DEF KeyOfArrival
<1>1. CASE stage[q] # "idle"
  BY <1>1, OnlyForward DEF KeyOfArrival
<1>2. CASE stage[q] = "idle"
  <2>1. Arrive(q)
    BY <1>2
    DEF Next, Arrive, Incr, IncrFirst, Expire, ExpireFails, IncrAnswerLost, IncrFails, Crash,
        Tick, Decide, requestVars, vars, TypeOK
  <2> QED BY <2>1 DEF Arrive, WindowOf, TypeOK
<1> QED BY <1>1, <1>2

LEMMA RefusedStep ==
  ASSUME LimiterInv, [Next]_vars
  PROVE  RefusedOnlyWhenBusy'
<1> SUFFICES ASSUME NEW r \in Requests, stage'[r] = "refused"
             PROVE  Limit <= lost'[arrived'[r] \div Window] + Cardinality(Others(r)')
  BY DEF RefusedOnlyWhenBusy, Others
<1> USE DEF LimiterInv
<1>1. stage[r] = "refused" \/ Incr(r)
  <2>1. Within(1)
    BY RateLimiterAssumption DEF Within
  <2> QED
    BY <2>1
    DEF Next, Arrive, Incr, IncrFirst, Expire, ExpireFails, IncrAnswerLost, IncrFails, Crash,
        Tick, Decide, requestVars, vars, TypeOK
<1>2. /\ key[r] = arrived[r] \div Window /\ arrived'[r] = arrived[r]
      /\ lost[key[r]] \in Nat /\ lost'[key[r]] \in Nat /\ lost[key[r]] <= lost'[key[r]]
      /\ Cardinality(Others(r)) \in Nat /\ Cardinality(Others(r)') \in Nat
      /\ Cardinality(Others(r)) <= Cardinality(Others(r)')
  BY <1>1, OnlyForward, SetsGrow DEF Incr, KeyOfArrival, TypeOK
<1>3. Limit <= lost[key[r]] + Cardinality(Others(r))
  <2>1. CASE stage[r] = "refused"
    BY <1>2, <2>1 DEF RefusedOnlyWhenBusy, Others
  <2>2. CASE Incr(r)
    <3>1. /\ stage[r] = "incr" /\ key[r] \in Windows
          /\ ~Within(counter[key[r]] + 1)
      BY <2>2 DEF Incr, Decide, TypeOK
    <3>2. /\ counter[key[r]] \in Nat
          /\ counter[key[r]] <= lost[key[r]] + Cardinality(Passed(key[r]))
      BY <3>1 DEF CountBounded, TypeOK
    <3>3. /\ Passed(key[r]) \in SUBSET Requests /\ Others(r) \in SUBSET Requests
          /\ Passed(key[r]) \subseteq Others(r)
      BY <3>1 DEF Passed, Others, KeyOfArrival
    <3>4. /\ Cardinality(Passed(key[r])) \in Nat /\ Cardinality(Others(r)) \in Nat
          /\ Cardinality(Passed(key[r])) <= Cardinality(Others(r))
      BY <3>3, MoreRequests
    <3>5. Limit <= counter[key[r]]
      BY <3>1, <3>2, RateLimiterAssumption DEF Within
    <3> QED BY <1>2, <3>2, <3>4, <3>5, RateLimiterAssumption
  <2> QED BY <1>1, <2>1, <2>2
<1> QED BY <1>2, <1>3, RateLimiterAssumption

LEMMA LimiterStep ==
  ASSUME LimiterInv, [Next]_vars
  PROVE  LimiterInv'
<1>1. TypeOK' /\ KeyOfArrival' /\ RefusedOnlyWhenBusy'
  BY LimiterTyped, KeyStep, RefusedStep DEF LimiterInv
<1>2. CountBounded'
  BY CountStep, LostStep DEF LimiterInv, CountBounded
<1> QED BY <1>1, <1>2 DEF LimiterInv

LEMMA LimiterInit == Init => LimiterInv
<1> SUFFICES ASSUME Init PROVE LimiterInv
  OBVIOUS
<1>1. 0 \in Windows /\ 0 \in Time /\ NoTTL \in 0 .. NoTTL /\ NumRequests + MaxFaults \in Nat
  <2>1. 0 \in Time
    BY RateLimiterAssumption DEF Time
  <2>2. 0 \in Windows
    BY <2>1, RateLimiterAssumption, WindowsInOrder DEF Windows
  <2> QED BY <2>1, <2>2, RateLimiterAssumption, FaultsAssumption DEF NoTTL
<1>2. TypeOK
  BY <1>1, FaultsAssumption DEF Init, TypeOK, FaultsInit, FaultsTypeOK
<1>3. CountBounded
  <2>1. \A w : Passed(w) = {}
    BY DEF Init, Passed
  <2> QED BY <2>1, FS_EmptySet DEF Init, FaultsInit, CountBounded
<1> QED BY <1>2, <1>3 DEF Init, LimiterInv, KeyOfArrival, RefusedOnlyWhenBusy

(***************************************************************************)
(* Every variable keeps its type: in particular no counter in Redis grows  *)
(* beyond the requests and the lost answers, and no TTL ends after NoTTL.  *)
(***************************************************************************)
THEOREM LimiterTypeCorrect == Spec => []TypeOK
<1>1. LimiterInv /\ [Next]_vars => LimiterInv'
  BY LimiterStep
<1>2. LimiterInv => TypeOK
  BY DEF LimiterInv
<1> QED BY <1>1, <1>2, LimiterInit, PTL DEF Spec

(***************************************************************************)
(* A request is answered 429 only when a limit of other requests, less the *)
(* answers of Redis that were lost, came from its address in its window,   *)
(* whatever fails and however the steps of the requests interleave.        *)
(***************************************************************************)
THEOREM NobodyLockedOut == Spec => []RefusedOnlyWhenBusy
<1>1. LimiterInv /\ [Next]_vars => LimiterInv'
  BY LimiterStep
<1>2. LimiterInv => RefusedOnlyWhenBusy
  BY DEF LimiterInv
<1> QED BY <1>1, <1>2, LimiterInit, PTL DEF Spec

-----------------------------------------------------------------------------
(***************************************************************************)
(* How much gets through.  The counter of a window has at most two lives   *)
(* that count: its TTL keeps the first until the window is over, and who   *)
(* arrived in the window has been decided a window later.  Each life gives *)
(* a limit of requests, and a life that ended did so a window after one of *)
(* its requests was decided.                                               *)
(***************************************************************************)

\* When window w begins.
Start(w) == w * Window

Active(r) == stage[r] \in {"incr", "expire"}

\* The requests of window w that have been served, or will be.
Taken(w) == {r \in Requests : key[r] = w /\ stage[r] \in {"served", "expire"}}

\* Those served before e, and the others.
Early(w, e) == {r \in Requests : key[r] = w /\ stage[r] = "served" /\ decided[r] < e}
Late(w, e) == {r \in Requests : /\ key[r] = w
                                /\ \/ stage[r] = "expire"
                                   \/ stage[r] = "served" /\ decided[r] >= e}

\* A life with a TTL ends at e, a window after one of its requests was served.
StartedBy(w, e) ==
  \E r \in Requests : key[r] = w /\ stage[r] = "served" /\ decided[r] + Window = e

\* A request is decided by its deadline.
OnTime ==
  \A r \in Requests :
    /\ Active(r) => arrived[r] <= now /\ now <= arrived[r] + Timeout
    /\ stage[r] = "served" => /\ arrived[r] <= decided[r] /\ decided[r] <= now
                              /\ decided[r] <= arrived[r] + Timeout

\* What has expired is gone, and one request at a time is about to set the TTL of a
\* counter that has none.
TTLInv ==
  /\ \A w \in Windows : now < expires[w] /\ (counter[w] = 0 => expires[w] = NoTTL)
  /\ \A r \in Requests : stage[r] = "expire" =>
       /\ counter[key[r]] > 0
       /\ expires[key[r]] = NoTTL
       /\ \A q \in Requests : stage[q] = "expire" /\ key[q] = key[r] => q = r

FirstLife(w) ==
  /\ Cardinality(Taken(w)) <= Limit
  /\ Cardinality(Taken(w)) <= counter[w]
  /\ expires[w] # NoTTL => StartedBy(w, expires[w])

\* The first life has ended at e.  What counts later comes before the second ends.
SecondLife(w, e) ==
  /\ e <= now
  /\ Start(w) + Window <= e
  /\ StartedBy(w, e)
  /\ Cardinality(Early(w, e)) <= Limit
  /\ Cardinality(Late(w, e)) <= Limit
  /\ now < Start(w) + 2 * Window => Cardinality(Late(w, e)) <= counter[w]
  /\ expires[w] # NoTTL => Start(w) + 2 * Window <= expires[w]

Life(w) == FirstLife(w) \/ \E e \in Nat : SecondLife(w, e)

LivesInv == \A w \in Windows : Life(w)

BurstInv == OnTime /\ TTLInv /\ LivesInv

-----------------------------------------------------------------------------
LEMMA StartTyped == ASSUME NEW w \in Nat PROVE Start(w) \in Nat
BY RateLimiterAssumption DEF Start

LEMMA StartNext == ASSUME NEW w \in Nat PROVE Start(w + 1) = Start(w) + Window
BY RateLimiterAssumption DEF Start

LEMMA StartInOrder ==
  ASSUME NEW v \in Nat, NEW w \in Nat, v <= w
  PROVE  Start(v) <= Start(w)
<1>1. PICK d \in Nat : w = v + d
  <2>1. w - v \in Nat /\ w = v + (w - v)
    OBVIOUS
  <2> QED BY <2>1
<1>2. w * Window = v * Window + d * Window /\ d * Window \in Nat /\ v * Window \in Nat
  BY <1>1, RateLimiterAssumption
<1> QED BY <1>2 DEF Start

LEMMA WindowHolds ==
  ASSUME NEW t \in Nat
  PROVE  /\ t \div Window \in Nat
         /\ Start(t \div Window) <= t
         /\ t < Start(t \div Window) + Window
BY RateLimiterAssumption DEF Start

\* A request falls into its window.
LEMMA ArrivedInWindow ==
  ASSUME TypeOK, KeyOfArrival, NEW r \in Requests, stage[r] # "idle"
  PROVE  /\ key[r] \in Nat /\ Start(key[r]) \in Nat
         /\ arrived[r] \in Nat /\ decided[r] \in Nat
         /\ Start(key[r]) <= arrived[r]
         /\ arrived[r] < Start(key[r]) + Window
<1>1. arrived[r] \in Nat /\ decided[r] \in Nat /\ key[r] = arrived[r] \div Window
  BY RateLimiterAssumption DEF TypeOK, Time, KeyOfArrival
<1> QED BY <1>1, WindowHolds, StartTyped

LEMMA WindowsNat == Windows \subseteq Nat /\ Time \subseteq Nat
BY DEF Windows, Time

LEMMA LivesTyped ==
  ASSUME NEW w, NEW e
  PROVE  /\ Taken(w) \in SUBSET Requests /\ Taken(w)' \in SUBSET Requests
         /\ Early(w, e) \in SUBSET Requests /\ Late(w, e) \in SUBSET Requests
         /\ Early(w, e)' \in SUBSET Requests /\ Late(w, e)' \in SUBSET Requests
BY DEF Taken, Early, Late

-----------------------------------------------------------------------------
LEMMA OnTimeStep ==
  ASSUME LimiterInv, OnTime, [Next]_vars
  PROVE  OnTime'
<1> SUFFICES ASSUME NEW q \in Requests
             PROVE  /\ Active(q)' => arrived'[q] <= now' /\ now' <= arrived'[q] + Timeout
                    /\ stage'[q] = "served" =>
                         /\ arrived'[q] <= decided'[q] /\ decided'[q] <= now'
                         /\ decided'[q] <= arrived'[q] + Timeout
  BY DEF OnTime
<1> USE DEF LimiterInv, TypeOK, Active
<1>0. /\ now \in Nat /\ arrived[q] \in Nat /\ decided[q] \in Nat
      /\ Timeout \in Nat
  BY RateLimiterAssumption DEF Time
<1>1. CASE Tick
  <2>1. /\ now' = now + 1
        /\ Active(q) => now < arrived[q] + Timeout
        /\ UNCHANGED <<stage, arrived, decided>>
    BY <1>1 DEF Tick, requestVars
  <2> QED BY <1>0, <2>1 DEF OnTime
<1>2. CASE Arrive(q)
  <2>1. now' = now /\ stage'[q] = "incr" /\ arrived'[q] = now
    BY <1>2 DEF Arrive
  <2> QED BY <1>0, <2>1
<1>3. CASE Active(q) /\ stage'[q] = "served"
  <2>1. decided'[q] = now /\ arrived' = arrived /\ now' = now
    BY <1>3
    DEF Next, Arrive, Incr, IncrFirst, Expire, ExpireFails, IncrAnswerLost, IncrFails, Crash,
        Tick, Decide, requestVars, vars
  <2> QED BY <1>0, <1>3, <2>1 DEF OnTime
<1>4. \/ Tick \/ Arrive(q) \/ (Active(q) /\ stage'[q] = "served")
      \/ /\ now' = now /\ arrived'[q] = arrived[q]
         /\ Active(q)' => Active(q)
         /\ stage'[q] = "served" => stage[q] = "served" /\ decided'[q] = decided[q]
  BY DEF Next, Arrive, Incr, IncrFirst, Expire, ExpireFails, IncrAnswerLost, IncrFails, Crash,
         Decide, requestVars, vars
<1> QED BY <1>0, <1>1, <1>2, <1>3, <1>4 DEF OnTime

LEMMA TTLStep ==
  ASSUME LimiterInv, TTLInv, [Next]_vars
  PROVE  TTLInv'
<1> USE DEF LimiterInv, TypeOK
<1>0. /\ now \in Nat /\ now <= MaxTime /\ MaxTime \in Nat /\ Window \in Nat \ {0}
      /\ NoTTL \in Nat /\ now + Window < NoTTL /\ now + 1 < NoTTL
  BY RateLimiterAssumption DEF Time, NoTTL
<1>1. CASE UNCHANGED vars
  BY <1>1 DEF TTLInv, vars, redisVars, requestVars
<1>2. ASSUME NEW r \in Requests, Arrive(r)
      PROVE  TTLInv'
  BY <1>2 DEF TTLInv, Arrive, redisVars
<1>3. ASSUME NEW r \in Requests, IncrFirst(r)
      PROVE  TTLInv'
  <2>1. key[r] \in Windows /\ counter[key[r]] = 0
    BY <1>3 DEF IncrFirst
  <2>2. \A q \in Requests : stage[q] = "expire" => key[q] # key[r]
    BY <2>1 DEF TTLInv
  <2> QED BY <1>3, <2>1, <2>2 DEF TTLInv, IncrFirst, Incremented
<1>4. ASSUME NEW r \in Requests, Incr(r) \/ IncrAnswerLost(r)
      PROVE  TTLInv'
  <2>1. /\ UNCHANGED <<expires, key, now>>
        /\ counter' = [counter EXCEPT ![key[r]] = @ + 1]
        /\ \A w \in Windows : counter[w] \in Nat
        /\ \A q \in Requests : stage'[q] = "expire" => stage[q] = "expire"
    BY <1>4 DEF Incr, IncrAnswerLost, Incremented, Decide, requestVars
  <2>2. \A w \in Windows : counter'[w] >= counter[w] /\ counter'[w] \in Nat
    BY <2>1
  <2> QED
    BY <2>1, <2>2 DEF TTLInv
<1>5. ASSUME NEW r \in Requests, ExpireFails(r) \/ IncrFails(r) \/ Crash(r)
      PROVE  TTLInv'
  <2>1. /\ UNCHANGED <<redisVars, key, now>>
        /\ \A q \in Requests : stage'[q] = "expire" => stage[q] = "expire"
    BY <1>5 DEF ExpireFails, IncrFails, Crash, Decide
  <2> QED BY <2>1 DEF TTLInv, redisVars
<1>6. ASSUME NEW r \in Requests, Expire(r)
      PROVE  TTLInv'
  <2>1. /\ UNCHANGED <<counter, key, now>>
        /\ stage[r] = "expire"
        /\ expires' = [expires EXCEPT ![key[r]] = now + Window]
        /\ \A q \in Requests : stage'[q] = "expire" => stage[q] = "expire" /\ q # r
    BY <1>6 DEF Expire, Decide
  <2>2. \A q \in Requests : stage'[q] = "expire" => key[q] # key[r]
    BY <2>1 DEF TTLInv
  <2>3. \A w \in Windows : now < expires'[w] /\ (counter[w] = 0 => expires'[w] = NoTTL)
    BY <1>0, <2>1 DEF TTLInv
  <2> QED BY <2>1, <2>2, <2>3 DEF TTLInv
<1>7. CASE Tick
  <2>1. /\ now' = now + 1
        /\ counter' = [w \in Windows |-> IF now' < expires[w] THEN counter[w] ELSE 0]
        /\ expires' = [w \in Windows |-> IF now' < expires[w] THEN expires[w] ELSE NoTTL]
        /\ UNCHANGED <<stage, key>>
    BY <1>7 DEF Tick, requestVars
  <2>2. \A w \in Windows : now' < expires'[w] /\ (counter'[w] = 0 => expires'[w] = NoTTL)
    BY <1>0, <2>1 DEF TTLInv
  <2>3. \A q \in Requests : stage[q] = "expire" =>
          counter'[key[q]] = counter[key[q]] /\ expires'[key[q]] = NoTTL
    BY <1>0, <2>1 DEF TTLInv
  <2> QED BY <2>1, <2>2, <2>3 DEF TTLInv
<1> QED BY <1>1, <1>2, <1>3, <1>4, <1>5, <1>6, <1>7 DEF Next

-----------------------------------------------------------------------------
\* A step that gives nothing more of window w.
LEMMA LifeKept ==
  ASSUME NEW w \in Windows, Life(w), TypeOK, TypeOK',
         now' = now, expires'[w] = expires[w], counter[w] <= counter'[w],
         \A r \in Requests : key[r] = w /\ stage[r] = "served" =>
           key'[r] = w /\ stage'[r] = "served" /\ decided'[r] = decided[r],
         \A r \in Requests : key'[r] = w /\ stage'[r] \in {"served", "expire"} =>
           /\ key[r] = w
           /\ \/ stage[r] = "served"
              \/ stage[r] = "expire" /\ (stage'[r] = "served" => decided'[r] = now)
  PROVE  Life(w)'
<1>0. counter[w] \in Nat /\ counter'[w] \in Nat /\ now \in Nat /\ Limit \in Nat
      /\ Window \in Nat
  BY WindowsNat, RateLimiterAssumption DEF TypeOK
<1>1. \A e : StartedBy(w, e) => StartedBy(w, e)'
  BY DEF StartedBy
<1>2. CASE FirstLife(w)
  <2>1. Taken(w)' \subseteq Taken(w)
    BY DEF Taken
  <2>2. /\ Cardinality(Taken(w)) \in Nat /\ Cardinality(Taken(w)') \in Nat
        /\ Cardinality(Taken(w)') <= Cardinality(Taken(w))
    BY <2>1, LivesTyped, MoreRequests
  <2> QED BY <1>0, <1>1, <1>2, <2>2 DEF FirstLife, Life
<1>3. ASSUME NEW e \in Nat, SecondLife(w, e)
      PROVE  SecondLife(w, e)'
  <2>1. Early(w, e)' \subseteq Early(w, e) /\ Late(w, e)' \subseteq Late(w, e)
    <3>1. e <= now
      BY <1>3 DEF SecondLife
    <3> QED BY <1>0, <3>1 DEF Early, Late
  <2>2. /\ Cardinality(Early(w, e)) \in Nat /\ Cardinality(Early(w, e)') \in Nat
        /\ Cardinality(Early(w, e)') <= Cardinality(Early(w, e))
        /\ Cardinality(Late(w, e)) \in Nat /\ Cardinality(Late(w, e)') \in Nat
        /\ Cardinality(Late(w, e)') <= Cardinality(Late(w, e))
    BY <2>1, LivesTyped, MoreRequests
  <2> QED BY <1>0, <1>1, <1>3, <2>2 DEF SecondLife, Start
<1> QED BY <1>2, <1>3 DEF Life

\* A step in which INCR gives r a number within the limit.
LEMMA LifeCounts ==
  ASSUME NEW r \in Requests, NEW w \in Windows, w = key[r], Life(w), LimiterInv, OnTime,
         TypeOK', stage[r] = "incr",
         now' = now, expires' = expires, key' = key,
         counter'[w] = counter[w] + 1, counter[w] + 1 <= Limit,
         \/ stage' = [stage EXCEPT ![r] = "expire"] /\ decided' = decided
         \/ /\ stage' = [stage EXCEPT ![r] = "served"]
            /\ decided' = [decided EXCEPT ![r] = now]
  PROVE  Life(w)'
<1> USE DEF LimiterInv
<1>0. counter[w] \in Nat /\ counter'[w] \in Nat /\ now \in Nat /\ Limit \in Nat
      /\ Window \in Nat /\ Start(w) \in Nat
  BY WindowsNat, StartTyped, RateLimiterAssumption DEF TypeOK
<1>1. \A q \in Requests : q # r => stage'[q] = stage[q] /\ decided'[q] = decided[q]
  BY DEF TypeOK
<1>2. \A e : StartedBy(w, e) => StartedBy(w, e)'
  BY <1>1 DEF StartedBy
<1>3. stage'[r] = "expire" \/ (stage'[r] = "served" /\ decided'[r] = now)
  BY DEF TypeOK
<1>4. CASE FirstLife(w)
  <2>1. Taken(w)' = Taken(w) \cup {r} /\ r \notin Taken(w)
    BY <1>1, <1>3 DEF Taken
  <2>2. /\ Cardinality(Taken(w)) \in Nat
        /\ Cardinality(Taken(w)') = Cardinality(Taken(w)) + 1
    BY <2>1, LivesTyped, RequestsFinite, FS_AddElement
  <2> QED BY <1>0, <1>2, <1>4, <2>2 DEF FirstLife, Life
<1>5. ASSUME NEW e \in Nat, SecondLife(w, e)
      PROVE  SecondLife(w, e)'
  <2>1. e <= now
    BY <1>5 DEF SecondLife
  <2>2. /\ Early(w, e)' = Early(w, e)
        /\ Late(w, e)' = Late(w, e) \cup {r} /\ r \notin Late(w, e)
    BY <1>0, <1>1, <1>3, <2>1 DEF Early, Late
  <2>3. /\ Cardinality(Late(w, e)) \in Nat
        /\ Cardinality(Late(w, e)') = Cardinality(Late(w, e)) + 1
    BY <2>2, LivesTyped, RequestsFinite, FS_AddElement
  <2>4. now < Start(w) + 2 * Window
    <3>1. /\ arrived[r] \in Nat /\ arrived[r] < Start(w) + Window
          /\ now <= arrived[r] + Timeout
      BY ArrivedInWindow DEF OnTime, Active
    <3> QED BY <1>0, <3>1, RateLimiterAssumption
  <2>5. Cardinality(Late(w, e)) <= counter[w]
    BY <1>5, <2>4 DEF SecondLife
  <2> QED BY <1>0, <1>2, <1>5, <2>2, <2>3, <2>5 DEF SecondLife, Start
<1> QED BY <1>4, <1>5 DEF Life

\* The request that started the counter gives it its TTL.
LEMMA LifeGetsTTL ==
  ASSUME NEW r \in Requests, NEW w \in Windows, w = key[r], Expire(r), Life(w), TypeOK
  PROVE  Life(w)'
<1>0. /\ counter[w] \in Nat /\ now \in Nat /\ Limit \in Nat
      /\ Window \in Nat /\ Start(w) \in Nat
  BY WindowsNat, StartTyped, RateLimiterAssumption DEF TypeOK
<1>1. /\ stage[r] = "expire" /\ stage' = [stage EXCEPT ![r] = "served"]
      /\ decided' = [decided EXCEPT ![r] = now]
      /\ expires'[w] = now + Window
      /\ UNCHANGED <<counter, key, now>>
  <2>1. Within(1)
    BY RateLimiterAssumption DEF Within
  <2> QED BY <1>0, <2>1 DEF Expire, Decide, TypeOK
<1>2. /\ stage'[r] = "served" /\ decided'[r] = now
      /\ \A q \in Requests : q # r => stage'[q] = stage[q] /\ decided'[q] = decided[q]
  BY <1>1 DEF TypeOK
<1>3. CASE FirstLife(w)
  <2>1. Taken(w)' = Taken(w)
    BY <1>1, <1>2 DEF Taken
  <2>2. StartedBy(w, expires[w])'
    BY <1>1, <1>2 DEF StartedBy
  <2> QED BY <1>1, <1>3, <2>1, <2>2 DEF FirstLife, Life
<1>4. ASSUME NEW e \in Nat, SecondLife(w, e)
      PROVE  SecondLife(w, e)'
  <2>1. e <= now
    BY <1>4 DEF SecondLife
  <2>2. Early(w, e)' = Early(w, e) /\ Late(w, e)' = Late(w, e)
    BY <1>0, <1>1, <1>2, <2>1 DEF Early, Late
  <2>3. StartedBy(w, e)'
    BY <1>1, <1>2, <1>4 DEF SecondLife, StartedBy
  <2>4. Start(w) + 2 * Window <= expires'[w]
    BY <1>0, <1>1, <1>4, <2>1 DEF SecondLife
  <2> QED BY <1>1, <1>4, <2>2, <2>3, <2>4 DEF SecondLife, Start
<1> QED BY <1>1, <1>3, <1>4 DEF Life

\* When the TTL has passed, the first life ends; a second that ends has nobody left
\* to count.
LEMMA LifeTicks ==
  ASSUME NEW w \in Windows, Tick, Life(w), LimiterInv, TypeOK', OnTime, TTLInv
  PROVE  Life(w)'
<1> USE DEF LimiterInv
<1>0. /\ counter[w] \in Nat /\ now \in Nat /\ Limit \in Nat /\ expires[w] \in Nat
      /\ Window \in Nat /\ Start(w) \in Nat /\ w \in Nat
      /\ \A q \in Requests : decided[q] \in Nat /\ arrived[q] \in Nat
  BY WindowsNat, StartTyped, RateLimiterAssumption DEF TypeOK, Time
<1>1. /\ now' = now + 1 /\ now' < NoTTL
      /\ UNCHANGED <<stage, key, decided>>
      /\ now' < expires[w] => counter'[w] = counter[w] /\ expires'[w] = expires[w]
      /\ ~(now' < expires[w]) => counter'[w] = 0 /\ expires'[w] = NoTTL
  BY <1>0, RateLimiterAssumption DEF Tick, requestVars, TypeOK, Time, NoTTL
<1>2. \A e : StartedBy(w, e)' <=> StartedBy(w, e)
  BY <1>1 DEF StartedBy
<1>3. /\ Taken(w)' = Taken(w)
      /\ \A e : Early(w, e)' = Early(w, e) /\ Late(w, e)' = Late(w, e)
  BY <1>1 DEF Taken, Early, Late
<1>4. CASE FirstLife(w) /\ now' < expires[w]
  BY <1>1, <1>2, <1>3, <1>4 DEF FirstLife, Life
<1>5. CASE FirstLife(w) /\ ~(now' < expires[w])
  <2>0. PICK e \in Nat : e = expires[w]
    BY <1>0
  <2>1. e = now + 1 /\ e # NoTTL
    BY <1>0, <1>1, <1>5, <2>0 DEF TTLInv
  <2>2. StartedBy(w, e)
    BY <1>5, <2>0, <2>1 DEF FirstLife
  <2>3. Start(w) + Window <= e
    BY <1>0, <2>2, ArrivedInWindow DEF StartedBy, OnTime
  <2>4. Late(w, e) = {}
    <3>1. \A q \in Requests : stage[q] = "expire" => key[q] # w
      BY <2>0, <2>1 DEF TTLInv
    <3>2. \A q \in Requests : stage[q] = "served" => decided[q] < e
      BY <1>0, <2>1 DEF OnTime
    <3> QED BY <1>0, <3>1, <3>2 DEF Late
  <2>5. Cardinality(Late(w, e)) = 0
    BY <2>4, FS_EmptySet
  <2>6. Cardinality(Early(w, e)) <= Limit
    <3>1. Early(w, e) \subseteq Taken(w)
      BY DEF Early, Taken
    <3>2. /\ Cardinality(Early(w, e)) \in Nat /\ Cardinality(Taken(w)) \in Nat
          /\ Cardinality(Early(w, e)) <= Cardinality(Taken(w))
      BY <3>1, LivesTyped, MoreRequests
    <3> QED BY <1>0, <1>5, <3>2 DEF FirstLife
  <2>7. e <= now' /\ counter'[w] = 0 /\ expires'[w] = NoTTL
    BY <1>0, <1>1, <1>5, <2>1
  <2>8. SecondLife(w, e)'
    BY <1>0, <1>2, <1>3, <2>2, <2>3, <2>5, <2>6, <2>7 DEF SecondLife, Start
  <2> QED BY <2>8 DEF Life
<1>6. ASSUME NEW e \in Nat, SecondLife(w, e)
      PROVE  SecondLife(w, e)'
  <2>1. e <= now'
    BY <1>0, <1>1, <1>6 DEF SecondLife
  <2>2. expires'[w] # NoTTL => Start(w) + 2 * Window <= expires'[w]
    BY <1>1, <1>6 DEF SecondLife
  <2>3. now' < Start(w) + 2 * Window =>
          now < Start(w) + 2 * Window /\ counter'[w] = counter[w]
    BY <1>0, <1>1, <1>6 DEF SecondLife
  <2> QED BY <1>2, <1>3, <1>6, <2>1, <2>2, <2>3 DEF SecondLife, Start
<1> QED BY <1>4, <1>5, <1>6 DEF Life

LEMMA LivesStep ==
  ASSUME LimiterInv, TypeOK', BurstInv, [Next]_vars
  PROVE  LivesInv'
<1> SUFFICES ASSUME NEW w \in Windows PROVE Life(w)'
  BY DEF LivesInv
<1> USE DEF LimiterInv, BurstInv
<1>0. Life(w) /\ counter[w] \in Nat
  BY DEF LivesInv, TypeOK
<1>1. CASE Tick
  BY <1>0, <1>1, LifeTicks
<1>2. ASSUME NEW r \in Requests, Expire(r), w = key[r]
      PROVE  Life(w)'
  BY <1>0, <1>2, LifeGetsTTL
<1>3. ASSUME NEW r \in Requests, Incr(r) \/ IncrFirst(r), w = key[r], counter[w] + 1 <= Limit
      PROVE  Life(w)'
  <2>1. /\ stage[r] = "incr" /\ now' = now /\ expires' = expires /\ key' = key
        /\ counter'[w] = counter[w] + 1
        /\ \/ stage' = [stage EXCEPT ![r] = "expire"] /\ decided' = decided
           \/ /\ stage' = [stage EXCEPT ![r] = "served"]
              /\ decided' = [decided EXCEPT ![r] = now]
    BY <1>3 DEF Incr, IncrFirst, Incremented, Decide, Within, TypeOK
  <2> QED BY <1>0, <1>3, <2>1, LifeCounts
<1>4. \/ Tick
      \/ \E r \in Requests : Expire(r) /\ w = key[r]
      \/ \E r \in Requests : (Incr(r) \/ IncrFirst(r)) /\ w = key[r] /\ counter[w] + 1 <= Limit
      \/ /\ now' = now /\ expires'[w] = expires[w] /\ counter[w] <= counter'[w]
         /\ \A q \in Requests : key[q] = w /\ stage[q] = "served" =>
              key'[q] = w /\ stage'[q] = "served" /\ decided'[q] = decided[q]
         /\ \A q \in Requests : key'[q] = w /\ stage'[q] \in {"served", "expire"} =>
              /\ key[q] = w
              /\ \/ stage[q] = "served"
                 \/ stage[q] = "expire" /\ (stage'[q] = "served" => decided'[q] = now)
  <2> USE DEF TypeOK
  <2>1. CASE UNCHANGED vars
    BY <1>0, <2>1 DEF vars, redisVars, requestVars
  <2>2. ASSUME NEW r \in Requests,
               Arrive(r) \/ ExpireFails(r) \/ IncrAnswerLost(r) \/ IncrFails(r) \/ Crash(r)
        PROVE  <1>4!4
    BY <1>0, <2>2
    DEF Arrive, ExpireFails, IncrAnswerLost, IncrFails, Crash, Incremented, Decide, redisVars,
        requestVars
  <2>3. ASSUME NEW r \in Requests, Incr(r) \/ IncrFirst(r),
               ~(w = key[r] /\ counter[w] + 1 <= Limit)
        PROVE  <1>4!4
    BY <1>0, <2>3, RateLimiterAssumption
    DEF Incr, IncrFirst, Incremented, Decide, Within
  <2>4. ASSUME NEW r \in Requests, Expire(r), w # key[r]
        PROVE  <1>4!4
    BY <1>0, <2>4 DEF Expire, Decide
  <2> QED BY <2>1, <2>2, <2>3, <2>4 DEF Next
<1> QED BY <1>0, <1>1, <1>2, <1>3, <1>4, LifeKept

LEMMA BurstInit == Init => BurstInv
<1> SUFFICES ASSUME Init PROVE BurstInv
  OBVIOUS
<1>1. OnTime /\ TTLInv
  BY RateLimiterAssumption DEF Init, OnTime, TTLInv, Active, NoTTL
<1>2. ASSUME NEW w \in Windows PROVE FirstLife(w)
  <2>1. Taken(w) = {}
    BY DEF Init, Taken
  <2> QED BY <2>1, FS_EmptySet, RateLimiterAssumption DEF Init, FirstLife
<1> QED BY <1>1, <1>2 DEF BurstInv, LivesInv, Life

-----------------------------------------------------------------------------
(***************************************************************************)
(* What the lives of the counters say of a period from t on.               *)
(***************************************************************************)
ServedOf(w, t) == {r \in ServedIn(t, t + Window - 1) : key[r] = w}

\* Both lives of a counter: the first has given one request before the period.
LEMMA TwoLives ==
  ASSUME LimiterInv, BurstInv, NEW w \in Windows, NEW t \in Nat
  PROVE  /\ Cardinality(ServedOf(w, t)) \in Nat
         /\ Cardinality(ServedOf(w, t)) <= 2 * Limit - 1
         /\ t <= Start(w) => Cardinality(ServedOf(w, t)) <= Limit
<1> DEFINE S == ServedOf(w, t)
<1>0. /\ Limit \in Nat \ {0} /\ Window \in Nat \ {0} /\ Start(w) \in Nat
      /\ \A r \in Requests : decided[r] \in Nat
  BY WindowsNat, StartTyped, RateLimiterAssumption DEF LimiterInv, TypeOK
<1>1. /\ S \in SUBSET Requests
      /\ \A r \in S : /\ r \in Requests /\ key[r] = w /\ stage[r] = "served"
                      /\ t <= decided[r] /\ decided[r] <= t + Window - 1
  BY <1>0 DEF ServedOf, ServedIn
<1> HIDE DEF S
<1>2. IsFiniteSet(S) /\ Cardinality(S) \in Nat
  BY <1>1, RequestsFinite
<1>3. ASSUME NEW T \in SUBSET Requests, S \subseteq T, Cardinality(T) <= Limit
      PROVE  Cardinality(S) <= Limit
  BY <1>0, <1>1, <1>2, <1>3, MoreRequests
<1>4. CASE FirstLife(w)
  <2>1. S \subseteq Taken(w)
    BY <1>1 DEF Taken
  <2>2. Cardinality(S) <= Limit
    BY <1>3, <1>4, <2>1, LivesTyped DEF FirstLife
  <2> QED BY <1>0, <1>2, <2>2 DEF S
<1>5. ASSUME NEW e \in Nat, SecondLife(w, e), t + Window <= e
      PROVE  Cardinality(S) <= Limit
  <2>1. S \subseteq Early(w, e)
    BY <1>0, <1>1, <1>5 DEF Early
  <2> QED BY <1>3, <1>5, <2>1, LivesTyped DEF SecondLife
<1>6. ASSUME NEW e \in Nat, SecondLife(w, e), e < t + Window
      PROVE  Cardinality(S) <= 2 * Limit - 1 /\ ~(t <= Start(w))
  <2>1. PICK r \in Requests : key[r] = w /\ stage[r] = "served" /\ decided[r] + Window = e
    BY <1>6 DEF SecondLife, StartedBy
  <2>2. r \in Early(w, e) /\ decided[r] < t
    BY <1>0, <1>6, <2>1 DEF Early
  <2> DEFINE E == Early(w, e) \ {r}
             L == Late(w, e)
  <2>3. S \subseteq E \cup L
    BY <1>0, <1>1, <2>2 DEF Early, Late
  <2>4. /\ Cardinality(E) \in Nat /\ IsFiniteSet(E)
        /\ Cardinality(E) <= Limit - 1
    <3>1. /\ IsFiniteSet(Early(w, e)) /\ Cardinality(Early(w, e)) \in Nat
          /\ IsFiniteSet(E) /\ Cardinality(E) \in Nat
      BY LivesTyped, RequestsFinite
    <3>2. Cardinality(E) = Cardinality(Early(w, e)) - 1
      BY <2>2, <3>1, FS_RemoveElement
    <3> QED BY <1>0, <1>6, <3>1, <3>2 DEF SecondLife
  <2>5. Cardinality(L) \in Nat /\ IsFiniteSet(L) /\ Cardinality(L) <= Limit
    BY <1>6, LivesTyped, RequestsFinite DEF SecondLife
  <2>6. /\ IsFiniteSet(E \cup L)
        /\ Cardinality(E \cup L) \in Nat
        /\ Cardinality(E \cup L) <= Cardinality(E) + Cardinality(L)
    <3>1. /\ IsFiniteSet(E \cup L) /\ IsFiniteSet(E \cap L)
          /\ Cardinality(E \cup L) = Cardinality(E) + Cardinality(L) - Cardinality(E \cap L)
      BY <2>4, <2>5, FS_Union, FS_Intersection
    <3>2. Cardinality(E \cup L) \in Nat /\ Cardinality(E \cap L) \in Nat
      BY <3>1, FS_CardinalityType
    <3> QED BY <2>4, <2>5, <3>1, <3>2
  <2>7. Cardinality(S) <= Cardinality(E \cup L)
    BY <2>3, <2>6, FS_Subset
  <2>8. Cardinality(S) <= 2 * Limit - 1
    BY <1>0, <1>2, <2>4, <2>5, <2>6, <2>7
  <2>9. ~(t <= Start(w))
    <3>1. Start(w) + Window <= e
      BY <1>6 DEF SecondLife
    <3> QED BY <1>0, <1>6, <3>1
  <2> QED BY <2>8, <2>9
<1> QED BY <1>0, <1>2, <1>4, <1>5, <1>6 DEF S, Life, LivesInv, BurstInv

\* Requests served in a period are of three windows.
LEMMA ThreeWindows ==
  ASSUME LimiterInv, BurstInv, NEW t \in Time, NEW a \in Nat, a = t \div Window
  PROVE  /\ t < Start(a + 1)
         /\ \A r \in ServedIn(t, t + Window - 1) :
              key[r] \in Windows /\ (key[r] = a - 1 \/ key[r] = a \/ key[r] = a + 1)
<1>0. t \in Nat /\ Window \in Nat \ {0} /\ Timeout \in Nat /\ Timeout <= Window
  BY WindowsNat, RateLimiterAssumption
<1>1. Start(a) \in Nat /\ Start(a) <= t /\ t < Start(a) + Window
  BY <1>0, WindowHolds, StartTyped
<1>2. Start(a + 1) = Start(a) + Window /\ Start(a + 2) = Start(a) + 2 * Window
  <2>1. Start(a + 1) = Start(a) + Window /\ Start((a + 1) + 1) = Start(a + 1) + Window
    BY StartNext
  <2>2. (a + 1) + 1 = a + 2
    OBVIOUS
  <2> QED BY <1>0, <1>1, <2>1, <2>2
<1>3. ASSUME NEW r \in ServedIn(t, t + Window - 1)
      PROVE  key[r] \in Windows /\ (key[r] = a - 1 \/ key[r] = a \/ key[r] = a + 1)
  <2>1. /\ r \in Requests /\ stage[r] = "served" /\ key[r] \in Windows
        /\ decided[r] \in Nat /\ t <= decided[r] /\ decided[r] <= t + Window - 1
    BY <1>0, WindowsNat DEF ServedIn, LimiterInv, TypeOK
  <2>2. /\ key[r] \in Nat /\ Start(key[r]) \in Nat
        /\ arrived[r] \in Nat
        /\ Start(key[r]) <= arrived[r]
        /\ arrived[r] < Start(key[r]) + Window
    BY <2>1, ArrivedInWindow DEF LimiterInv
  <2>3. arrived[r] <= decided[r] /\ decided[r] <= arrived[r] + Timeout
    BY <2>1 DEF BurstInv, OnTime
  <2>4. ~(a + 2 <= key[r])
    <3> SUFFICES ASSUME a + 2 <= key[r] PROVE FALSE
      OBVIOUS
    <3>1. Start(a + 2) <= Start(key[r])
      BY <2>2, StartInOrder
    <3> QED BY <1>0, <1>1, <1>2, <2>1, <2>2, <2>3, <3>1
  <2>5. ~(key[r] + 2 <= a)
    <3> SUFFICES ASSUME key[r] + 2 <= a PROVE FALSE
      OBVIOUS
    <3>1. Start(key[r] + 2) <= Start(a)
      BY <2>2, StartInOrder
    <3>2. Start(key[r] + 1) = Start(key[r]) + Window
          /\ Start((key[r] + 1) + 1) = Start(key[r] + 1) + Window
      BY <2>2, StartNext
    <3>3. (key[r] + 1) + 1 = key[r] + 2
      BY <2>2
    <3> QED BY <1>0, <1>1, <2>1, <2>2, <2>3, <3>1, <3>2, <3>3
  <2> QED BY <2>1, <2>2, <2>4, <2>5
<1> QED BY <1>1, <1>2, <1>3

\* Three sets, of which a set is the union.
LEMMA ThreeSets ==
  ASSUME NEW A \in SUBSET Requests, NEW B \in SUBSET Requests, NEW C \in SUBSET Requests,
         NEW S \in SUBSET Requests, S \subseteq A \cup B \cup C
  PROVE  /\ Cardinality(S) \in Nat
         /\ Cardinality(S) <= Cardinality(A) + Cardinality(B) + Cardinality(C)
<1>1. ASSUME NEW X \in SUBSET Requests, NEW Y \in SUBSET Requests
      PROVE  /\ Cardinality(X) \in Nat /\ Cardinality(Y) \in Nat
             /\ Cardinality(X \cup Y) \in Nat
             /\ Cardinality(X \cup Y) <= Cardinality(X) + Cardinality(Y)
  <2>1. /\ IsFiniteSet(X) /\ IsFiniteSet(Y)
        /\ Cardinality(X) \in Nat /\ Cardinality(Y) \in Nat
    BY RequestsFinite
  <2>2. X \cup Y \in SUBSET Requests /\ X \cap Y \in SUBSET Requests
    OBVIOUS
  <2>3. Cardinality(X \cup Y) \in Nat /\ Cardinality(X \cap Y) \in Nat
    BY <2>2, RequestsFinite
  <2>4. Cardinality(X \cup Y) = Cardinality(X) + Cardinality(Y) - Cardinality(X \cap Y)
    BY <2>1, FS_Union
  <2> QED BY <2>1, <2>3, <2>4
<1>2. A \cup B \in SUBSET Requests /\ (A \cup B) \cup C \in SUBSET Requests
  OBVIOUS
<1>3. /\ Cardinality(A) \in Nat /\ Cardinality(B) \in Nat /\ Cardinality(C) \in Nat
      /\ Cardinality(A \cup B) \in Nat
      /\ Cardinality(A \cup B) <= Cardinality(A) + Cardinality(B)
  BY <1>1
<1>4. /\ Cardinality((A \cup B) \cup C) \in Nat
      /\ Cardinality((A \cup B) \cup C) <= Cardinality(A \cup B) + Cardinality(C)
  BY <1>1, <1>2
<1>5. Cardinality(S) \in Nat /\ Cardinality(S) <= Cardinality((A \cup B) \cup C)
  BY <1>2, MoreRequests
<1> QED BY <1>3, <1>4, <1>5

LEMMA BurstFollows ==
  ASSUME LimiterInv, BurstInv
  PROVE  BurstBounded
<1> SUFFICES ASSUME NEW t \in Time
             PROVE  Cardinality(ServedIn(t, t + Window - 1)) <= 5 * Limit - 2
  BY DEF BurstBounded
<1>0. t \in Nat /\ Limit \in Nat \ {0} /\ Window \in Nat \ {0}
  BY WindowsNat, RateLimiterAssumption
<1>1. PICK a \in Nat : a = t \div Window
  BY <1>0, WindowHolds
<1> DEFINE S == ServedIn(t, t + Window - 1)
           Of(w) == ServedOf(w, t)
<1>2. \A w : Of(w) \in SUBSET Requests
  BY DEF ServedOf, ServedIn
<1>3. S \in SUBSET Requests /\ S \subseteq Of(a - 1) \cup Of(a) \cup Of(a + 1)
  BY <1>1, ThreeWindows DEF ServedIn, ServedOf
<1>4. ASSUME NEW w \in Int
      PROVE  /\ Cardinality(Of(w)) \in Nat
             /\ Cardinality(Of(w)) <= 2 * Limit - 1
             /\ w = a + 1 => Cardinality(Of(w)) <= Limit
  <2>1. CASE w \in Windows
    <3>1. w = a + 1 => t <= Start(w)
      <4>1. t < Start(a + 1) /\ Start(a + 1) \in Nat
        BY <1>1, ThreeWindows, StartTyped
      <4> QED BY <1>0, <4>1
    <3> QED BY <1>0, <2>1, <3>1, TwoLives
  <2>2. CASE w \notin Windows
    <3>1. Of(w) = {}
      BY <1>1, <2>2, ThreeWindows DEF ServedOf
    <3>2. Cardinality(Of(w)) = 0
      BY <3>1, FS_EmptySet
    <3> QED BY <1>0, <3>2
  <2> QED BY <2>1, <2>2
<1>5. /\ Cardinality(S) \in Nat
      /\ Cardinality(S) <= Cardinality(Of(a - 1)) + Cardinality(Of(a)) + Cardinality(Of(a + 1))
  BY <1>2, <1>3, ThreeSets
<1>6. /\ Cardinality(Of(a - 1)) \in Nat /\ Cardinality(Of(a - 1)) <= 2 * Limit - 1
      /\ Cardinality(Of(a)) \in Nat /\ Cardinality(Of(a)) <= 2 * Limit - 1
      /\ Cardinality(Of(a + 1)) \in Nat /\ Cardinality(Of(a + 1)) <= Limit
  <2>1. a - 1 \in Int /\ a \in Int /\ a + 1 \in Int
    OBVIOUS
  <2> QED BY <1>4, <2>1
<1> HIDE DEF S, Of
<1>7. Cardinality(S) <= 5 * Limit - 2
  BY <1>0, <1>5, <1>6
<1> QED BY <1>7 DEF S

(***************************************************************************)
(* In a period as long as the window, a client gets at most five limits    *)
(* less two requests through Allow, whatever the limit, the window and the *)
(* deadline are, however many requests it sends and whatever fails.        *)
(***************************************************************************)
THEOREM BurstSafe == Spec => []BurstBounded
<1>1. Init => LimiterInv /\ BurstInv
  BY LimiterInit, BurstInit
<1>2. LimiterInv /\ BurstInv /\ [Next]_vars => LimiterInv' /\ BurstInv'
  <2> SUFFICES ASSUME LimiterInv, BurstInv, [Next]_vars
               PROVE  LimiterInv' /\ BurstInv'
    OBVIOUS
  <2>1. LimiterInv' /\ TypeOK'
    BY LimiterStep DEF LimiterInv
  <2>2. OnTime' /\ TTLInv' /\ LivesInv'
    BY <2>1, OnTimeStep, TTLStep, LivesStep DEF BurstInv
  <2> QED BY <2>1, <2>2 DEF BurstInv
<1>3. LimiterInv /\ BurstInv => BurstBounded
  BY BurstFollows
<1> QED BY <1>1, <1>2, <1>3, PTL DEF Spec
=============================================================================
