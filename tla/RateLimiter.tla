---------------------------- MODULE RateLimiter -----------------------------
(***************************************************************************)
(* RateLimiter.Allow of internal/cache/ratelimit.go, called by the         *)
(* RateLimit middleware, for the requests of one client address            *)
(* (the keys of two addresses have nothing in common).                     *)
(*                                                                         *)
(* Allow names the Redis counter after the window the request falls into,  *)
(* increments it and gives it a TTL, in three steps that other requests,   *)
(* and time, come between.  Time is discrete; the router cancels the       *)
(* context of a request after Timeout.                                     *)
(***************************************************************************)
EXTENDS Faults, FiniteSets

CONSTANTS
  NumRequests,   \* model bound: requests, numbered in the order they arrive
  Limit,         \* rl.limit
  Window,        \* rl.window, in ticks
  Timeout,       \* how long a request may take to reach its decision, in ticks
  MaxTime        \* model bound: ticks

ASSUME RateLimiterAssumption ==
  /\ NumRequests \in Nat
  /\ Limit \in Nat \ {0}
  /\ Window \in Nat \ {0}
  /\ Timeout \in 0 .. Window
  /\ MaxTime \in Nat

VARIABLES
  counter,    \* Redis: the counter of each key, 0 when the key does not exist
  expires,    \* Redis: when the key expires; NoTTL when it has no TTL
  stage,      \* where a request is
  key,        \* local: the number in redisKey
  arrived,    \* when the middleware was entered
  decided,    \* when Allow returned
  lost,       \* history: the answers to INCR that were lost, for each key
  now

redisVars == <<counter, expires>>
requestVars == <<stage, key, arrived, decided>>
vars == <<redisVars, requestVars, lost, now, faults>>

Requests == 1 .. NumRequests
Time == 0 .. MaxTime
Windows == 0 .. (MaxTime \div Window)
NoTTL == MaxTime + Window + 1

TypeOK ==
  /\ counter \in [Windows -> 0 .. NumRequests + MaxFaults]
  /\ expires \in [Windows -> 0 .. NoTTL]
  /\ stage \in [Requests -> {"idle", "incr", "expire", "served", "refused", "failed"}]
  /\ key \in [Requests -> Windows]
  /\ arrived \in [Requests -> Time]
  /\ decided \in [Requests -> Time]
  /\ lost \in [Windows -> 0 .. MaxFaults]
  /\ now \in Time
  /\ FaultsTypeOK

Init ==
  /\ counter = [w \in Windows |-> 0]
  /\ expires = [w \in Windows |-> NoTTL]
  /\ stage = [r \in Requests |-> "idle"]
  /\ key = [r \in Requests |-> 0]
  /\ arrived = [r \in Requests |-> 0]
  /\ decided = [r \in Requests |-> 0]
  /\ lost = [w \in Windows |-> 0]
  /\ now = 0
  /\ FaultsInit

-----------------------------------------------------------------------------
\* Variant of WindowOf: the key is the address alone.
OneWindow(t) == 0

\* time.Now().Unix() / window.
WindowOf(t) == t \div Window

Arrive(r) ==
  /\ stage[r] = "idle"
  /\ \A q \in 1 .. (r - 1) : stage[q] # "idle"
  /\ stage' = [stage EXCEPT ![r] = "incr"]
  /\ key' = [key EXCEPT ![r] = WindowOf(now)]
  /\ arrived' = [arrived EXCEPT ![r] = now]
  /\ NoFault
  /\ UNCHANGED <<redisVars, decided, lost, now>>

\* Variant of Incremented: the counter is incremented here and in the middleware.
IncrementedTwice(r) == counter' = [counter EXCEPT ![key[r]] = @ + 2]

Incremented(r) == counter' = [counter EXCEPT ![key[r]] = @ + 1]

\* Variant of Within: one too many.
WithinOneMore(count) == count <= Limit + 1

Within(count) == count <= Limit

\* Allow returns; the middleware calls the next handler or answers 429.
Decide(r, count) ==
  /\ stage' = [stage EXCEPT ![r] = IF Within(count) THEN "served" ELSE "refused"]
  /\ decided' = [decided EXCEPT ![r] = now]

\* INCR of a counter that exists.
Incr(r) ==
  /\ stage[r] = "incr"
  /\ counter[key[r]] > 0
  /\ Incremented(r)
  /\ Decide(r, counter[key[r]] + 1)
  /\ NoFault
  /\ UNCHANGED <<expires, key, arrived, lost, now>>

\* INCR makes the key, without a TTL.
IncrFirst(r) ==
  /\ stage[r] = "incr"
  /\ counter[key[r]] = 0
  /\ Incremented(r)
  /\ stage' = [stage EXCEPT ![r] = "expire"]
  /\ NoFault
  /\ UNCHANGED <<expires, key, arrived, decided, lost, now>>

Expire(r) ==
  /\ stage[r] = "expire"
  /\ expires' = [expires EXCEPT ![key[r]] = now + Window]
  /\ Decide(r, 1)
  /\ NoFault
  /\ UNCHANGED <<counter, key, arrived, lost, now>>

\* An error of EXPIRE is ignored: the key stays for good.
ExpireFails(r) ==
  /\ stage[r] = "expire"
  /\ Decide(r, 1)
  /\ Fault("redis_error")
  /\ UNCHANGED <<redisVars, key, arrived, lost, now>>

\* INCR succeeds and its answer is lost: the client library repeats it, and the
\* request counts once more.
IncrAnswerLost(r) ==
  /\ stage[r] = "incr"
  /\ Incremented(r)
  /\ lost' = [lost EXCEPT ![key[r]] = @ + 1]
  /\ Fault("redis_error")
  /\ UNCHANGED <<expires, requestVars, now>>

\* The answer is 500.
IncrFails(r) ==
  /\ stage[r] = "incr"
  /\ stage' = [stage EXCEPT ![r] = "failed"]
  /\ Fault("redis_error")
  /\ UNCHANGED <<redisVars, key, arrived, decided, lost, now>>

\* The server is gone.
Crash(r) ==
  /\ stage[r] \in {"incr", "expire"}
  /\ stage' = [stage EXCEPT ![r] = "failed"]
  /\ Fault("crash")
  /\ UNCHANGED <<redisVars, key, arrived, decided, lost, now>>

\* Time passes, and Redis drops the keys whose TTL has passed.  A request that
\* has come to its deadline is decided, or fails, before.
Tick ==
  /\ now < MaxTime
  /\ \A r \in Requests : stage[r] \in {"incr", "expire"} => now < arrived[r] + Timeout
  /\ now' = now + 1
  /\ counter' = [w \in Windows |-> IF now' < expires[w] THEN counter[w] ELSE 0]
  /\ expires' = [w \in Windows |-> IF now' < expires[w] THEN expires[w] ELSE NoTTL]
  /\ NoFault
  /\ UNCHANGED <<requestVars, lost>>

-----------------------------------------------------------------------------
Next ==
  \/ \E r \in Requests : \/ Arrive(r)
                         \/ Incr(r)
                         \/ IncrFirst(r)
                         \/ Expire(r)
                         \/ ExpireFails(r)
                         \/ IncrAnswerLost(r)
                         \/ IncrFails(r)
                         \/ Crash(r)
  \/ Tick

Spec == Init /\ [][Next]_vars

-----------------------------------------------------------------------------
ServedIn(first, last) == {r \in Requests : stage[r] = "served" /\ decided[r] \in first .. last}

\* The windows are fixed and not sliding, and requests are late: a period as long as
\* the window meets the requests of three windows.  In the first two the counter may
\* expire in the period and be started again, which gives two limits less the request
\* that started it first, before the period (Allow takes the time before INCR, and the
\* TTL runs from the first request).
BurstBounded ==
  \A t \in Time : Cardinality(ServedIn(t, t + Window - 1)) <= 5 * Limit - 2

\* Nobody is locked out: who is refused has sent a limit of other requests in the
\* same window, less the answers to its INCRs that were lost, so waiting a window
\* (Retry-After) is enough even where the counter never got its TTL, because EXPIRE
\* failed or the server ended before it.
RefusedOnlyWhenBusy ==
  \A r \in Requests :
    stage[r] = "refused" =>
      Limit <= lost[arrived[r] \div Window]
               + Cardinality({q \in Requests \ {r} :
                                /\ stage[q] # "idle"
                                /\ arrived[q] \div Window = arrived[r] \div Window})
=============================================================================
