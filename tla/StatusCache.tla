---------------------------- MODULE StatusCache -----------------------------
(***************************************************************************)
(* The status of one job through the cache of internal/cache/status_cache  *)
(* .go: GetJobStatus fills it (job_handler.go), the result collector       *)
(* invalidates it, and others change the row and leave the cache alone.    *)
(*                                                                         *)
(* The row is its version, 0 before it is inserted.  Time is discrete.     *)
(* The router cancels the context of a request; the Redis client looks at  *)
(* the context when it takes a connection and not once the command is on   *)
(* its way, so Timeout is how long after its start a request may still     *)
(* write: the router's timeout and the client's I/O timeout together.      *)
(***************************************************************************)
EXTENDS Integers, Faults

CONSTANTS
  Readers,        \* concurrent GET /jobs/{id}
  Collectors,     \* result collectors
  OtherWriters,   \* who changes the row without touching the cache
  TTL,            \* statusCacheTTL, in ticks
  Timeout,        \* the router's timeout and Redis's I/O timeout, in ticks
  MaxVersion,     \* model bound: changes of the row
  MaxTime         \* model bound: ticks

ASSUME StatusCacheAssumption ==
  /\ TTL \in Nat \ {0}
  /\ Timeout \in Nat
  /\ MaxVersion \in Nat
  /\ MaxTime \in Nat

VARIABLES
  version,      \* the row
  replacedAt,   \* history: when version v was replaced
  marked,       \* history: the versions that a collector replaced
  entry,        \* Redis: the set of at most one entry of the job
  reader,       \* where a request is: "idle", "read" or "set"
  startedAt,    \* when the request started
  job,          \* the request's local: the version it read
  served,       \* the version it was last answered with, and when
  collector,    \* what a collector does next: "mark" or "invalidate"
  now

rowVars == <<version, replacedAt, marked>>
readerVars == <<reader, startedAt, job, served>>
vars == <<rowVars, entry, readerVars, collector, now, faults>>

Version == 0 .. MaxVersion
Time == 0 .. MaxTime

\* rowThen is history: the row when the entry was written.
Entry == [version : Version \ {0}, rowThen : Version, expires : 0 .. MaxTime + TTL]

TypeOK ==
  /\ version \in Version
  /\ replacedAt \in [Version -> Time]
  /\ marked \subseteq Version
  /\ entry \subseteq Entry
  /\ reader \in [Readers -> {"idle", "read", "set"}]
  /\ startedAt \in [Readers -> Time]
  /\ job \in [Readers -> Version]
  /\ served \in [Readers -> [version : Version, at : Time]]
  /\ collector \in [Collectors -> {"mark", "invalidate"}]
  /\ now \in Time
  /\ FaultsTypeOK

Init ==
  /\ version = 0
  /\ replacedAt = [v \in Version |-> 0]
  /\ marked = {}
  /\ entry = {}
  /\ reader = [r \in Readers |-> "idle"]
  /\ startedAt = [r \in Readers |-> 0]
  /\ job = [r \in Readers |-> 0]
  /\ served = [r \in Readers |-> [version |-> 0, at |-> 0]]
  /\ collector = [c \in Collectors |-> "mark"]
  /\ now = 0
  /\ FaultsInit

-----------------------------------------------------------------------------
\* Redis drops an entry when its TTL has passed.
Live == {e \in entry : now < e.expires}

Serve(r, v) == served' = [served EXCEPT ![r] = [version |-> v, at |-> now]]

\* X-Cache: HIT.
CacheHit(r) ==
  /\ reader[r] = "idle"
  /\ \E e \in Live : Serve(r, e.version)
  /\ NoFault
  /\ UNCHANGED <<rowVars, entry, reader, startedAt, job, collector, now>>

StartRead(r) ==
  /\ reader' = [reader EXCEPT ![r] = "read"]
  /\ startedAt' = [startedAt EXCEPT ![r] = now]
  /\ UNCHANGED <<rowVars, entry, job, served, collector, now>>

CacheMiss(r) ==
  /\ reader[r] = "idle"
  /\ Live = {}
  /\ StartRead(r)
  /\ NoFault

\* An error of Get is taken for a miss.
CacheGetFails(r) ==
  /\ reader[r] = "idle"
  /\ StartRead(r)
  /\ Fault("redis_error")

\* Variant of InTime: requests have no deadline.
WithoutDeadline(r) == TRUE

\* A statement or command of the request can still take effect: the context is
\* not cancelled, or it was not when the command was sent and the I/O timeout has
\* not passed.  After that Set fails, and the server's WriteTimeout keeps the
\* answer from the client.
InTime(r) == now <= startedAt[r] + Timeout

\* Variant of AfterRead: a missing row is cached as well.
AfterReadFill == "set"

\* Where the handler goes with what Jobs.Get returned.
AfterRead == IF version = 0 THEN "idle" ELSE "set"

\* Jobs.Get; without a row the answer is 404 and nothing is cached.
ReadRow(r) ==
  /\ reader[r] = "read"
  /\ InTime(r)
  /\ job' = [job EXCEPT ![r] = version]
  /\ reader' = [reader EXCEPT ![r] = AfterRead]
  /\ NoFault
  /\ UNCHANGED <<rowVars, entry, startedAt, served, collector, now>>

\* The entry that Set leaves.
Filled(r) == {[version |-> job[r], rowThen |-> version, expires |-> now + TTL]}

FillCache(r) ==
  /\ reader[r] = "set"
  /\ InTime(r)
  /\ entry' = Filled(r)
  /\ reader' = [reader EXCEPT ![r] = "idle"]
  /\ Serve(r, job[r])
  /\ NoFault
  /\ UNCHANGED <<rowVars, startedAt, job, collector, now>>

\* An error of Set is ignored.
FillFails(r) ==
  /\ reader[r] = "set"
  /\ InTime(r)
  /\ reader' = [reader EXCEPT ![r] = "idle"]
  /\ Serve(r, job[r])
  /\ Fault("redis_error")
  /\ UNCHANGED <<rowVars, entry, startedAt, job, collector, now>>

\* The deadline has passed.
TimeOut(r) ==
  /\ reader[r] # "idle"
  /\ ~InTime(r)
  /\ reader' = [reader EXCEPT ![r] = "idle"]
  /\ NoFault
  /\ UNCHANGED <<rowVars, entry, startedAt, job, served, collector, now>>

-----------------------------------------------------------------------------
ChangeRow ==
  /\ version < MaxVersion
  /\ version' = version + 1
  /\ replacedAt' = [replacedAt EXCEPT ![version] = now]

\* SubmitJob inserts the row.
CreateRow ==
  /\ version = 0
  /\ ChangeRow
  /\ NoFault
  /\ UNCHANGED <<marked, entry, readerVars, collector, now>>

\* CancelJob, and the statements of dispatcher and heartbeat monitor.
OtherChange(w) ==
  /\ version > 0
  /\ ChangeRow
  /\ NoFault
  /\ UNCHANGED <<marked, entry, readerVars, collector, now>>

\* MarkCompleted or MarkFailed.
Mark(c) ==
  /\ collector[c] = "mark"
  /\ version > 0
  /\ ChangeRow
  /\ marked' = marked \cup {version}
  /\ collector' = [collector EXCEPT ![c] = "invalidate"]
  /\ NoFault
  /\ UNCHANGED <<entry, readerVars, now>>

\* Variant of AfterInvalidate: Del gets a key that is never set.
EntryKept == entry

\* Del of the job's key.
AfterInvalidate == {}

\* The deferred function, when HandleResult returns.
Invalidate(c) ==
  /\ collector[c] = "invalidate"
  /\ entry' = AfterInvalidate
  /\ collector' = [collector EXCEPT ![c] = "mark"]
  /\ NoFault
  /\ UNCHANGED <<rowVars, readerVars, now>>

\* An error of Invalidate is ignored; or the collector ends before it.
InvalidateFails(c) ==
  /\ collector[c] = "invalidate"
  /\ collector' = [collector EXCEPT ![c] = "mark"]
  /\ Fault("redis_error")
  /\ UNCHANGED <<rowVars, entry, readerVars, now>>

Tick ==
  /\ now < MaxTime
  /\ now' = now + 1
  /\ entry' = {e \in entry : now' < e.expires}
  /\ NoFault
  /\ UNCHANGED <<rowVars, readerVars, collector>>

-----------------------------------------------------------------------------
Next ==
  \/ \E r \in Readers : \/ CacheHit(r)
                        \/ CacheMiss(r)
                        \/ CacheGetFails(r)
                        \/ ReadRow(r)
                        \/ FillCache(r)
                        \/ FillFails(r)
                        \/ TimeOut(r)
  \/ CreateRow
  \/ \E w \in OtherWriters : OtherChange(w)
  \/ \E c \in Collectors : Mark(c) \/ Invalidate(c) \/ InvalidateFails(c)
  \/ Tick

Spec == Init /\ [][Next]_vars

-----------------------------------------------------------------------------
\* Whoever changes the row, whatever races and whatever Redis fails to do, a
\* status is served at most TTL after a request that saw it could still write it
\* to the cache (statusCacheTTL, the context given to Set).
BoundedStaleness ==
  \A r \in Readers :
    LET s == served[r] IN
      s.version > 0 /\ s.version < version /\ s.at > replacedAt[s.version] =>
        s.at - replacedAt[s.version] <= TTL + Timeout

\* A change by the collector invalidates what was cached before it: as long as Redis
\* has not failed, an entry that was current when it was written is current, or only
\* replaced by others, until a collector is about to delete it (comment in
\* HandleResult: "invalidate cache on any status change").
ChangeInvalidates ==
  faults = 0 =>
    \A e \in Live :
      \/ e.version < e.rowThen
      \/ marked \cap (e.version .. version - 1) = {}
      \/ \E c \in Collectors : collector[c] = "invalidate"
=============================================================================
