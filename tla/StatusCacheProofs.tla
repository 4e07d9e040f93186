------------------------- MODULE StatusCacheProofs --------------------------
(***************************************************************************)
(* How stale a status can be, for any number of requests, collectors and   *)
(* other writers, any TTL and any timeout.                                 *)
(***************************************************************************)
EXTENDS StatusCache, TLAPS

(***************************************************************************)
(* What the bound rests on.  A request that is about to write the cache    *)
(* started before the status it holds was replaced, so the deadline of the *)
(* request limits how late it writes, and the TTL how long the entry is    *)
(* served after that.                                                      *)
(***************************************************************************)

\* Versions that were replaced have been so by now, and only those are marked.
RowInv ==
  /\ \A v \in Version : replacedAt[v] <= now
  /\ \A v \in marked : v < version

\* A request about to write the cache read a row after it started; if the row was
\* replaced since, this was after the request started too.
ReaderInv ==
  \A r \in Readers :
    /\ startedAt[r] <= now
    /\ reader[r] = "set" =>
         /\ 0 < job[r] /\ job[r] <= version
         /\ job[r] < version => startedAt[r] <= replacedAt[job[r]]

\* An entry ends with its TTL, counted from the deadline of the request that wrote
\* it when its status is out of date.
EntryInv ==
  \A e \in entry :
    /\ e.version <= version
    /\ e.expires <= now + TTL
    /\ e.version < version => e.expires <= replacedAt[e.version] + Timeout + TTL

ServedInv ==
  \A r \in Readers :
    /\ served[r].version <= version
    /\ served[r].at <= now
    /\ 0 < served[r].version /\ served[r].version < version =>
         served[r].at <= replacedAt[served[r].version] + Timeout + TTL

\* ChangeInvalidates, of all entries: the collector deletes an entry whether it
\* has expired or not.
MarkedInv ==
  faults = 0 =>
    \A e \in entry :
      \/ e.version < e.rowThen
      \/ \A v \in marked : v < e.version
      \/ \E c \in Collectors : collector[c] = "invalidate"

CacheInv == TypeOK /\ RowInv /\ ReaderInv /\ EntryInv /\ ServedInv /\ MarkedInv

-----------------------------------------------------------------------------
LEMMA CacheInvInit == Init => CacheInv
<1> SUFFICES ASSUME Init PROVE CacheInv
  OBVIOUS
<1>1. TypeOK
  <2>1. FaultsTypeOK
    BY FaultsAssumption DEF Init, FaultsInit, FaultsTypeOK
  <2> QED BY <2>1, StatusCacheAssumption DEF Init, TypeOK, Version, Time
<1>2. RowInv /\ ReaderInv /\ EntryInv /\ ServedInv /\ MarkedInv
  BY DEF Init, RowInv, ReaderInv, EntryInv, ServedInv, MarkedInv
<1> QED BY <1>1, <1>2 DEF CacheInv

\* An answer keeps the bound when what it says was current late enough.
LEMMA ServedKept ==
  ASSUME TypeOK, ServedInv, NEW r \in Readers, NEW v \in Version, v <= version,
         v < version => now <= replacedAt[v] + Timeout + TTL,
         served' = [served EXCEPT ![r] = [version |-> v, at |-> now]],
         version' = version, replacedAt' = replacedAt, now' = now
  PROVE  ServedInv'
<1> SUFFICES ASSUME NEW q \in Readers
             PROVE  /\ served'[q].version <= version
                    /\ served'[q].at <= now
                    /\ 0 < served'[q].version /\ served'[q].version < version =>
                         served'[q].at <= replacedAt[served'[q].version] + Timeout + TTL
  BY DEF ServedInv
<1>1. CASE q = r
  <2>1. served'[q] = [version |-> v, at |-> now]
    BY <1>1 DEF TypeOK
  <2> QED BY <2>1, StatusCacheAssumption DEF TypeOK, Time
<1>2. CASE q # r
  BY <1>2 DEF TypeOK, ServedInv
<1> QED BY <1>1, <1>2

\* A request looks into the cache, and answers or goes to the database.
LEMMA LookupStep ==
  ASSUME CacheInv, NEW r \in Readers,
         CacheHit(r) \/ CacheMiss(r) \/ CacheGetFails(r)
  PROVE  CacheInv'
<1> USE StatusCacheAssumption, FaultsAssumption DEF Version, Time
<1>1. FaultsTypeOK'
  BY DEF CacheHit, CacheMiss, CacheGetFails, Fault, NoFault, FaultsTypeOK, CacheInv, TypeOK
<1>2. CASE CacheHit(r)
  <2>1. PICK e \in Live : Serve(r, e.version)
    BY <1>2 DEF CacheHit
  <2>2. /\ e \in entry /\ e \in Entry /\ now < e.expires
        /\ served' = [served EXCEPT ![r] = [version |-> e.version, at |-> now]]
    BY <2>1 DEF Live, Serve, CacheInv, TypeOK
  <2>3. UNCHANGED <<rowVars, entry, reader, startedAt, job, collector, now, faults>>
    BY <1>2 DEF CacheHit, NoFault
  <2>4. TypeOK'
    BY <1>1, <2>2, <2>3 DEF CacheInv, TypeOK, rowVars, Entry
  <2>5. RowInv' /\ ReaderInv' /\ EntryInv' /\ MarkedInv'
    BY <2>3 DEF CacheInv, RowInv, ReaderInv, EntryInv, MarkedInv, rowVars
  <2>6. /\ e.version \in Version /\ e.version <= version
        /\ now \in Time /\ e.expires \in Nat /\ replacedAt[e.version] \in Time
        /\ e.version < version => e.expires <= replacedAt[e.version] + Timeout + TTL
    BY <2>2 DEF CacheInv, TypeOK, EntryInv, Entry
  <2>7. e.version < version => now <= replacedAt[e.version] + Timeout + TTL
    BY <2>2, <2>6
  <2>8. ServedInv'
    BY <2>2, <2>3, <2>6, <2>7, ServedKept DEF CacheInv, rowVars
  <2> QED BY <2>4, <2>5, <2>8 DEF CacheInv
<1>3. CASE CacheMiss(r) \/ CacheGetFails(r)
  <2>1. StartRead(r) /\ (faults' = 0 => faults = 0)
    BY <1>3 DEF CacheMiss, CacheGetFails, NoFault, Fault, CacheInv, TypeOK, FaultsTypeOK
  <2>2. TypeOK'
    BY <1>1, <2>1 DEF CacheInv, TypeOK, StartRead, rowVars
  <2>3. RowInv' /\ EntryInv' /\ ServedInv' /\ MarkedInv'
    BY <2>1 DEF CacheInv, RowInv, EntryInv, ServedInv, MarkedInv, StartRead, rowVars
  <2>4. ReaderInv'
    BY <2>1 DEF CacheInv, TypeOK, ReaderInv, StartRead, rowVars
  <2> QED BY <2>2, <2>3, <2>4 DEF CacheInv
<1> QED BY <1>2, <1>3

\* A request that missed reads the row, writes the cache and answers, or gives up.
LEMMA FillStep ==
  ASSUME CacheInv, NEW r \in Readers,
         ReadRow(r) \/ FillCache(r) \/ FillFails(r) \/ TimeOut(r)
  PROVE  CacheInv'
<1> USE StatusCacheAssumption, FaultsAssumption DEF Version, Time
<1>1. FaultsTypeOK' /\ (faults' = 0 => faults = 0)
  BY DEF ReadRow, FillCache, FillFails, TimeOut, Fault, NoFault, FaultsTypeOK, CacheInv, TypeOK
<1>2. UNCHANGED <<rowVars, startedAt, collector, now>> /\ RowInv'
  BY DEF ReadRow, FillCache, FillFails, TimeOut, CacheInv, RowInv, rowVars
<1>3. CASE ReadRow(r)
  <2>1. /\ job' = [job EXCEPT ![r] = version]
        /\ reader' = [reader EXCEPT ![r] = AfterRead]
        /\ AfterRead \in {"idle", "set"} /\ (AfterRead = "set" => version > 0)
        /\ UNCHANGED <<entry, served>>
    BY <1>3 DEF ReadRow, AfterRead, CacheInv, TypeOK
  <2>2. TypeOK'
    BY <1>1, <1>2, <2>1 DEF CacheInv, TypeOK, rowVars
  <2>3. EntryInv' /\ ServedInv' /\ MarkedInv'
    BY <1>1, <1>2, <2>1 DEF CacheInv, EntryInv, ServedInv, MarkedInv, rowVars
  <2>4. ReaderInv'
    BY <1>2, <2>1 DEF CacheInv, TypeOK, ReaderInv, rowVars
  <2> QED BY <1>2, <2>2, <2>3, <2>4 DEF CacheInv
<1>4. CASE FillCache(r) \/ FillFails(r)
  <2>1. /\ reader[r] = "set" /\ now <= startedAt[r] + Timeout
        /\ reader' = [reader EXCEPT ![r] = "idle"]
        /\ served' = [served EXCEPT ![r] = [version |-> job[r], at |-> now]]
        /\ job' = job
    BY <1>4 DEF FillCache, FillFails, InTime, Serve
  <2>2. /\ job[r] \in Version \ {0} /\ job[r] <= version
        /\ startedAt[r] \in Time /\ replacedAt[job[r]] \in Time
        /\ job[r] < version => startedAt[r] <= replacedAt[job[r]]
    BY <2>1 DEF CacheInv, TypeOK, ReaderInv
  <2>3. job[r] < version => now <= replacedAt[job[r]] + Timeout + TTL
    BY <2>1, <2>2 DEF CacheInv, TypeOK
  <2>4. entry' = entry \/ entry' = Filled(r)
    BY <1>4 DEF FillCache, FillFails
  <2>5. entry' \subseteq Entry
    BY <2>2, <2>4 DEF Filled, Entry, CacheInv, TypeOK
  <2>6. TypeOK'
    BY <1>1, <1>2, <2>1, <2>2, <2>5 DEF CacheInv, TypeOK, rowVars
  <2>7. ReaderInv'
    BY <1>2, <2>1 DEF CacheInv, TypeOK, ReaderInv, rowVars
  <2>8. ServedInv'
    BY <1>2, <2>1, <2>2, <2>3, ServedKept DEF CacheInv, rowVars
  <2>9. EntryInv'
    <3>1. CASE entry' = entry
      BY <1>2, <3>1 DEF CacheInv, EntryInv, rowVars
    <3>2. CASE entry' = Filled(r)
      <4>1. now + TTL <= replacedAt[job[r]] + Timeout + TTL \/ job[r] = version
        BY <2>1, <2>2 DEF CacheInv, TypeOK
      <4> QED BY <1>2, <2>2, <3>2, <4>1 DEF CacheInv, TypeOK, EntryInv, Filled, rowVars
    <3> QED BY <2>4, <3>1, <3>2
  <2>10. MarkedInv'
    BY <1>1, <1>2, <2>2, <2>4
    DEF CacheInv, TypeOK, MarkedInv, RowInv, Filled, rowVars
  <2> QED BY <1>2, <2>6, <2>7, <2>8, <2>9, <2>10 DEF CacheInv
<1>5. CASE TimeOut(r)
  BY <1>1, <1>2, <1>5
  DEF TimeOut, CacheInv, TypeOK, ReaderInv, EntryInv, ServedInv, MarkedInv, rowVars
<1> QED BY <1>3, <1>4, <1>5

\* The row changes, and a collector may have to invalidate the cache.
LEMMA ChangeStep ==
  ASSUME CacheInv, ChangeRow, NoFault,
         UNCHANGED <<entry, readerVars, now>>,
         \/ UNCHANGED <<marked, collector>>
         \/ \E c \in Collectors : /\ marked' = marked \cup {version}
                                  /\ collector' = [collector EXCEPT ![c] = "invalidate"]
  PROVE  CacheInv'
<1> USE StatusCacheAssumption DEF Version, Time
<1>1. /\ version' = version + 1 /\ version \in Version /\ version' \in Version
      /\ replacedAt' = [replacedAt EXCEPT ![version] = now]
  BY DEF ChangeRow, CacheInv, TypeOK
<1>2. /\ replacedAt' \in [Version -> Time] /\ replacedAt'[version] = now
      /\ \A v \in Version : v # version => replacedAt'[v] = replacedAt[v]
  BY <1>1 DEF CacheInv, TypeOK
<1>3. marked' \subseteq Version /\ \A v \in marked' : v < version'
  <2>1. marked' \subseteq marked \cup {version}
    OBVIOUS
  <2>2. \A v \in marked : v \in Version /\ v < version
    BY DEF CacheInv, TypeOK, RowInv
  <2> QED BY <1>1, <2>1, <2>2
<1>4. collector' \in [Collectors -> {"mark", "invalidate"}]
  BY DEF CacheInv, TypeOK
<1>5. TypeOK'
  BY <1>1, <1>2, <1>3, <1>4 DEF CacheInv, TypeOK, readerVars, NoFault, FaultsTypeOK
<1>6. RowInv'
  BY <1>1, <1>2, <1>3 DEF CacheInv, TypeOK, RowInv
<1>7. ReaderInv'
  BY <1>1, <1>2 DEF CacheInv, TypeOK, ReaderInv, readerVars
<1>8. EntryInv'
  <2> SUFFICES ASSUME NEW e \in entry
               PROVE  /\ e.version <= version'
                      /\ e.expires <= now + TTL
                      /\ e.version < version' =>
                           e.expires <= replacedAt'[e.version] + Timeout + TTL
    BY DEF EntryInv
  <2>1. /\ e.version \in Version /\ e.expires \in Nat /\ e.version <= version
        /\ e.expires <= now + TTL
        /\ e.version < version => e.expires <= replacedAt[e.version] + Timeout + TTL
    BY DEF CacheInv, TypeOK, EntryInv, Entry
  <2>2. now \in Nat
    BY DEF CacheInv, TypeOK
  <2>3. replacedAt'[e.version] \in Nat
    BY <1>2, <2>1
  <2>4. CASE e.version = version
    <3>1. replacedAt'[e.version] = now
      BY <1>2, <2>4
    <3> QED BY <1>1, <2>1, <2>2, <2>4, <3>1
  <2>5. CASE e.version # version
    <3>1. replacedAt'[e.version] = replacedAt[e.version]
      BY <1>2, <2>1, <2>5
    <3> QED BY <1>1, <2>1, <2>2, <2>3, <2>5, <3>1
  <2> QED BY <2>4, <2>5
<1>9. ServedInv'
  <2> SUFFICES ASSUME NEW r \in Readers
               PROVE  /\ served[r].version <= version'
                      /\ served[r].at <= now
                      /\ 0 < served[r].version /\ served[r].version < version' =>
                           served[r].at <= replacedAt'[served[r].version] + Timeout + TTL
    BY DEF ServedInv, readerVars
  <2>1. served[r].version \in Version /\ served[r].at \in Time
    BY DEF CacheInv, TypeOK
  <2>2. served[r].version <= version /\ served[r].at <= now /\ now \in Time
    BY DEF CacheInv, TypeOK, ServedInv
  <2>3. CASE served[r].version = version
    BY <1>1, <1>2, <2>1, <2>2, <2>3
  <2>4. CASE served[r].version # version
    <3>1. replacedAt'[served[r].version] = replacedAt[served[r].version]
      BY <1>2, <2>1, <2>4
    <3>2. 0 < served[r].version =>
            served[r].at <= replacedAt[served[r].version] + Timeout + TTL
      BY <1>1, <2>1, <2>2, <2>4 DEF CacheInv, ServedInv
    <3> QED BY <1>1, <2>1, <2>2, <2>4, <3>1, <3>2
  <2> QED BY <2>3, <2>4
<1>10. MarkedInv'
  BY DEF CacheInv, TypeOK, MarkedInv, NoFault
<1> QED BY <1>5, <1>6, <1>7, <1>8, <1>9, <1>10 DEF CacheInv

\* A collector invalidates the cache or fails to.
LEMMA InvalidateStep ==
  ASSUME CacheInv, NEW c \in Collectors, Invalidate(c) \/ InvalidateFails(c)
  PROVE  CacheInv'
<1> USE FaultsAssumption
<1>1. /\ UNCHANGED <<rowVars, readerVars, now>>
      /\ collector' = [collector EXCEPT ![c] = "mark"]
      /\ entry' = {} \/ (entry' = entry /\ faults' = faults + 1)
      /\ faults' = faults \/ (faults < MaxFaults /\ faults' = faults + 1)
  BY DEF Invalidate, InvalidateFails, AfterInvalidate, Fault, NoFault, rowVars, readerVars
<1>2. FaultsTypeOK' /\ faults \in Nat
  BY <1>1 DEF CacheInv, TypeOK, FaultsTypeOK
<1>3. TypeOK'
  BY <1>2, <1>1 DEF CacheInv, TypeOK, rowVars, readerVars
<1>4. RowInv' /\ ReaderInv' /\ ServedInv' /\ EntryInv'
  BY <1>1 DEF CacheInv, RowInv, ReaderInv, ServedInv, EntryInv, rowVars, readerVars
<1>5. MarkedInv'
  BY <1>2, <1>1 DEF MarkedInv
<1> QED BY <1>3, <1>4, <1>5 DEF CacheInv

LEMMA TickStep ==
  ASSUME CacheInv, Tick
  PROVE  CacheInv'
<1> USE StatusCacheAssumption DEF Time
<1>1. /\ now' = now + 1 /\ now \in Time /\ now' \in Time
      /\ entry' \subseteq entry
      /\ UNCHANGED <<rowVars, readerVars, collector, faults>>
  BY DEF Tick, NoFault, CacheInv, TypeOK
<1>2. TypeOK'
  BY <1>1 DEF CacheInv, TypeOK, rowVars, readerVars, FaultsTypeOK
<1>3. RowInv' /\ ReaderInv' /\ ServedInv' /\ MarkedInv'
  BY <1>1 DEF CacheInv, TypeOK, RowInv, ReaderInv, ServedInv, MarkedInv, rowVars, readerVars
<1>4. EntryInv'
  BY <1>1 DEF CacheInv, TypeOK, EntryInv, Entry, rowVars
<1> QED BY <1>2, <1>3, <1>4 DEF CacheInv

LEMMA CacheInvInductive ==
  ASSUME CacheInv, [Next]_vars
  PROVE  CacheInv'
<1>1. CASE UNCHANGED vars
  BY <1>1 DEF vars, rowVars, readerVars, CacheInv, TypeOK, RowInv, ReaderInv, EntryInv,
              ServedInv, MarkedInv, FaultsTypeOK
<1>2. CASE CreateRow \/ \E w \in OtherWriters : OtherChange(w)
  BY <1>2, ChangeStep DEF CreateRow, OtherChange
<1>3. ASSUME NEW c \in Collectors, Mark(c)
      PROVE  CacheInv'
  BY <1>3, ChangeStep DEF Mark
<1> QED
  BY <1>1, <1>2, <1>3, LookupStep, FillStep, InvalidateStep, TickStep DEF Next

-----------------------------------------------------------------------------
LEMMA CacheInvImplies ==
  ASSUME CacheInv
  PROVE  BoundedStaleness /\ ChangeInvalidates
<1>1. BoundedStaleness
  BY StatusCacheAssumption
  DEF CacheInv, TypeOK, ServedInv, BoundedStaleness, Version, Time
<1>2. ChangeInvalidates
  <2> SUFFICES ASSUME faults = 0, NEW e \in Live, ~(e.version < e.rowThen),
                      \A c \in Collectors : collector[c] # "invalidate"
               PROVE  marked \cap (e.version .. version - 1) = {}
    BY DEF ChangeInvalidates
  <2>1. \A v \in marked : v < e.version
    BY DEF CacheInv, MarkedInv, Live
  <2>2. marked \subseteq Nat /\ e.version \in Nat
    BY DEF CacheInv, TypeOK, Version, Live, Entry
  <2> QED BY <2>1, <2>2
<1> QED BY <1>1, <1>2

THEOREM CacheTyped == Spec => []TypeOK
<1>1. CacheInv => TypeOK
  BY DEF CacheInv
<1>2. CacheInv /\ [Next]_vars => CacheInv'
  BY CacheInvInductive
<1> QED BY <1>1, <1>2, CacheInvInit, PTL DEF Spec

\* However requests, writers and collectors race and whatever Redis fails to do,
\* no status is served later than the TTL plus the request timeout after it was
\* replaced.
THEOREM StalenessBounded == Spec => []BoundedStaleness
<1>1. CacheInv => BoundedStaleness
  BY CacheInvImplies
<1>2. CacheInv /\ [Next]_vars => CacheInv'
  BY CacheInvInductive
<1> QED BY <1>1, <1>2, CacheInvInit, PTL DEF Spec

\* Without a failure of Redis, a collector's change removes what was cached before
\* it.
THEOREM CollectorInvalidates == Spec => []ChangeInvalidates
<1>1. CacheInv => ChangeInvalidates
  BY CacheInvImplies
<1>2. CacheInv /\ [Next]_vars => CacheInv'
  BY CacheInvInductive
<1> QED BY <1>1, <1>2, CacheInvInit, PTL DEF Spec
=============================================================================
