------------------------------- MODULE Paging -------------------------------
(***************************************************************************)
(* The lists of the API: GET /jobs, /workers and /dead-letters answer one  *)
(* page, newest first, with LIMIT and OFFSET.  A client walks a list page  *)
(* by page, and rows are inserted, change or go away in between: every     *)
(* page is a statement of its own.                                         *)
(***************************************************************************)
EXTENDS Naturals, FiniteSetsExt

CONSTANTS
  Tables,         \* the lists a client walks: of "jobs", "workers", "dead_letters"
  Rows,           \* the rows that are inserted at some time
  FirstRows,      \* those that are there at first, in the order of their numbers
  SameTime,       \* those inserted in the microsecond of the row before
  Asked,          \* the limits a client sends; 0 stands for one that is not a positive number
  DefaultLimit,   \* 50 in the code
  MaxChanges      \* model bound: changes of the table during the walk

ASSUME PagingAssumption ==
  /\ Tables \subseteq {"jobs", "workers", "dead_letters"}
  /\ FirstRows \subseteq Rows
  /\ Rows \subseteq Nat
  /\ IsFiniteSet(Rows)
  /\ SameTime \subseteq FirstRows
  /\ \A i \in SameTime : \E j \in FirstRows \ SameTime : j < i
  /\ Asked \subseteq Nat
  /\ DefaultLimit \in Nat \ {0}
  /\ MaxChanges \in Nat

VARIABLES
  table,     \* the list the client walks
  filtered,  \* whether it asks for one status
  stamp,     \* created_at, or last_heartbeat of a worker; 0 before the insert
  listed,    \* the rows that are there and have the status asked for
  newest,    \* the current time, as a number of the order
  walk,      \* client: "start", "going" or "ended"
  offset,    \* client: the offset of the next page
  seen,      \* client: the rows it was given
  repeats,   \* history: how many it was given again
  initial,   \* history: the list when the first page was read
  left,      \* history: how many times since then a row left the list or moved
  joined     \* history: how many times since then a row joined the list or moved

clientVars == <<table, filtered, walk, offset, seen, repeats, initial>>
vars == <<stamp, listed, newest, clientVars, left, joined>>

MaxStamp == Cardinality(FirstRows) + MaxChanges

TypeOK ==
  /\ table \in Tables
  /\ filtered \in BOOLEAN
  /\ stamp \in [Rows -> 0 .. MaxStamp]
  /\ listed \subseteq {i \in Rows : stamp[i] > 0}
  /\ newest \in 0 .. MaxStamp
  /\ walk \in {"start", "going", "ended"}
  /\ offset \in Nat
  /\ seen \subseteq Rows
  /\ repeats \in Nat
  /\ initial \subseteq Rows
  /\ {left, joined} \subseteq 0 .. MaxChanges + 1

Init ==
  /\ table \in Tables
  /\ filtered \in BOOLEAN
  /\ filtered => table # "dead_letters"
  /\ stamp = [i \in Rows |-> IF i \in FirstRows
                             THEN Cardinality({j \in FirstRows \ SameTime : j <= i})
                             ELSE 0]
  /\ listed \in SUBSET FirstRows
  /\ filtered \/ listed = FirstRows
  /\ newest = Cardinality(FirstRows \ SameTime)
  /\ walk = "start"
  /\ offset = 0
  /\ seen = {}
  /\ repeats = 0
  /\ initial = {}
  /\ left = 0
  /\ joined = 0

-----------------------------------------------------------------------------
\* The first n rows in descending order; rows with the same stamp are in no
\* particular order.
Prefixes(n) ==
  {F \in SUBSET listed :
     /\ Cardinality(F) = Min({n, Cardinality(listed)})
     /\ \A i \in F, j \in listed \ F : stamp[i] >= stamp[j]}

\* Variant of Page: the row at the offset is left out.
PageAfter(limit, from) ==
  {p[2] \ p[1] : p \in {q \in Prefixes(from + 1) \X Prefixes(from + limit) : q[1] \subseteq q[2]}}

\* Variant of Page: one more row, to know whether there is a next page, is not cut.
PageOneMore(limit, from) ==
  {p[2] \ p[1] : p \in {q \in Prefixes(from) \X Prefixes(from + limit + 1) : q[1] \subseteq q[2]}}

\* ORDER BY ... DESC LIMIT limit OFFSET from: the pages it may return.
Page(limit, from) ==
  {p[2] \ p[1] : p \in {q \in Prefixes(from) \X Prefixes(from + limit) : q[1] \subseteq q[2]}}

\* pgJobsRepo.List, pgWorkersRepo.List and pgDeadLettersRepo.List.
JobsList(limit, from) == Page(limit, from)
WorkersList(limit, from) == Page(limit, from)
DeadLettersList(limit, from) == Page(limit, from)

\* A limit that does not parse, or is not positive, is the default.
EffectiveLimit(asked) == IF asked > 0 THEN asked ELSE DefaultLimit

\* The client takes the page and goes on behind it; a page that is not full is
\* the last one.
Receive(page, limit) ==
  /\ walk' = IF Cardinality(page) < limit THEN "ended" ELSE "going"
  /\ offset' = offset + limit
  /\ seen' = seen \cup page
  /\ repeats' = repeats + Cardinality(seen \cap page)
  /\ initial' = IF walk = "start" THEN listed ELSE initial
  /\ UNCHANGED <<table, filtered, stamp, listed, newest, left, joined>>

ListJobs(asked) ==
  /\ table = "jobs"
  /\ walk # "ended"
  /\ \E page \in JobsList(EffectiveLimit(asked), offset) : Receive(page, EffectiveLimit(asked))

ListWorkers(asked) ==
  /\ table = "workers"
  /\ walk # "ended"
  /\ \E page \in WorkersList(EffectiveLimit(asked), offset) : Receive(page, EffectiveLimit(asked))

ListDeadLetters(asked) ==
  /\ table = "dead_letters"
  /\ walk # "ended"
  /\ \E page \in DeadLettersList(EffectiveLimit(asked), offset) : Receive(page, EffectiveLimit(asked))

-----------------------------------------------------------------------------
\* Changes of the table between two pages.
Change(newStamp, out, in) ==
  /\ walk = "going"
  /\ left + joined < MaxChanges
  /\ stamp' = newStamp
  /\ listed' = (listed \ out) \cup in
  /\ left' = left + Cardinality(out)
  /\ joined' = joined + Cardinality(in)
  /\ UNCHANGED clientVars

\* Variant of Stamped: the column has no default.
Unstamped(i, t) == stamp

Stamped(i, t) == [stamp EXCEPT ![i] = t]

\* Whether a row has the status that was asked for.
Matches(i) == IF filtered THEN SUBSET {i} ELSE {{i}}

\* Jobs.Create and DeadLetters.Insert.
Insert(i) ==
  /\ table \in {"jobs", "dead_letters"}
  /\ stamp[i] = 0
  /\ \E in \in Matches(i) : Change(Stamped(i, newest + 1), {}, in)
  /\ newest < MaxStamp
  /\ newest' = newest + 1

\* UpsertHeartbeat: a worker goes to the front.  It was UNHEALTHY, or it keeps its
\* status.
Heartbeat(i) ==
  /\ table = "workers"
  /\ \E in \in Matches(i) : Change(Stamped(i, newest + 1), {i} \cap listed, in)
  /\ newest < MaxStamp
  /\ newest' = newest + 1

\* The status of a job or of a worker changes: away from the one asked for.
Leave(i) ==
  /\ table # "dead_letters"
  /\ filtered
  /\ i \in listed
  /\ Change(stamp, {i}, {})
  /\ UNCHANGED newest

\* Or to it.
Join(i) ==
  /\ table # "dead_letters"
  /\ filtered
  /\ stamp[i] > 0
  /\ i \notin listed
  /\ Change(stamp, {}, {i})
  /\ UNCHANGED newest

\* DeadLetters.Delete.
Delete(i) ==
  /\ table = "dead_letters"
  /\ i \in listed
  /\ Change(stamp, {i}, {})
  /\ UNCHANGED newest

-----------------------------------------------------------------------------
Next ==
  \/ \E asked \in Asked : ListJobs(asked) \/ ListWorkers(asked) \/ ListDeadLetters(asked)
  \/ \E i \in Rows : \/ Insert(i)
                     \/ Heartbeat(i)
                     \/ Leave(i)
                     \/ Join(i)
                     \/ Delete(i)

Spec == Init /\ [][Next]_vars

-----------------------------------------------------------------------------
\* New rows push no row out of sight: a client that has come to the end misses at
\* most one row for each that left the list or was moved in it, and one for each
\* that has the time of another (OFFSET counts rows from the newest, ORDER BY has
\* no second column).
MissedBounded ==
  walk = "ended" => Cardinality((initial \cap listed) \ seen) <= left + Cardinality(SameTime)

\* And it is given a row again at most once for each that joined the list or moved,
\* and once for each with the time of another.
RepeatsBounded == repeats <= joined + Cardinality(SameTime)
=============================================================================
