---------------------------- MODULE Idempotency -----------------------------
(***************************************************************************)
(* SubmitJob (internal/api/http/handler/job_handler.go) with the store of  *)
(* idempotency keys (internal/cache/idempotency.go).                       *)
(*                                                                         *)
(* A request takes its key in Redis with SETNX and then inserts its job in *)
(* PostgreSQL; a request that finds the key taken answers with the job the *)
(* key names.  SHA-256 is taken to be injective: a hash is the string that *)
(* is hashed.  A client repeats a request that was answered with 500.      *)
(***************************************************************************)
EXTENDS Faults, Sequences

CONSTANTS
  Requests,   \* the submissions
  Type,       \* Type[r]: the job type, a sequence of characters
  Payload,    \* Payload[r]: the payload, a sequence of characters
  Header,     \* Header[r]: the Idempotency-Key header
  NoHeader,   \* the header is not set
  JobIds,     \* the UUIDs
  Nil

VARIABLES
  store,    \* Redis: the entry of a key, or Nil
  rows,     \* PostgreSQL: the rows of jobs by id, or Nil
  pc,       \* where the handler of a request is
  id,       \* its local: job.ID, then existingID
  answer,   \* the status code of the last answer, 0 before there is one
  expired   \* history: the job ids of the entries that have expired

vars == <<store, rows, pc, id, answer, expired, faults>>

-----------------------------------------------------------------------------
\* sha256 of the type followed by the payload, with nothing between them.
PayloadHash(r) == Type[r] \o Payload[r]

\* The header, or ContentKey.
idemKey(r) == IF Header[r] = NoHeader THEN <<"auto", PayloadHash(r)>>
                                      ELSE <<"header", Header[r]>>

Keys == {idemKey(r) : r \in Requests}

\* What a row holds: its content and, to state properties, the key it is for.
Row(r) == [type |-> Type[r], payload |-> Payload[r], key |-> idemKey(r)]

idemEntry == [job : JobIds, hash : {PayloadHash(r) : r \in Requests}]

ASSUME IdempotencyAssumption ==
  Nil \notin JobIds \cup idemEntry \cup {Row(r) : r \in Requests}

TypeOK ==
  /\ store \in [Keys -> idemEntry \cup {Nil}]
  /\ rows \in [JobIds -> {Row(r) : r \in Requests} \cup {Nil}]
  /\ pc \in [Requests -> {"check", "get", "fetch", "create", "done"}]
  /\ id \in [Requests -> JobIds \cup {Nil}]
  /\ answer \in [Requests -> {0, 200, 201, 409, 500}]
  /\ expired \subseteq JobIds
  /\ FaultsTypeOK

Init ==
  /\ store = [k \in Keys |-> Nil]
  /\ rows = [i \in JobIds |-> Nil]
  /\ pc = [r \in Requests |-> "check"]
  /\ id = [r \in Requests |-> Nil]
  /\ answer = [r \in Requests |-> 0]
  /\ expired = {}
  /\ FaultsInit

\* The UUIDs that occur nowhere; which of them NewJob draws makes no difference.
Unused == {i \in JobIds \ expired :
                          /\ rows[i] = Nil
                          /\ \A r \in Requests : id[r] # i
                          /\ \A k \in Keys : store[k] # Nil => store[k].job # i}
NewID == CHOOSE i \in Unused : TRUE

-----------------------------------------------------------------------------
GoTo(r, place) == pc' = [pc EXCEPT ![r] = place] /\ UNCHANGED answer

Reply(r, code) ==
  /\ answer' = [answer EXCEPT ![r] = code]
  /\ pc' = [pc EXCEPT ![r] = "done"]

\* Variant of Taken: SET instead of SETNX.
NeverTaken(r) == FALSE

\* SETNX finds the key.
Taken(r) == store[idemKey(r)] # Nil

Take(r) ==
  /\ Unused # {}
  /\ store' = [store EXCEPT ![idemKey(r)] = [job |-> NewID, hash |-> PayloadHash(r)]]

\* models.NewJob, then SETNX sets the key.
SetNX(r) ==
  /\ pc[r] = "check"
  /\ ~Taken(r)
  /\ Take(r)
  /\ id' = [id EXCEPT ![r] = NewID]
  /\ GoTo(r, "create")
  /\ NoFault
  /\ UNCHANGED <<rows, expired>>

SetNXTaken(r) ==
  /\ pc[r] = "check"
  /\ Taken(r)
  /\ GoTo(r, "get")
  /\ NoFault
  /\ UNCHANGED <<store, rows, id, expired>>

\* SETNX fails, with or without having set the key.
SetNXFails(r) ==
  /\ pc[r] = "check"
  /\ \/ UNCHANGED store
     \/ ~Taken(r) /\ Take(r)
  /\ Reply(r, 500)
  /\ Fault("redis_error")
  /\ UNCHANGED <<rows, id, expired>>

\* SETNX sets the key and its answer is lost: the client library repeats it, and
\* the request takes its own entry for that of another.
SetNXRepeated(r) ==
  /\ pc[r] = "check"
  /\ ~Taken(r)
  /\ Take(r)
  /\ GoTo(r, "get")
  /\ Fault("redis_error")
  /\ UNCHANGED <<rows, id, expired>>

\* GET answers redis.Nil: the key has expired since SETNX found it.
GetMissing(r) ==
  /\ pc[r] = "get"
  /\ store[idemKey(r)] = Nil
  /\ Reply(r, 500)
  /\ NoFault
  /\ UNCHANGED <<store, rows, id, expired>>

\* Variant of Mismatch: the hashes are not compared.
NoMismatch(r) == FALSE

\* existingEntry.PayloadHash != pHash.
Mismatch(r) == store[idemKey(r)].hash # PayloadHash(r)

GetMismatch(r) ==
  /\ pc[r] = "get"
  /\ store[idemKey(r)] # Nil
  /\ Mismatch(r)
  /\ Reply(r, 409)
  /\ NoFault
  /\ UNCHANGED <<store, rows, id, expired>>

GetMatch(r) ==
  /\ pc[r] = "get"
  /\ store[idemKey(r)] # Nil
  /\ ~Mismatch(r)
  /\ id' = [id EXCEPT ![r] = store[idemKey(r)].job]
  /\ GoTo(r, "fetch")
  /\ NoFault
  /\ UNCHANGED <<store, rows, expired>>

\* Jobs.Get of the existing job: 200, or 500 when there is no such row.
FetchExisting(r) ==
  /\ pc[r] = "fetch"
  /\ Reply(r, IF rows[id[r]] = Nil THEN 500 ELSE 200)
  /\ NoFault
  /\ UNCHANGED <<store, rows, id, expired>>

\* GET or Jobs.Get fails.
ReadFails(r) ==
  /\ pc[r] \in {"get", "fetch"}
  /\ Reply(r, 500)
  /\ Fault("read_error")
  /\ UNCHANGED <<store, rows, id, expired>>

\* Variant of InsertedId: the row gets an id of the database's own.
AnotherId(r) == NewID

\* VALUES ($1, ...) with j.ID.
InsertedId(r) == id[r]

Create(r) ==
  /\ pc[r] = "create"
  /\ rows' = [rows EXCEPT ![InsertedId(r)] = Row(r)]
  /\ Reply(r, 201)
  /\ NoFault
  /\ UNCHANGED <<store, id, expired>>

\* Jobs.Create fails, with or without having inserted the row; or the process
\* ends, or the request is cancelled, before or after the insert.
CreateFails(r) ==
  /\ pc[r] = "create"
  /\ rows' \in {rows, [rows EXCEPT ![InsertedId(r)] = Row(r)]}
  /\ Reply(r, 500)
  /\ Fault("insert_error")
  /\ UNCHANGED <<store, id, expired>>

\* Variant of EntryAge: entries do not expire.
EntryWithoutTTL(k) == FALSE

\* idempotencyTTL may have passed: a request takes seconds and a key lives for
\* 24 hours, so not while the request that set the key goes on.
EntryAge(k) == /\ store[k] # Nil
               /\ \A r \in Requests : pc[r] = "create" => id[r] # store[k].job

Expire(k) ==
  /\ EntryAge(k)
  /\ store' = [store EXCEPT ![k] = Nil]
  /\ expired' = expired \cup {store[k].job}
  /\ NoFault
  /\ UNCHANGED <<rows, pc, id, answer>>

\* The client sends the request again.
Retry(r) ==
  /\ pc[r] = "done"
  /\ answer[r] = 500
  /\ pc' = [pc EXCEPT ![r] = "check"]
  /\ id' = [id EXCEPT ![r] = Nil]
  /\ NoFault
  /\ UNCHANGED <<store, rows, answer, expired>>

Settled == /\ \A r \in Requests : pc[r] = "done" /\ answer[r] # 500
           /\ UNCHANGED vars

-----------------------------------------------------------------------------
Handle(r) ==
  \/ SetNX(r)
  \/ SetNXTaken(r)
  \/ GetMissing(r)
  \/ GetMismatch(r)
  \/ GetMatch(r)
  \/ FetchExisting(r)
  \/ Create(r)

Next ==
  \/ \E r \in Requests : \/ Handle(r)
                         \/ Retry(r)
                         \/ SetNXFails(r)
                         \/ SetNXRepeated(r)
                         \/ ReadFails(r)
                         \/ CreateFails(r)
  \/ \E k \in Keys : Expire(k)
  \/ Settled

\* Handlers go on, clients repeat what failed, and time passes.
Fairness ==
  /\ \A r \in Requests : WF_vars(Handle(r)) /\ WF_vars(Retry(r))
  /\ \A k \in Keys : WF_vars(Expire(k))

Spec == Init /\ [][Next]_vars /\ Fairness

-----------------------------------------------------------------------------
\* Whoever is about to insert a job holds the key of the request, and every job is
\* the one its key names until the key expires (SubmitJob takes the key first).
StoreInv ==
  /\ TypeOK
  /\ \A r \in Requests : pc[r] = "create" =>
       store[idemKey(r)] # Nil /\ store[idemKey(r)].job = id[r]
  /\ \A i \in JobIds \ expired : rows[i] # Nil =>
       store[rows[i].key] # Nil /\ store[rows[i].key].job = i

\* Until it expires a key gives one job, however often and by how many concurrent
\* requests it is used, and whatever fails (idempotency.go: SETNX).
OneJobPerKey ==
  \A i, j \in JobIds \ expired :
    rows[i] # Nil /\ rows[j] # Nil /\ rows[i].key = rows[j].key => i = j

\* A key in the store names a row, or a row that is about to be inserted: no
\* repetition of a request is refused for a day (job_handler.go, as long as neither
\* the insert nor SETNX has failed).
KeyLeadsToJob ==
  \A k \in Keys : faults = 0 /\ store[k] # Nil =>
    \/ rows[store[k].job] # Nil
    \/ \E r \in Requests : pc[r] = "create" /\ id[r] = store[k].job

\* The job a request is answered with has the hash of the request, whoever inserted
\* it and whatever expired in between (Check compares the hashes).  Of the content
\* this says what the hash tells: contents that only put the border between type and
\* payload elsewhere pass for one another.
AnsweredWithOwnHash ==
  \A r \in Requests : pc[r] = "done" /\ answer[r] \in {200, 201} =>
    /\ rows[id[r]] # Nil
    /\ rows[id[r]].type \o rows[id[r]].payload = PayloadHash(r)

\* A client that repeats its request on 500 is answered in the end, even when the
\* insert failed after the key was taken: the key expires (idempotencyTTL).
RetriesSucceed ==
  \A r \in Requests : <>(pc[r] = "done" /\ answer[r] \in {200, 201, 409})
=============================================================================
