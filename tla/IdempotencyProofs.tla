-------------------------- MODULE IdempotencyProofs -------------------------
(***************************************************************************)
(* Proofs about Idempotency, for any submissions under any keys.           *)
(***************************************************************************)
EXTENDS Idempotency, TLAPS

(***************************************************************************)
(* NewJob draws a UUID that nothing else has.                              *)
(***************************************************************************)
LEMMA NewIDUnused == ASSUME Unused # {} PROVE NewID \in Unused
  BY DEF NewID

(***************************************************************************)
(* SETNX gives a key once, so nobody replaces the entry under which a job  *)
(* was or will be inserted.                                                *)
(***************************************************************************)
LEMMA StoreStep ==
  ASSUME StoreInv, [Next]_vars
  PROVE  StoreInv'
<1>1. CASE UNCHANGED vars
  BY <1>1 DEF StoreInv, TypeOK, FaultsTypeOK, vars
<1>2. CASE Settled
  BY <1>1, <1>2 DEF Settled
<1>3. ASSUME NEW r \in Requests,
             Handle(r) \/ Retry(r) \/ SetNXFails(r) \/ SetNXRepeated(r)
               \/ ReadFails(r) \/ CreateFails(r)
      PROVE  StoreInv'
  <2> USE FaultsAssumption, IdempotencyAssumption
          DEF StoreInv, TypeOK, FaultsTypeOK, Fault, NoFault, GoTo, Reply
  <2> idemKey(r) \in Keys /\ Row(r).key = idemKey(r)
    BY DEF Keys, Row
  <2>1. CASE SetNX(r)
    BY <2>1, NewIDUnused DEF SetNX, Taken, Take, idemEntry, Keys, Unused, Row
  <2>2. CASE SetNXTaken(r)
    BY <2>2 DEF SetNXTaken
  <2>3. CASE GetMissing(r)
    BY <2>3 DEF GetMissing
  <2>4. CASE GetMismatch(r)
    BY <2>4 DEF GetMismatch
  <2>5. CASE GetMatch(r)
    BY <2>5 DEF GetMatch, idemEntry
  <2>6. CASE FetchExisting(r)
    BY <2>6 DEF FetchExisting
  <2>7. CASE Create(r)
    <3>1. id[r] \in JobIds /\ store[idemKey(r)].job = id[r]
      BY <2>7 DEF Create, idemEntry
    <3> QED
      BY <2>7, <3>1 DEF Create, InsertedId
  <2>8. CASE Retry(r)
    BY <2>8 DEF Retry
  <2>9. CASE SetNXFails(r)
    <3>1. CASE UNCHANGED store
      BY <2>9, <3>1 DEF SetNXFails
    <3>2. CASE ~Taken(r) /\ Take(r)
      BY <2>9, <3>2, NewIDUnused DEF SetNXFails, Taken, Take, idemEntry, Unused
    <3> QED
      BY <2>9, <3>1, <3>2 DEF SetNXFails
  <2>10. CASE CreateFails(r)
    BY <2>10 DEF CreateFails, InsertedId
  <2>11. CASE SetNXRepeated(r)
    BY <2>11, NewIDUnused DEF SetNXRepeated, Taken, Take, idemEntry, Unused
  <2>12. CASE ReadFails(r)
    BY <2>12 DEF ReadFails
  <2> QED
    BY <1>3, <2>1, <2>2, <2>3, <2>4, <2>5, <2>6, <2>7, <2>8, <2>9, <2>10, <2>11, <2>12
    DEF Handle
<1>4. ASSUME NEW k \in Keys, Expire(k)
      PROVE  StoreInv'
  BY <1>4, IdempotencyAssumption
  DEF Expire, EntryAge, StoreInv, TypeOK, FaultsTypeOK, NoFault, idemEntry, Keys
<1> QED
  BY <1>1, <1>2, <1>3, <1>4 DEF Next

LEMMA StoreInit == Init => StoreInv
BY FaultsAssumption, IdempotencyAssumption
DEF Init, FaultsInit, StoreInv, TypeOK, FaultsTypeOK

(***************************************************************************)
(* A request inserts its job only under the entry that it set itself, and  *)
(* an entry is not replaced, for any number of concurrent and repeated     *)
(* submissions and whatever fails.                                         *)
(***************************************************************************)
THEOREM StoreSafe == Spec => []StoreInv
<1>1. StoreInv /\ [Next]_vars => StoreInv'
  BY StoreStep
<1> QED
  BY <1>1, StoreInit, PTL DEF Spec

(***************************************************************************)
(* Until a key expires, at most one job is created under it.               *)
(***************************************************************************)
THEOREM KeyGivesOneJob == Spec => []OneJobPerKey
<1>1. StoreInv => OneJobPerKey
  BY DEF StoreInv, OneJobPerKey
<1> QED
  BY <1>1, StoreSafe, PTL

-----------------------------------------------------------------------------
(***************************************************************************)
(* An entry names a job that exists or is about to.  Only three steps      *)
(* could leave an entry without one, and each of them is a fault.          *)
(***************************************************************************)
LEMMA KeyLeadsStep ==
  ASSUME StoreInv, StoreInv', KeyLeadsToJob, [Next]_vars
  PROVE  KeyLeadsToJob'
<1> USE IdempotencyAssumption DEF StoreInv, TypeOK, KeyLeadsToJob
<1>1. CASE UNCHANGED vars
  BY <1>1 DEF vars
<1>2. CASE Settled
  BY <1>1, <1>2 DEF Settled
<1>3. ASSUME NEW r \in Requests,
             SetNXFails(r) \/ SetNXRepeated(r) \/ ReadFails(r) \/ CreateFails(r)
      PROVE  KeyLeadsToJob'
  <2>1. faults' = faults + 1 /\ faults \in Nat
    BY <1>3, FaultsAssumption
    DEF SetNXFails, SetNXRepeated, ReadFails, CreateFails, Fault, FaultsTypeOK
  <2>2. faults' # 0
    BY <2>1
  <2> QED BY <2>2
<1>4. ASSUME NEW r \in Requests, Handle(r) \/ Retry(r)
      PROVE  KeyLeadsToJob'
  <2> SUFFICES ASSUME NEW k \in Keys, faults' = 0, store'[k] # Nil
               PROVE  \/ rows'[store'[k].job] # Nil
                      \/ \E q \in Requests : pc'[q] = "create" /\ id'[q] = store'[k].job
    OBVIOUS
  <2>1. faults = 0 /\ idemKey(r) \in Keys
    BY <1>4
    DEF Handle, SetNX, SetNXTaken, GetMissing, GetMismatch, GetMatch, FetchExisting, Create,
        Retry, NoFault, Keys
  <2>2. CASE SetNX(r)
    <3>1. CASE k = idemKey(r)
      BY <2>1, <2>2, <3>1 DEF SetNX, Take, GoTo
    <3>2. CASE k # idemKey(r)
      BY <2>1, <2>2, <3>2 DEF SetNX, Take, GoTo
    <3> QED BY <3>1, <3>2
  <2>3. CASE SetNXTaken(r) \/ GetMissing(r) \/ GetMismatch(r) \/ GetMatch(r)
    BY <2>1, <2>3 DEF SetNXTaken, GetMissing, GetMismatch, GetMatch, GoTo, Reply
  <2>4. CASE FetchExisting(r) \/ Retry(r)
    BY <2>1, <2>4 DEF FetchExisting, Retry, Reply
  <2>5. CASE Create(r)
    <3>1. id[r] \in JobIds
      BY <2>1, <2>5 DEF Create, idemEntry
    <3>2. rows'[id[r]] # Nil
      BY <2>5, <3>1 DEF Create, InsertedId
    <3> QED BY <2>1, <2>5, <3>1, <3>2 DEF Create, InsertedId, Reply
  <2> QED BY <1>4, <2>2, <2>3, <2>4, <2>5 DEF Handle
<1>5. ASSUME NEW k \in Keys, Expire(k)
      PROVE  KeyLeadsToJob'
  BY <1>5 DEF Expire, NoFault
<1> QED
  BY <1>1, <1>2, <1>3, <1>4, <1>5 DEF Next

(***************************************************************************)
(* While nothing has failed, every key in the store leads to a job: a      *)
(* repeated submission finds it, or will as soon as the first one has      *)
(* inserted it.                                                            *)
(***************************************************************************)
THEOREM KeyLeads == Spec => []KeyLeadsToJob
<1>1. Init => KeyLeadsToJob
  BY DEF Init, KeyLeadsToJob
<1>2. StoreInv /\ StoreInv' /\ KeyLeadsToJob /\ [Next]_vars => KeyLeadsToJob'
  BY KeyLeadsStep
<1> QED
  BY <1>1, <1>2, StoreSafe, PTL DEF Spec

-----------------------------------------------------------------------------
(***************************************************************************)
(* What a request is answered with.  The hash is followed from the entry   *)
(* to the row it names, through the requests that are about to insert or   *)
(* to fetch that row; a row, once inserted, is not written again, because  *)
(* every id is drawn by one request.                                       *)
(***************************************************************************)

\* The job i, if it is there, was submitted with the hash h; so is whatever is
\* about to be inserted as i.
HashOf(i, h) ==
  /\ rows[i] # Nil => \E q \in Requests : rows[i] = Row(q) /\ PayloadHash(q) = h
  /\ \A q \in Requests : pc[q] = "create" /\ id[q] = i => PayloadHash(q) = h

CreatorsApart ==
  \A q, r \in Requests : pc[q] = "create" =>
    /\ rows[id[q]] = Nil
    /\ pc[r] = "create" /\ id[q] = id[r] => q = r

EntriesHashed ==
  \A k \in Keys : store[k] # Nil => HashOf(store[k].job, store[k].hash)

FetchedHashed ==
  \A r \in Requests : pc[r] = "fetch" => id[r] \in JobIds /\ HashOf(id[r], PayloadHash(r))

AnsweredHashed ==
  \A r \in Requests : pc[r] = "done" /\ answer[r] \in {200, 201} =>
    /\ id[r] \in JobIds
    /\ rows[id[r]] # Nil
    /\ HashOf(id[r], PayloadHash(r))

HashInv ==
  /\ CreatorsApart
  /\ EntriesHashed
  /\ FetchedHashed
  /\ AnsweredHashed

\* Whatever does not insert under i keeps the hash of i; neither does the insert
\* itself break it.
LEMMA HashKept ==
  ASSUME StoreInv, [Next]_vars, NEW i \in JobIds, NEW h, HashOf(i, h),
         ~(i \in Unused)
  PROVE  HashOf(i, h)'
<1> USE IdempotencyAssumption DEF StoreInv, TypeOK, HashOf
<1>1. CASE UNCHANGED vars \/ Settled
  BY <1>1 DEF vars, Settled
<1>2. ASSUME NEW r \in Requests, SetNX(r)
      PROVE  HashOf(i, h)'
  <2>1. NewID # i
    BY <1>2, NewIDUnused DEF SetNX, Take
  <2> QED BY <1>2, <2>1 DEF SetNX, GoTo
<1>3. ASSUME NEW r \in Requests,
             \/ SetNXTaken(r) \/ GetMissing(r) \/ GetMismatch(r) \/ GetMatch(r)
             \/ FetchExisting(r) \/ Retry(r) \/ SetNXFails(r) \/ SetNXRepeated(r)
             \/ ReadFails(r)
      PROVE  HashOf(i, h)'
  <2>1. /\ UNCHANGED rows
        /\ \A q \in Requests : pc'[q] = "create" => pc[q] = "create" /\ id'[q] = id[q]
    BY <1>3
    DEF SetNXTaken, GetMissing, GetMismatch, GetMatch, FetchExisting, Retry, SetNXFails,
        SetNXRepeated, ReadFails, GoTo, Reply
  <2> QED BY <2>1
<1>4. ASSUME NEW r \in Requests, Create(r) \/ CreateFails(r)
      PROVE  HashOf(i, h)'
  <2>1. /\ pc[r] = "create" /\ id' = id
        /\ \A q \in Requests : pc'[q] = "create" => pc[q] = "create"
        /\ rows' = rows \/ rows' = [rows EXCEPT ![id[r]] = Row(r)]
    BY <1>4 DEF Create, CreateFails, InsertedId, Reply
  <2>2. rows'[i] = rows[i] \/ (rows'[i] = Row(r) /\ id[r] = i)
    BY <2>1
  <2>3. CASE rows'[i] = rows[i]
    BY <2>1, <2>3
  <2>4. CASE rows'[i] = Row(r) /\ id[r] = i
    BY <2>1, <2>4
  <2> QED BY <2>2, <2>3, <2>4
<1>5. ASSUME NEW k \in Keys, Expire(k)
      PROVE  HashOf(i, h)'
  BY <1>5 DEF Expire
<1> QED
  BY <1>1, <1>2, <1>3, <1>4, <1>5 DEF Next, Handle

\* A row is not written again.
LEMMA RowsKept ==
  ASSUME StoreInv, CreatorsApart, [Next]_vars, NEW i \in JobIds, rows[i] # Nil
  PROVE  rows'[i] = rows[i]
<1> USE DEF StoreInv, TypeOK
<1>1. ASSUME NEW r \in Requests, Create(r) \/ CreateFails(r)
      PROVE  rows'[i] = rows[i]
  <2>1. /\ pc[r] = "create"
        /\ rows' = rows \/ rows' = [rows EXCEPT ![id[r]] = Row(r)]
    BY <1>1 DEF Create, CreateFails, InsertedId
  <2>2. id[r] # i
    BY <2>1 DEF CreatorsApart
  <2> QED BY <2>1, <2>2
<1>2. rows' = rows \/ \E r \in Requests : Create(r) \/ CreateFails(r)
  BY DEF Next, Handle, SetNX, SetNXTaken, GetMissing, GetMismatch, GetMatch, FetchExisting,
         Retry, SetNXFails, SetNXRepeated, ReadFails, Expire, Settled, vars
<1> QED BY <1>1, <1>2

LEMMA CreatorsStep ==
  ASSUME StoreInv, CreatorsApart, [Next]_vars
  PROVE  CreatorsApart'
<1> USE IdempotencyAssumption DEF StoreInv, TypeOK, CreatorsApart
<1>1. CASE UNCHANGED vars \/ Settled
  BY <1>1 DEF vars, Settled
<1>2. ASSUME NEW r \in Requests, SetNX(r)
      PROVE  CreatorsApart'
  <2>1. NewID \in Unused
    BY <1>2, NewIDUnused DEF SetNX, Take
  <2>2. rows[NewID] = Nil /\ \A q \in Requests : id[q] # NewID
    BY <2>1 DEF Unused
  <2> QED BY <1>2, <2>2 DEF SetNX, GoTo
<1>3. ASSUME NEW r \in Requests,
             \/ SetNXTaken(r) \/ GetMissing(r) \/ GetMismatch(r) \/ GetMatch(r)
             \/ FetchExisting(r) \/ Retry(r) \/ SetNXFails(r) \/ SetNXRepeated(r)
             \/ ReadFails(r)
      PROVE  CreatorsApart'
  <2>1. /\ UNCHANGED rows
        /\ \A q \in Requests : pc'[q] = "create" => pc[q] = "create" /\ id'[q] = id[q]
    BY <1>3
    DEF SetNXTaken, GetMissing, GetMismatch, GetMatch, FetchExisting, Retry, SetNXFails,
        SetNXRepeated, ReadFails, GoTo, Reply
  <2> QED BY <2>1
<1>4. ASSUME NEW r \in Requests, Create(r) \/ CreateFails(r)
      PROVE  CreatorsApart'
  <2>1. /\ pc[r] = "create" /\ id' = id
        /\ \A q \in Requests : pc'[q] = "create" => pc[q] = "create" /\ q # r
        /\ rows' = rows \/ rows' = [rows EXCEPT ![id[r]] = Row(r)]
    BY <1>4 DEF Create, CreateFails, InsertedId, Reply
  <2>2. \A q \in Requests : pc'[q] = "create" => id[q] # id[r] /\ id[q] \in JobIds
    BY <2>1 DEF idemEntry, Keys
  <2> QED BY <2>1, <2>2
<1>5. ASSUME NEW k \in Keys, Expire(k)
      PROVE  CreatorsApart'
  BY <1>5 DEF Expire
<1> QED
  BY <1>1, <1>2, <1>3, <1>4, <1>5 DEF Next, Handle

LEMMA EntriesStep ==
  ASSUME StoreInv, EntriesHashed, [Next]_vars
  PROVE  EntriesHashed'
<1> USE DEF StoreInv, TypeOK
<1> SUFFICES ASSUME NEW k \in Keys, store'[k] # Nil
             PROVE  HashOf(store[k].job, store[k].hash)'
  BY DEF EntriesHashed
<1>1. CASE store'[k] = store[k]
  <2>1. store[k].job \in JobIds /\ store[k].job \notin Unused
    BY <1>1 DEF Unused, idemEntry
  <2>2. HashOf(store[k].job, store[k].hash)
    BY <1>1 DEF EntriesHashed
  <2>3. PICK i, h : i \in JobIds /\ i = store[k].job /\ h = store[k].hash
    BY <2>1
  <2>4. HashOf(i, h)'
    BY <2>1, <2>2, <2>3, HashKept
  <2> QED BY <1>1, <2>3, <2>4 DEF HashOf
<1>2. ASSUME store'[k] # store[k]
      PROVE  \E r \in Requests :
               /\ Take(r) /\ k = idemKey(r)
               /\ UNCHANGED rows
               /\ \A q \in Requests : pc'[q] = "create" => q = r \/ id'[q] = id[q]
  BY <1>2
  DEF Next, Handle, SetNX, SetNXTaken, GetMissing, GetMismatch, GetMatch, FetchExisting,
      Create, CreateFails, Retry, SetNXFails, SetNXRepeated, ReadFails, Expire, Settled, vars, Take,
      GoTo, Reply
<1>3. ASSUME NEW r \in Requests, Take(r), k = idemKey(r), UNCHANGED rows,
             \A q \in Requests : pc'[q] = "create" => q = r \/ id'[q] = id[q]
      PROVE  HashOf(store[k].job, store[k].hash)'
  <2>1. NewID \in Unused
    BY <1>3, NewIDUnused DEF Take
  <2>2. rows[NewID] = Nil /\ \A q \in Requests : id[q] # NewID
    BY <2>1 DEF Unused
  <2>3. PICK i, h : i = NewID /\ h = PayloadHash(r)
    OBVIOUS
  <2>4. store'[k].job = i /\ store'[k].hash = h
    BY <1>3, <2>3 DEF Take
  <2>5. HashOf(i, h)'
    BY <1>3, <2>2, <2>3 DEF HashOf
  <2> QED BY <2>4, <2>5 DEF HashOf
<1> QED BY <1>1, <1>2, <1>3

LEMMA FetchedStep ==
  ASSUME StoreInv, StoreInv', EntriesHashed, FetchedHashed, [Next]_vars
  PROVE  FetchedHashed'
<1> USE IdempotencyAssumption DEF StoreInv, TypeOK
<1> SUFFICES ASSUME NEW r \in Requests, pc'[r] = "fetch"
             PROVE  id'[r] \in JobIds /\ HashOf(id[r], PayloadHash(r))'
  BY DEF FetchedHashed
<1>1. \/ pc[r] = "fetch" /\ id'[r] = id[r]
      \/ GetMatch(r)
  BY DEF Next, Handle, SetNX, SetNXTaken, GetMissing, GetMismatch, GetMatch, FetchExisting,
         Create, CreateFails, Retry, SetNXFails, SetNXRepeated, ReadFails, Expire, Settled, vars,
         GoTo, Reply
<1>2. PICK i, h : i = id'[r] /\ h = PayloadHash(r)
  OBVIOUS
<1>3. i \in JobIds /\ i \notin Unused /\ HashOf(i, h)
  <2>1. CASE pc[r] = "fetch" /\ id'[r] = id[r]
    BY <1>2, <2>1 DEF FetchedHashed, Unused
  <2>2. CASE GetMatch(r)
    <3>1. /\ idemKey(r) \in Keys /\ store[idemKey(r)] # Nil
          /\ i = store[idemKey(r)].job /\ h = store[idemKey(r)].hash
      BY <1>2, <2>2 DEF GetMatch, Mismatch, Keys
    <3> QED BY <3>1 DEF EntriesHashed, Unused, idemEntry
  <2> QED BY <1>1, <2>1, <2>2
<1>4. HashOf(i, h)'
  BY <1>3, HashKept
<1> QED BY <1>2, <1>3, <1>4 DEF HashOf

LEMMA AnsweredStep ==
  ASSUME StoreInv, StoreInv', CreatorsApart, FetchedHashed, AnsweredHashed, [Next]_vars
  PROVE  AnsweredHashed'
<1> USE IdempotencyAssumption DEF StoreInv, TypeOK
<1> SUFFICES ASSUME NEW r \in Requests, pc'[r] = "done", answer'[r] \in {200, 201}
             PROVE  /\ id'[r] \in JobIds /\ rows'[id'[r]] # Nil
                    /\ HashOf(id[r], PayloadHash(r))'
  BY DEF AnsweredHashed
<1>1. \/ /\ pc[r] = "done" /\ answer[r] \in {200, 201} /\ id'[r] = id[r]
      \/ FetchExisting(r) \/ Create(r)
  BY DEF Next, Handle, SetNX, SetNXTaken, GetMissing, GetMismatch, GetMatch, FetchExisting,
         Create, CreateFails, Retry, SetNXFails, SetNXRepeated, ReadFails, Expire, Settled, vars,
         GoTo, Reply
<1>2. PICK i, h : i = id'[r] /\ h = PayloadHash(r)
  OBVIOUS
<1>3. CASE pc[r] = "done" /\ answer[r] \in {200, 201} /\ id'[r] = id[r]
  <2>1. i \in JobIds /\ i \notin Unused /\ HashOf(i, h) /\ rows[i] # Nil
    BY <1>2, <1>3 DEF AnsweredHashed, Unused
  <2>2. HashOf(i, h)' /\ rows'[i] # Nil
    BY <2>1, HashKept, RowsKept
  <2> QED BY <1>2, <2>1, <2>2 DEF HashOf
<1>4. CASE FetchExisting(r)
  <2>1. i = id[r] /\ rows' = rows /\ rows[i] # Nil
    BY <1>2, <1>4 DEF FetchExisting, Reply
  <2>2. i \in JobIds /\ i \notin Unused /\ HashOf(i, h)
    BY <1>2, <1>4, <2>1 DEF FetchExisting, FetchedHashed, Unused
  <2>3. HashOf(i, h)'
    BY <2>2, HashKept
  <2> QED BY <1>2, <2>1, <2>2, <2>3 DEF HashOf
<1>5. CASE Create(r)
  <2>1. /\ pc[r] = "create" /\ i = id[r] /\ id' = id
        /\ rows' = [rows EXCEPT ![i] = Row(r)]
        /\ pc' = [pc EXCEPT ![r] = "done"]
    BY <1>2, <1>5 DEF Create, InsertedId, Reply
  <2>2. i \in JobIds
    BY <2>1 DEF idemEntry, Keys
  <2>3. rows'[i] = Row(r) /\ Row(r) # Nil
    BY <2>1, <2>2
  <2>4. \A q \in Requests : pc'[q] = "create" => id'[q] # i
    BY <2>1 DEF CreatorsApart
  <2>5. HashOf(i, h)'
    BY <1>2, <2>3, <2>4 DEF HashOf
  <2> QED BY <1>2, <2>2, <2>3, <2>5 DEF HashOf
<1> QED BY <1>1, <1>3, <1>4, <1>5

(***************************************************************************)
(* A request that is answered with a job is answered with one of its own   *)
(* hash, whoever inserted it and whatever failed, expired or was repeated  *)
(* in between.                                                             *)
(***************************************************************************)
THEOREM AnsweredWithOwn == Spec => []AnsweredWithOwnHash
<1>1. Init => HashInv
  BY DEF Init, HashInv, CreatorsApart, EntriesHashed, FetchedHashed, AnsweredHashed
<1>2. StoreInv /\ StoreInv' /\ HashInv /\ [Next]_vars => HashInv'
  BY CreatorsStep, EntriesStep, FetchedStep, AnsweredStep DEF HashInv
<1>3. ASSUME HashInv, NEW r \in Requests, pc[r] = "done", answer[r] \in {200, 201}
      PROVE  /\ rows[id[r]] # Nil
             /\ rows[id[r]].type \o rows[id[r]].payload = PayloadHash(r)
  <2>1. rows[id[r]] # Nil /\ HashOf(id[r], PayloadHash(r))
    BY <1>3 DEF HashInv, AnsweredHashed
  <2>2. PICK q \in Requests : rows[id[r]] = Row(q) /\ PayloadHash(q) = PayloadHash(r)
    BY <2>1 DEF HashOf
  <2>3. Row(q).type \o Row(q).payload = PayloadHash(q)
    BY DEF Row, PayloadHash
  <2> QED BY <2>1, <2>2, <2>3
<1>4. HashInv => AnsweredWithOwnHash
  BY <1>3 DEF AnsweredWithOwnHash
<1> QED
  BY <1>1, <1>2, <1>4, StoreSafe, PTL DEF Spec
=============================================================================
