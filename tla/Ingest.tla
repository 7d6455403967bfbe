------------------------------- MODULE Ingest -------------------------------
(***************************************************************************)
(* The ingestion pipeline of keplor-server (pipeline.rs) with its          *)
(* idempotency cache (idempotency.rs), on top of the event log that the    *)
(* batch writer implements (module EventLog).                              *)
(*                                                                         *)
(* An attempt is one POST of one event: a retry is another attempt with    *)
(* the same Idempotency-Key.  Every attempt that reaches the writer makes  *)
(* an event of its own (EventId::new), so the event is named after it.     *)
(***************************************************************************)
EXTENDS Integers, Sequences, FiniteSets, SequencesExt

CONSTANTS
  Attempts,       \* the events posted, one by one or in a batch
  Batches,        \* durable batch requests: sequences of attempts
  Unconfirmed,    \* the attempts that ask not to wait for the flush
  Keys,           \* Idempotency-Key values
  NoKey,          \* the header is absent
  KeyOf,          \* the key each attempt carries
  NumShards,      \* NUM_SHARDS
  HashOf,         \* the hash of each key
  MaxEntries,     \* idempotency.max_entries
  Ttl,            \* idempotency.ttl
  Error,          \* an answer that is not a success
  MaxTime,        \* bound on the clock
  MaxCrashes      \* bound on the crashes of a behaviour

InBatch == UNION {ToSet(b) : b \in Batches}

ASSUME IngestAssumption ==
  /\ NumShards \in Nat \ {0}
  /\ MaxEntries \in Nat
  /\ Ttl \in Nat
  /\ MaxTime \in Nat
  /\ MaxCrashes \in Nat
  /\ NoKey \notin Keys
  /\ Error \notin Attempts
  /\ Batches \subseteq Seq(Attempts)
  /\ \A b \in Batches : \A i, j \in DOMAIN b : b[i] = b[j] => i = j    \* an attempt is one POST
  /\ \A b, c \in Batches : b # c => ToSet(b) \cap ToSet(c) = {}
  /\ KeyOf \in [Attempts -> Keys \cup {NoKey}]
  /\ HashOf \in [Keys -> Nat]
  /\ \A a \in InBatch : KeyOf[a] = NoKey    \* the batch endpoint reads no key
  /\ Unconfirmed \cap InBatch = {}

VARIABLES
  status, durable, visible,  \* the event log: what the writer tells, and holds
  pc,         \* pc[a]: where the handler of a stands
  answer,     \* answer[a]: the event id a was answered with, or Error
  valid,      \* valid[b]: the indices of batch b that passed process_event
  results,    \* results[b]: the answer to b, one result per index
  cache,      \* cache[s]: the entries of a cache shard, least recent first
  now,        \* Instant::now()
  earlier,    \* history: attempts with a's key answered before a looked it up
  lookedUp,   \* history: when it did
  cachedAt,   \* history: when the answer of a was cached
  forgotten,  \* history: attempts whose cached answer was evicted or lost
  crashes     \* the crashes so far

logVars == <<status, durable, visible>>
requestVars == <<pc, answer>>
batchVars == <<valid, results>>
history == <<earlier, lookedUp, cachedAt, forgotten>>
vars == <<logVars, requestVars, batchVars, cache, now, history, crashes>>

(* The batch writer, as the pipeline sees it.                              *)
Writer == INSTANCE EventLog WITH Events <- Attempts

Stored == durable \cup visible
Single == Attempts \ InBatch

-----------------------------------------------------------------------------
(* The idempotency cache *)

Shards == 0 .. NumShards - 1
shard_index(k) == HashOf[k] % NumShards

PerShardEntries ==
  LET n == MaxEntries \div NumShards IN IF n < 1 THEN 1 ELSE n

Entry(k, a) == [key |-> k, event |-> a, expires |-> now + Ttl]

(* The shard of key k, the position of its entry there, and the shard      *)
(* without that entry.                                                     *)
Entries(k) == cache[shard_index(k)]
Cached(k) == \E i \in DOMAIN Entries(k) : Entries(k)[i].key = k
Position(k) == CHOOSE i \in DOMAIN Entries(k) : Entries(k)[i].key = k
Find(k) == Entries(k)[Position(k)]
Without(k) == IF Cached(k) THEN RemoveAt(Entries(k), Position(k)) ELSE Entries(k)

(* Mutant: an entry expires a tick early.                                  *)
LiveShort(k) == Cached(k) /\ now + 1 < Find(k).expires

Live(k) == Cached(k) /\ now < Find(k).expires

(* get: a live entry becomes the most recent one, an expired one goes.     *)
CacheGet(k) ==
  cache' = [cache EXCEPT ![shard_index(k)] =
              IF Live(k) THEN Append(Without(k), Find(k)) ELSE Without(k)]

(* Mutant: a full shard takes one more entry.                              *)
CacheInsertLate(k, a) ==
  LET rest  == Without(k)
      evict == Len(rest) > PerShardEntries
  IN
  /\ cache' = [cache EXCEPT ![shard_index(k)] =
                 Append(IF evict THEN Tail(rest) ELSE rest, Entry(k, a))]
  /\ cachedAt' = [cachedAt EXCEPT ![a] = now]
  /\ UNCHANGED forgotten

(* insert: the new entry replaces the old one of its key, and evicts the   *)
(* least recent entry of a full shard.                                     *)
CacheInsert(k, a) ==
  LET rest  == Without(k)
      evict == Len(rest) >= PerShardEntries
  IN
  /\ cache' = [cache EXCEPT ![shard_index(k)] =
                 Append(IF evict THEN Tail(rest) ELSE rest, Entry(k, a))]
  /\ cachedAt' = [cachedAt EXCEPT ![a] = now]
  /\ forgotten' = IF evict
                  THEN forgotten \cup {x \in Attempts : KeyOf[x] = rest[1].key /\ cachedAt[x] >= 0}
                  ELSE forgotten

-----------------------------------------------------------------------------

(* A server that has just started, and has rejected some attempts.         *)
InitAfter(rejected) ==
  /\ status = [a \in Attempts |-> "new"]
  /\ durable = {}
  /\ visible = {}
  /\ pc = [a \in Attempts |-> IF a \in rejected THEN "failed" ELSE "idle"]
  /\ answer = [a \in Attempts |-> Error]
  /\ valid = [b \in Batches |-> <<>>]
  /\ results = [b \in Batches |-> <<>>]
  /\ cache = [s \in Shards |-> <<>>]
  /\ now = 0
  /\ earlier = [a \in Attempts |-> {}]
  /\ lookedUp = [a \in Attempts |-> 0]
  /\ cachedAt = [a \in Attempts |-> -1]
  /\ forgotten = {}
  /\ crashes = 0

Init == InitAfter({})

-----------------------------------------------------------------------------
(* ingest: POST /v1/events *)

(* The cache is asked first; its answer ends the request.                  *)
Lookup(a) ==
  LET k == KeyOf[a]
      hit == k # NoKey /\ Live(k)
  IN
  /\ a \in Single \ Unconfirmed
  /\ pc[a] = "idle"
  /\ pc' = [pc EXCEPT ![a] = IF hit THEN "done" ELSE "missed"]
  /\ answer' = IF hit THEN [answer EXCEPT ![a] = Find(k).event] ELSE answer
  /\ IF k # NoKey THEN CacheGet(k) ELSE UNCHANGED cache
  /\ earlier' = [earlier EXCEPT ![a] = {x \in Attempts : KeyOf[x] = k /\ pc[x] \in {"done", "failed"}}]
  /\ lookedUp' = [lookedUp EXCEPT ![a] = now]
  /\ UNCHANGED <<logVars, batchVars, now, cachedAt, forgotten, crashes>>

(* check_db_size or process_event refuses the event (507, 400).            *)
Reject(a) ==
  /\ \/ pc[a] = "missed"
     \/ pc[a] = "idle" /\ a \in Unconfirmed
  /\ pc' = [pc EXCEPT ![a] = "failed"]
  /\ UNCHANGED <<logVars, answer, batchVars, cache, now, history, crashes>>

(* Both pass: the event goes to the writer, which may be shut down.        *)
StartWrite(a) ==
  /\ \/ pc[a] = "missed"
     \/ pc[a] = "idle" /\ a \in Unconfirmed
  /\ Writer!Submit({a})
  /\ pc' = [pc EXCEPT ![a] = IF status'[a] = "pending" THEN "writing" ELSE "failed"]
  /\ UNCHANGED <<answer, batchVars, cache, now, history, crashes>>

(* The flush confirmation arrives.                                         *)
WriteOk(a) ==
  /\ a \notin Unconfirmed
  /\ pc[a] = "writing"
  /\ Writer!Ack({a})
  /\ pc' = [pc EXCEPT ![a] = "written"]
  /\ UNCHANGED <<answer, batchVars, cache, now, history, crashes>>

(* The writer reports an error, or, for a single event, write_timeout      *)
(* expires: the client is told 500 while the event may be on its way.      *)
WriteFails(a) ==
  /\ a \notin Unconfirmed
  /\ pc[a] = "writing"
  /\ Writer!Fail({a}) \/ Writer!Refuse(a)
  /\ pc' = [pc EXCEPT ![a] = "failed"]
  /\ UNCHANGED <<answer, batchVars, cache, now, history, crashes>>

(* Mutant: the response is sent and cached before the flush is confirmed.  *)
RespondEarly(a) ==
  LET k == KeyOf[a] IN
  /\ a \in Single
  /\ pc[a] = "writing"
  /\ pc' = [pc EXCEPT ![a] = "done"]
  /\ answer' = [answer EXCEPT ![a] = a]
  /\ IF k # NoKey THEN CacheInsert(k, a) ELSE UNCHANGED <<cache, cachedAt, forgotten>>
  /\ UNCHANGED <<logVars, batchVars, now, earlier, lookedUp, crashes>>

(* 201, with the response cached under its key.                            *)
Respond(a) ==
  LET k == KeyOf[a] IN
  /\ a \in Single
  /\ pc[a] = "written"
  /\ pc' = [pc EXCEPT ![a] = "done"]
  /\ answer' = [answer EXCEPT ![a] = a]
  /\ IF k # NoKey THEN CacheInsert(k, a) ELSE UNCHANGED <<cache, cachedAt, forgotten>>
  /\ UNCHANGED <<logVars, batchVars, now, earlier, lookedUp, crashes>>

(* ingest_fire_and_forget: 202 once the event is queued, 503 when it       *)
(* cannot be.  The key is not read.                                        *)
Enqueued(a) ==
  /\ a \in Unconfirmed
  /\ pc[a] = "writing"
  /\ \/ /\ Writer!Accept(a)
        /\ pc' = [pc EXCEPT ![a] = "accepted"]
     \/ /\ Writer!Refuse(a)
        /\ pc' = [pc EXCEPT ![a] = "failed"]
  /\ UNCHANGED <<answer, batchVars, cache, now, history, crashes>>

-----------------------------------------------------------------------------
(* ingest_batch_durable *)

(* check_db_size refuses the batch as a whole.                             *)
RejectBatch(b) ==
  /\ results[b] = <<>>
  /\ \A a \in ToSet(b) : pc[a] = "idle"
  /\ pc' = [a \in Attempts |-> IF a \in ToSet(b) THEN "failed" ELSE pc[a]]
  /\ results' = [results EXCEPT ![b] = [i \in DOMAIN b |-> Error]]
  /\ UNCHANGED <<logVars, answer, valid, cache, now, history, crashes>>

(* The ways to pick some of the indices 1 .. n, in order.                  *)
Ascending(n) ==
  {v \in SeqOf(1 .. n, n) : \A i, j \in DOMAIN v : i < j => v[i] < v[j]}

(* process_event is tried on every event; ok_indices are those that pass,  *)
(* and their events go to write_many.                                      *)
StartBatch(b) ==
  \E ok \in Ascending(Len(b)) :
    LET sent == {b[i] : i \in ToSet(ok)} IN
    /\ results[b] = <<>>
    /\ \A a \in ToSet(b) : pc[a] = "idle"
    /\ valid' = [valid EXCEPT ![b] = ok]
    /\ Writer!Submit(sent)
    /\ pc' = [a \in Attempts |->
                CASE a \in sent /\ status'[a] = "pending" -> "writing"
                  [] a \in ToSet(b) /\ ~(a \in sent /\ status'[a] = "pending") -> "failed"
                  [] OTHER -> pc[a]]
    /\ UNCHANGED <<answer, results, cache, now, history, crashes>>

(* Mutant: the j-th write result is given to index j.                      *)
ScatterInOrder(n, ok, writeResults) ==
  [i \in 1 .. n |-> IF i \in DOMAIN writeResults THEN writeResults[i] ELSE Error]

(* The j-th write result is that of the event at index ok[j].              *)
Scatter(n, ok, writeResults) ==
  [i \in 1 .. n |->
     IF \E j \in DOMAIN ok : ok[j] = i
     THEN writeResults[CHOOSE j \in DOMAIN ok : ok[j] = i]
     ELSE Error]

(* write_many has every confirmation: the results go back to the indices   *)
(* they belong to.                                                         *)
FinishBatch(b) ==
  LET wrote == [j \in DOMAIN valid[b] |->
                  IF pc[b[valid[b][j]]] = "written" THEN b[valid[b][j]] ELSE Error]
  IN
  /\ results[b] = <<>>
  /\ \A a \in ToSet(b) : pc[a] \in {"written", "failed"}
  /\ results' = [results EXCEPT ![b] = Scatter(Len(b), valid[b], wrote)]
  /\ pc' = [a \in Attempts |-> IF a \in ToSet(b) /\ pc[a] = "written" THEN "done" ELSE pc[a]]
  /\ UNCHANGED <<logVars, answer, valid, cache, now, history, crashes>>

(* write_timeout expires: every event of the batch is answered with an     *)
(* error, the ones whose flush was already confirmed included.             *)
BatchTimeout(b) ==
  /\ results[b] = <<>>
  /\ \E a \in ToSet(b) : pc[a] = "writing"
  /\ Writer!Fail({a \in ToSet(b) : pc[a] = "writing"})
  /\ results' = [results EXCEPT ![b] =
                   Scatter(Len(b), valid[b], [j \in DOMAIN valid[b] |-> Error])]
  /\ pc' = [a \in Attempts |-> IF a \in ToSet(b) THEN "failed" ELSE pc[a]]
  /\ UNCHANGED <<answer, valid, cache, now, history, crashes>>

-----------------------------------------------------------------------------
(* The writer, the clock and the process *)

(* The writer stores an event in its own time: before it tells, or after   *)
(* nobody listens any more.                                                *)
Persist(a) ==
  /\ Writer!Persist({a})
  /\ UNCHANGED <<requestVars, batchVars, cache, now, history, crashes>>

Tick ==
  /\ now < MaxTime
  /\ now' = now + 1
  /\ UNCHANGED <<logVars, requestVars, batchVars, cache, history, crashes>>

(* The process restarts with an empty cache; open requests get no answer.  *)
Crash ==
  /\ crashes < MaxCrashes
  /\ crashes' = crashes + 1
  /\ \E S \in SUBSET {a \in Attempts \ Stored : status[a] \notin {"new", "refused"}} :
       Writer!Crash(S)
  /\ pc' = [a \in Attempts |->
              IF pc[a] \in {"missed", "writing", "written"} THEN "failed" ELSE pc[a]]
  /\ results' = [b \in Batches |->
                   IF results[b] = <<>> /\ \E a \in ToSet(b) : pc[a] # "idle"
                   THEN [i \in DOMAIN b |-> Error] ELSE results[b]]
  /\ cache' = [s \in Shards |-> <<>>]
  /\ forgotten' = {a \in Attempts : cachedAt[a] >= 0}
  /\ UNCHANGED <<answer, valid, now, earlier, lookedUp, cachedAt>>

-----------------------------------------------------------------------------

Next ==
  \/ \E a \in Attempts : \/ Lookup(a) \/ Reject(a) \/ StartWrite(a)
                         \/ WriteOk(a) \/ WriteFails(a) \/ Respond(a)
                         \/ Enqueued(a) \/ Persist(a)
  \/ \E b \in Batches : RejectBatch(b) \/ StartBatch(b) \/ FinishBatch(b) \/ BatchTimeout(b)
  \/ Tick \/ Crash

Spec == Init /\ [][Next]_vars

-----------------------------------------------------------------------------
(* Properties *)

(* A 201, fresh or replayed from the cache, names an event that is stored  *)
(* and was created under the same key as the request it answers.           *)
AnswerStored ==
  \A a \in Single : pc[a] = "done" =>
     /\ answer[a] \in Stored
     /\ KeyOf[answer[a]] = KeyOf[a]

(* A durable batch is answered index by index: a success at index i names  *)
(* the stored event that was posted at index i, never a neighbour of it.   *)
BatchAligned ==
  \A b \in Batches : results[b] # <<>> =>
     /\ Len(results[b]) = Len(b)
     /\ \A i \in DOMAIN b :
          IF pc[b[i]] = "done"
          THEN results[b][i] = b[i] /\ b[i] \in Stored
          ELSE results[b][i] = Error

(* The documented deduplication, as far as the code provides it: a retry   *)
(* that starts after its predecessor was answered 201 creates no event     *)
(* until the predecessor's entry expires, is evicted or dies with the      *)
(* process.                                                                *)
RetryDeduplicated ==
  \A a, x \in Attempts :
     (KeyOf[a] # NoKey /\ x \in earlier[a] /\ answer[x] = x)
       => status[a] = "new" \/ x \in forgotten \/ lookedUp[a] >= cachedAt[x] + Ttl

(* A cache shard never outgrows its share, and has one entry per key.      *)
CacheBounded ==
  \A s \in Shards :
     /\ Len(cache[s]) <= PerShardEntries
     /\ \A i, j \in DOMAIN cache[s] : cache[s][i].key = cache[s][j].key => i = j

-----------------------------------------------------------------------------
(* A claim of the documentation that the code does not meet *)

(* idempotency.rs: a client that retries a request with the same key       *)
(* within the time window creates no duplicate event.                      *)
RetryCreatesNoDuplicate ==
  \A a, x \in Stored :
     (KeyOf[a] = KeyOf[x] /\ KeyOf[a] # NoKey) => x \notin earlier[a]

====
