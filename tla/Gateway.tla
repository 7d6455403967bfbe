------------------------------ MODULE Gateway ------------------------------
(***************************************************************************)
(* What stands between a client and the store: the concurrency limit, the  *)
(* hot-swapped API keys, the per-key rate limiter, the request timeout,    *)
(* the cached size check and the mounting of a tier's engine.              *)
(*                                                                         *)
(* Time is in whole seconds.  A token of the rate limiter is TokenUnits    *)
(* units, so that a refill can be a fraction of one.                       *)
(***************************************************************************)
EXTENDS Integers, Sequences, FiniteSets, FiniteSetsExt

CONSTANTS
  Requests,       \* the ingestion requests of a behaviour
  Retries,        \* those a client sends only after a 408 or a 429
  SecretOf,       \* SecretOf[r]: the bearer token of r; "" if there is none
  Configs,        \* the contents config_path may have
  StartConfig,    \* what it holds when the server starts
  MaxConnections, \* server.max_connections
  Burst,          \* rate_limit.burst, in tokens
  TokenUnits,     \* the units of one token
  Rate,           \* the units a bucket gains in a second
  MaxDb,          \* max_db_size, in events; 0: unlimited
  SizeInterval,   \* size_check_interval; 0 would turn the cache off
  MaxReloads,     \* bound on the reloads of a behaviour
  MaxFlushed,     \* bound on the events that go into a segment
  MaxTime,        \* bound on the clock
  None            \* no request, no time

ASSUME GatewayAssumption ==
  /\ IsFiniteSet(Requests)
  /\ Retries \subseteq Requests
  /\ StartConfig \in Configs
  /\ MaxConnections \in Nat \ {0}
  /\ Burst \in Nat \ {0}
  /\ TokenUnits \in Nat \ {0}
  /\ Rate \in Nat \ {0}
  /\ MaxDb \in Nat
  /\ SizeInterval \in Nat \ {0}
  /\ MaxReloads \in Nat
  /\ MaxFlushed \in Nat
  /\ MaxTime \in Nat \ {0}
  /\ None \notin Requests /\ None \notin Nat

VARIABLES
  now,        \* the clock
  keys,       \* the published key set
  reloads,    \* the reloads so far
  pc,         \* pc[r]: the layer that has request r
  who,        \* who[r]: the identity r was given
  seen,       \* history: the key sets published from its arrival to its identification
  answer,     \* answer[r]: the status of its response
  permits,    \* the free permits of the concurrency limit
  buckets,    \* buckets[id]: the token bucket of key id
  tokenAt,    \* history: when r took a token
  promised,   \* history: promised[id]: from when on a retry was promised a token
  cached,     \* cached_db_size
  cachedAt,   \* cached_db_size_at_ns
  asked,      \* asked[r]: the time r started its size check
  refresher,  \* the holder of db_size_refresh_lock
  walk,       \* its sum so far, and the engines left
  engines,    \* the published map from tiers to engines
  opened,     \* history: the engines opened
  inserter,   \* the holder of insert_lock
  job,        \* job[r]: the step of the append job of r
  stored,     \* the events stored, with the engine that got them
  flushedAt,  \* history: flushedAt[r]: when the event of r went into a segment
  freedAt     \* history: freedAt[r]: when that segment was dropped

keyVars == <<keys, reloads, seen>>
requestVars == <<pc, who, answer, permits, asked>>
limitVars == <<buckets, tokenAt, promised>>
sizeVars == <<cached, cachedAt, refresher, walk>>
storeVars == <<engines, opened, inserter, job, stored>>
clockVars == <<now, flushedAt, freedAt>>
vars == <<keyVars, requestVars, limitVars, sizeVars, storeVars, clockVars>>

-----------------------------------------------------------------------------
(* Configuration *)

(* The bounds of ServerConfig::validate.                                   *)
Bounds ==
  [batch_size |-> 1 .. 100000, max_body_mb |-> 1 .. 100, request_timeout_secs |-> 1 .. 300,
   wal_shard_count |-> 1 .. 64, write_timeout_secs |-> 1 .. 300,
   flush_interval_ms |-> 1 .. 10000, flush_shards |-> 1 .. 64,
   rollup_loop_secs |-> 5 .. 3600, size_check_interval_ms |-> 0 .. 60000,
   refresh_interval_secs |-> {0} \cup 60 .. 604800]

(* Neither the rate limit nor the tiers of key entries are validated; the  *)
(* checks of paths and of the pricing URL are left out.                    *)
validate(c) ==
  /\ c.parses
  /\ \A s \in DOMAIN c.settings : c.settings[s] \in Bounds[s]
  /\ c.tiers # {} /\ "" \notin c.tiers
  /\ c.default_tier \in c.tiers
  /\ \A i \in DOMAIN c.entries : c.entries[i].id # "" /\ c.entries[i].secret # ""

(* "id:secret", or a bare secret whose id is derived from its hash.        *)
parse_key_entry(raw) ==
  IF raw.id # "" /\ raw.secret # "" THEN raw.id ELSE "key_" \o raw.secret

ApiKey(secret, id, tier) == [secret |-> secret, id |-> id, tier |-> tier]

(* ApiKeySet::from_config: the simple keys, then the extended entries.     *)
from_config(c) ==
  [i \in DOMAIN c.api_keys |->
     ApiKey(c.api_keys[i].secret, parse_key_entry(c.api_keys[i]), c.default_tier)]
  \o [i \in DOMAIN c.entries |->
       ApiKey(c.entries[i].secret, c.entries[i].id, c.entries[i].tier)]

(* matched_key scans the whole set: the last entry with the secret counts. *)
matched_key(ks, secret) ==
  LET hits == {i \in DOMAIN ks : ks[i].secret = secret} IN
  IF hits = {} THEN {} ELSE {[id |-> {ks[Max(hits)].id}, tier |-> ks[Max(hits)].tier]}

(* Who a request is under key set ks: an open server takes everyone, under *)
(* the default tier it was started with.                                   *)
Identity(ks, secret) ==
  CASE ks = <<>> -> {[id |-> {}, tier |-> StartConfig.default_tier]}
    [] ks # <<>> /\ secret = "" -> {}
    [] OTHER -> matched_key(ks, secret)

-----------------------------------------------------------------------------

Nobody == [id |-> {}, tier |-> ""]

(* The eager tiers and those found on disk have their engines from the     *)
(* start.  The tiers of the requests are others: none is mounted yet.      *)
Init ==
  /\ validate(StartConfig)
  /\ now = 1
  /\ keys = from_config(StartConfig)
  /\ reloads = 0
  /\ pc = [r \in Requests |-> "out"]
  /\ who = [r \in Requests |-> Nobody]
  /\ seen = [r \in Requests |-> {}]
  /\ answer = [r \in Requests |-> 0]
  /\ permits = MaxConnections
  /\ buckets = <<>>
  /\ tokenAt = [r \in Requests |-> None]
  /\ promised = <<>>
  /\ cached = 0
  /\ cachedAt = 0
  /\ asked = [r \in Requests |-> None]
  /\ refresher = None
  /\ walk = [left |-> {}, total |-> 0]
  /\ engines = <<>>
  /\ opened = {}
  /\ inserter = None
  /\ job = [r \in Requests |-> "none"]
  /\ stored = {}
  /\ flushedAt = [r \in Requests |-> None]
  /\ freedAt = [r \in Requests |-> None]

(* Leaving the server: the response, and the permit returned.              *)
Respond(r, status) ==
  /\ pc' = [pc EXCEPT ![r] = "done"]
  /\ answer' = [answer EXCEPT ![r] = status]
  /\ permits' = permits + 1

Enter(r, layer) ==
  /\ pc' = [pc EXCEPT ![r] = layer]
  /\ UNCHANGED <<answer, permits>>

-----------------------------------------------------------------------------
(* The layers in front of the handler *)

(* After shutdown_signal nothing arrives; what is here is served.          *)
Arrive(r) ==
  /\ pc[r] = "out"
  /\ r \in Retries => \E x \in Requests : answer[x] \in {408, 429}
  /\ Enter(r, "queued")
  /\ seen' = [seen EXCEPT ![r] = {keys}]
  /\ UNCHANGED <<keys, reloads, who, asked, limitVars, sizeVars, storeVars, clockVars>>

(* The concurrency limit is inside the timeout, but a permit is awaited    *)
(* before the timer is started.                                            *)
Permit(r) ==
  /\ pc[r] = "queued"
  /\ permits > 0
  /\ permits' = permits - 1
  /\ pc' = [pc EXCEPT ![r] = "auth"]
  /\ UNCHANGED <<answer, who, asked, keyVars, limitVars, sizeVars, storeVars, clockVars>>

(* Mutant: the middleware keeps the keys the server was started with.      *)
SnapshotAtStart == from_config(StartConfig)

(* HotKeys::load, once per request.                                        *)
Snapshot == keys

(* require_api_key *)
Authenticate(r) ==
  LET found == Identity(Snapshot, SecretOf[r]) IN
  /\ pc[r] = "auth"
  /\ \/ /\ found = {}
        /\ Respond(r, 401)
        /\ UNCHANGED who
     \/ \E w \in found :
          /\ who' = [who EXCEPT ![r] = w]
          /\ Enter(r, IF w.id = {} THEN "body" ELSE "rate")
  /\ UNCHANGED <<asked, keyVars, limitVars, sizeVars, storeVars, clockVars>>

Full == Burst * TokenUnits

(* The bucket of id now; a new one is full.                                *)
Refilled(id) ==
  IF id \in DOMAIN buckets
  THEN Min({buckets[id].tokens + (now - buckets[id].last) * Rate, Full})
  ELSE Full

WithBucket(id, b) == [i \in DOMAIN buckets \cup {id} |-> IF i = id THEN b ELSE buckets[i]]

(* Mutant: the refill is kept but the time of it is not.                   *)
DenyUndated(id) ==
  WithBucket(id, [tokens |-> Refilled(id),
                  last |-> IF id \in DOMAIN buckets THEN buckets[id].last ELSE now])

(* The bucket of a denied request is refilled as well.                     *)
Deny(id) == WithBucket(id, [tokens |-> Refilled(id), last |-> now])

(* Mutant: the wait is rounded down.                                       *)
RetryAfterFloor(tokens) == (TokenUnits - tokens) \div Rate

(* Retry-After: whole seconds, rounded up.                                 *)
RetryAfter(tokens) == (TokenUnits - tokens + Rate - 1) \div Rate

(* try_acquire, under the lock of the key's shard.                         *)
RateLimit(r) ==
  \E id \in who[r].id :
    LET tokens == Refilled(id) IN
    /\ pc[r] = "rate"
    /\ \/ /\ tokens >= TokenUnits
          /\ buckets' = WithBucket(id, [tokens |-> tokens - TokenUnits, last |-> now])
          /\ tokenAt' = [tokenAt EXCEPT ![r] = now]
          /\ promised' = [i \in DOMAIN promised \ {id} |-> promised[i]]
          /\ Enter(r, "body")
       \/ /\ tokens < TokenUnits
          /\ buckets' = Deny(id)
          /\ promised' = [i \in DOMAIN promised \cup {id} |->
                           IF i = id THEN now + RetryAfter(tokens) ELSE promised[i]]
          /\ Respond(r, 429)
          /\ UNCHANGED tokenAt
    /\ UNCHANGED <<who, asked, keyVars, sizeVars, storeVars, clockVars>>

(* Mutant: a request that times out keeps its permit.                      *)
TimeoutLeaks(r) ==
  /\ pc[r] \in {"body", "write"}
  /\ pc' = [pc EXCEPT ![r] = "done"]
  /\ answer' = [answer EXCEPT ![r] = 408]
  /\ UNCHANGED <<permits, who, asked, keyVars, limitVars, sizeVars, storeVars, clockVars>>

(* request_timeout expires where the handler awaits: the body, or the      *)
(* write.  The append job goes on.                                         *)
Timeout(r) ==
  /\ pc[r] \in {"body", "write"}
  /\ Respond(r, 408)
  /\ UNCHANGED <<who, asked, keyVars, limitVars, sizeVars, storeVars, clockVars>>

-----------------------------------------------------------------------------
(* check_db_size and db_size_bytes *)

(* The events in a segment.  Those still in the WAL have no date.          *)
InSegments == {r \in Requests : flushedAt[r] # None /\ freedAt[r] = None}

(* total_bytes of an engine: its segments, without its WAL.                *)
SizeOf(t) == Cardinality({r \in InSegments : who[r].tier = t})

Fresh(t) == t - cachedAt < SizeInterval /\ cachedAt # 0

(* A size is compared with the limit; the event is handed to the writer.   *)
Verdict(r, size) ==
  /\ asked' = [asked EXCEPT ![r] = None]
  /\ IF MaxDb # 0 /\ size >= MaxDb
     THEN Respond(r, 507) /\ UNCHANGED job
     ELSE Enter(r, "write") /\ job' = [job EXCEPT ![r] = "start"]

(* The body has been read.  Two atomic loads when the cache is fresh.      *)
CheckSize(r) ==
  /\ pc[r] = "body"
  /\ \/ /\ MaxDb = 0 \/ Fresh(now)
        /\ Verdict(r, cached)
     \/ /\ MaxDb # 0 /\ ~Fresh(now)
        /\ asked' = [asked EXCEPT ![r] = now]
        /\ Enter(r, "stale")
        /\ UNCHANGED job
  /\ UNCHANGED <<who, keyVars, limitVars, sizeVars, engines, opened, inserter, stored, clockVars>>

(* try_lock, and the cache looked at again under the lock; a caller that   *)
(* meets a refresh in progress uses the value there was.                   *)
TryRefresh(r) ==
  /\ pc[r] = "stale"
  /\ \/ /\ refresher # None \/ Fresh(asked[r])
        /\ Verdict(r, cached)
        /\ UNCHANGED <<refresher, walk>>
     \/ /\ refresher = None /\ ~Fresh(asked[r])
        /\ refresher' = r
        /\ walk' = [left |-> DOMAIN engines, total |-> 0]
        /\ Enter(r, "walk")
        /\ UNCHANGED <<asked, job>>
  /\ UNCHANGED <<who, keyVars, limitVars, cached, cachedAt,
                 engines, opened, inserter, stored, clockVars>>

(* compute_db_size, engine by engine.                                      *)
WalkEngine(r, t) ==
  /\ pc[r] = "walk"
  /\ t \in walk.left
  /\ walk' = [left |-> walk.left \ {t}, total |-> walk.total + SizeOf(t)]
  /\ UNCHANGED <<cached, cachedAt, refresher, keyVars, requestVars, limitVars, storeVars, clockVars>>

(* Mutant: the stamp is the time of the store, not that of the question.   *)
StampLate(r) == now

Stamp(r) == asked[r]

(* The size is stored, then its time.                                      *)
StoreSize(r) ==
  /\ pc[r] = "walk"
  /\ walk.left = {}
  /\ cached' = walk.total
  /\ Enter(r, "stamp")
  /\ UNCHANGED <<cachedAt, refresher, walk, who, asked, keyVars, limitVars, storeVars, clockVars>>

StoreStamp(r) ==
  /\ pc[r] = "stamp"
  /\ cachedAt' = Stamp(r)
  /\ refresher' = None
  /\ walk' = [left |-> {}, total |-> 0]
  /\ Verdict(r, walk.total)
  /\ UNCHANGED <<cached, who, keyVars, limitVars, engines, opened, inserter, stored, clockVars>>

-----------------------------------------------------------------------------
(* engine_for and the append, in a job that outlives its request           *)

FastPath(r) ==
  /\ job[r] = "start"
  /\ job' = [job EXCEPT ![r] = IF who[r].tier \in DOMAIN engines THEN "use" ELSE "lock"]
  /\ UNCHANGED <<engines, opened, inserter, stored, keyVars, requestVars, limitVars, sizeVars, clockVars>>

(* Mutant: the map is not looked at again under the lock.                  *)
TakeLockBlindly(r) ==
  /\ job[r] = "lock"
  /\ inserter = None
  /\ inserter' = r
  /\ job' = [job EXCEPT ![r] = "open"]
  /\ UNCHANGED <<engines, opened, stored, keyVars, requestVars, limitVars, sizeVars, clockVars>>

(* insert_lock; another thread may have mounted the tier meanwhile.        *)
TakeLock(r) ==
  /\ job[r] = "lock"
  /\ inserter = None
  /\ \/ /\ who[r].tier \in DOMAIN engines
        /\ job' = [job EXCEPT ![r] = "use"]
        /\ UNCHANGED inserter
     \/ /\ who[r].tier \notin DOMAIN engines
        /\ job' = [job EXCEPT ![r] = "open"]
        /\ inserter' = r
  /\ UNCHANGED <<engines, opened, stored, keyVars, requestVars, limitVars, sizeVars, clockVars>>

Engine(t) == [tier |-> t, n |-> Cardinality({o \in opened : o.tier = t})]

OpenEngine(r) ==
  /\ job[r] = "open"
  /\ job' = [job EXCEPT ![r] = "publish"]
  /\ opened' = opened \cup {Engine(who[r].tier)}
  /\ UNCHANGED <<engines, inserter, stored, keyVars, requestVars, limitVars, sizeVars, clockVars>>

(* The copy of the map with the new engine replaces the map.               *)
PublishEngine(r) ==
  LET t == who[r].tier IN
  /\ job[r] = "publish"
  /\ engines' = [u \in DOMAIN engines \cup {t} |->
                   IF u = t THEN CHOOSE o \in opened : o.tier = t ELSE engines[u]]
  /\ inserter' = None
  /\ job' = [job EXCEPT ![r] = "use"]
  /\ UNCHANGED <<opened, stored, keyVars, requestVars, limitVars, sizeVars, clockVars>>

(* The engine does not open, or fails in its use.                          *)
JobFails(r) ==
  /\ job[r] \in {"open", "use"}
  /\ inserter' = IF job[r] = "open" THEN None ELSE inserter
  /\ job' = [job EXCEPT ![r] = "failed"]
  /\ UNCHANGED <<engines, opened, stored, keyVars, requestVars, limitVars, sizeVars, clockVars>>

(* The event is appended.                                                  *)
UseEngine(r) ==
  /\ job[r] = "use"
  /\ job' = [job EXCEPT ![r] = "end"]
  /\ stored' = stored \cup {[event |-> r, tier |-> who[r].tier, engine |-> engines[who[r].tier]]}
  /\ UNCHANGED <<engines, opened, inserter, keyVars, requestVars, limitVars, sizeVars, clockVars>>

(* The writer's answer reaches the handler.                                *)
Finish(r) ==
  /\ pc[r] = "write"
  /\ job[r] \in {"end", "failed"}
  /\ Respond(r, IF job[r] = "end" THEN 201 ELSE 500)
  /\ UNCHANGED <<who, asked, keyVars, limitVars, sizeVars, storeVars, clockVars>>

-----------------------------------------------------------------------------
(* The loops beside the requests *)

(* Dated(f, S): the events of S have the present second, the others what   *)
(* f says.                                                                 *)
Dated(f, S) == [r \in Requests |-> IF r \in S THEN now ELSE f[r]]

(* The rotator, a checkpoint, or a shard that has reached wal_max_events:  *)
(* events of an engine's WAL go into a segment.  A flush that fails, or of *)
(* one shard only, leaves the others where they are.                       *)
Rotate(t) ==
  \E S \in SUBSET {r \in Requests : job[r] = "end" /\ flushedAt[r] = None /\ who[r].tier = t} :
    /\ S # {}
    /\ Cardinality({r \in Requests : flushedAt[r] # None} \cup S) <= MaxFlushed
    /\ flushedAt' = Dated(flushedAt, S)
    /\ UNCHANGED <<now, freedAt, keyVars, requestVars, limitVars, sizeVars, storeVars>>

(* gc_tier or gc_expired drops whole segments of an engine.  Which ones    *)
(* are old enough is of no concern here: any may be.                       *)
Collect(t) ==
  \E S \in SUBSET {r \in InSegments : who[r].tier = t} :
    /\ S # {}
    /\ freedAt' = Dated(freedAt, S)
    /\ UNCHANGED <<now, flushedAt, keyVars, requestVars, limitVars, sizeVars, storeVars>>

(* SIGHUP: load does not validate; a file that does not parse changes      *)
(* nothing.                                                                *)
Reload(c) ==
  /\ reloads < MaxReloads
  /\ reloads' = reloads + 1
  /\ keys' = IF c.parses THEN from_config(c) ELSE keys
  /\ seen' = [r \in Requests |->
               IF pc[r] \in {"queued", "auth"} THEN seen[r] \cup {keys'} ELSE seen[r]]
  /\ UNCHANGED <<requestVars, limitVars, sizeVars, storeVars, clockVars>>

Tick ==
  /\ now < MaxTime
  /\ now' = now + 1
  /\ UNCHANGED <<flushedAt, freedAt, keyVars, requestVars, limitVars, sizeVars, storeVars>>

RequestStep(r) ==
  \/ Permit(r) \/ Authenticate(r) \/ RateLimit(r) \/ Timeout(r) \/ CheckSize(r)
  \/ TryRefresh(r) \/ (\E t \in walk.left : WalkEngine(r, t)) \/ StoreSize(r)
  \/ StoreStamp(r) \/ Finish(r)

JobStep(r) ==
  FastPath(r) \/ TakeLock(r) \/ OpenEngine(r) \/ PublishEngine(r) \/ UseEngine(r) \/ JobFails(r)

Next ==
  \/ \E r \in Requests : Arrive(r) \/ RequestStep(r) \/ JobStep(r)
  \/ \E t \in DOMAIN engines : Rotate(t) \/ Collect(t)
  \/ \E c \in Configs : Reload(c)
  \/ Tick

(* The runtime polls some task as long as one can go on, and a timer       *)
(* fires.                                                                  *)
Fairness == WF_vars(\E r \in Requests : RequestStep(r) \/ JobStep(r))

Spec == Init /\ [][Next]_vars /\ Fairness

-----------------------------------------------------------------------------
(* Properties *)

(* In any stretch of time a key is let through at most Burst times plus    *)
(* what its bucket gains meanwhile, whatever the order of its requests,    *)
(* denials and refills, and across reloads of the keys.                    *)
AdmittedWithinRate ==
  \A a, b \in Requests :
    tokenAt[a] # None /\ tokenAt[b] # None /\ who[a].id = who[b].id =>
      Cardinality({r \in Requests : /\ who[r].id = who[a].id
                                    /\ tokenAt[r] \in tokenAt[a] .. tokenAt[b]}) * TokenUnits
        <= Full + Max({tokenAt[b] - tokenAt[a], 0}) * Rate

(* Retry-After keeps its word: when the time has passed and no other       *)
(* request of the key took the token, a retry would be let through.        *)
RetryHonest ==
  \A id \in DOMAIN promised : now >= promised[id] => Refilled(id) >= TokenUnits

(* A request is who some key set published while it was in the server says *)
(* it is, and is turned away only if such a set does not know it: a reload *)
(* neither mixes two sets nor leaves an old one in use.                    *)
IdentityCurrent ==
  \A r \in Requests :
    /\ pc[r] \in {"rate", "body", "stale", "walk", "stamp", "write"} =>
         \E ks \in seen[r] : who[r] \in Identity(ks, SecretOf[r])
    /\ answer[r] = 401 => \E ks \in seen[r] : Identity(ks, SecretOf[r]) = {}

(* A tier's directory is opened once, however many jobs find it missing at *)
(* the same time, and what an append has stored is in the engine that      *)
(* queries find in the map.                                                *)
MountedOnce ==
  /\ \A o, p \in opened : o.tier = p.tier => o = p
  /\ \A s \in stored : s.tier \in DOMAIN engines /\ engines[s.tier] = s.engine

(* The events that were in a segment at second t or later, and those that  *)
(* were in one before second t and still are.                              *)
Recent(t) ==
  {r \in Requests : flushedAt[r] # None /\ (freedAt[r] = None \/ freedAt[r] >= t)}
Lasting(t) == {r \in InSegments : flushedAt[r] < t}

(* The second a request asks for: that of its question, if it had to ask.  *)
AskedAt(r) == IF asked[r] = None THEN now ELSE asked[r]

(* What a verdict on r says of the segments, by the stamp of the size it   *)
(* was made from.                                                          *)
Justified(r) ==
  MaxDb # 0 /\ pc[r] \in {"body", "stale", "stamp"} /\ pc'[r] \in {"done", "write"} =>
    /\ pc'[r] = "done" /\ answer'[r] = 507 => Cardinality(Recent(cachedAt')) >= MaxDb
    /\ pc'[r] = "write" => Cardinality(Lasting(cachedAt')) < MaxDb
    /\ answer'[r] # 408 => refresher' # None \/ AskedAt(r) - cachedAt' < SizeInterval

(* A verdict is justified by the segments since the stamp of the cache:    *)
(* nobody is refused unless the events that were in a segment at some time *)
(* since then reach the limit, so what was freed before it refuses nobody; *)
(* nobody is let in while those that were there before it and still are    *)
(* reach the limit, so that only the WAL and what was flushed since can    *)
(* overrun it.  The stamp is less than an interval old, unless a refresh   *)
(* is under way.                                                           *)
SizeHonest == [][\A r \in Requests : Justified(r)]_vars

(* Every request that reaches the server is answered, also when the        *)
(* permits are taken or an engine does not open: again and again nobody is *)
(* waiting.                                                                *)
EveryRequestAnswered == []<>(\A r \in Requests : pc[r] \in {"out", "done"})

====
