---------------------------- MODULE IngestProofs ----------------------------
(***************************************************************************)
(* What Ingest promises for every set of attempts, batches and keys, every *)
(* cache size and every ttl: a 201 names a stored event of its own key, a  *)
(* batch is answered index by index, a retry within the window creates no  *)
(* event, and the cache keeps to its share.                                *)
(***************************************************************************)
EXTENDS Ingest, SequenceTheorems, TLAPS

-----------------------------------------------------------------------------
(* The inductive invariant *)

EntrySet == [key : Keys, event : Attempts, expires : Int]

TypeInv ==
  /\ status \in [Attempts -> {"new", "pending", "acked", "accepted", "refused", "unknown"}]
  /\ durable \in SUBSET Attempts
  /\ visible \in SUBSET Attempts
  /\ pc \in [Attempts -> {"idle", "missed", "writing", "written", "done", "accepted", "failed"}]
  /\ answer \in [Attempts -> Attempts \cup {Error}]
  /\ valid \in [Batches -> UNION {Ascending(Len(b)) : b \in Batches}]
  /\ \A b \in Batches : valid[b] \in Ascending(Len(b))
  /\ results \in [Batches -> Seq(Attempts \cup {Error})]
  /\ cache \in [Shards -> Seq(EntrySet)]
  /\ now \in Nat
  /\ earlier \in [Attempts -> SUBSET Attempts]
  /\ lookedUp \in [Attempts -> Int]
  /\ cachedAt \in [Attempts -> Int]
  /\ forgotten \in SUBSET Attempts

(* What an attempt's handler has done with it: nothing yet is submitted    *)
(* before its write starts, a confirmed write is stored, the batch         *)
(* endpoint never looks a key up, and an attempt that was answered when    *)
(* another one looked up the key they share stays answered.                *)
WriteInv ==
  \A a \in Attempts :
    /\ pc[a] \in {"idle", "missed"} => status[a] = "new"
    /\ pc[a] = "written" => a \in Stored
    /\ a \in InBatch => pc[a] # "missed"
    /\ \A x \in earlier[a] : pc[x] \in {"done", "failed"} /\ KeyOf[x] = KeyOf[a]

(* An attempt answered with its own event was answered for good, is stored *)
(* and, when it has a key, was cached at some time.                        *)
OwnInv ==
  \A x \in Attempts : answer[x] = x =>
    /\ pc[x] = "done"
    /\ x \in Stored
    /\ KeyOf[x] # NoKey => cachedAt[x] \in 0 .. now

(* A cache entry sits in its key's shard and holds an answer that was      *)
(* given under its key, until that answer's ttl is over.                   *)
CacheInv ==
  \A s \in Shards : \A e \in ToSet(cache[s]) :
    /\ shard_index(e.key) = s
    /\ KeyOf[e.event] = e.key
    /\ answer[e.event] = e.event
    /\ e.expires = cachedAt[e.event] + Ttl

(* An answer that was given under a key and is neither forgotten nor       *)
(* expired is in the cache, or a later answer of that key is.              *)
RememberInv ==
  \A x \in Attempts : answer[x] = x /\ KeyOf[x] # NoKey /\ x \notin forgotten =>
    \/ cachedAt[x] + Ttl <= now
    \/ \E e \in ToSet(cache[shard_index(KeyOf[x])]) :
         e.key = KeyOf[x] /\ e.expires >= cachedAt[x] + Ttl

(* RetryDeduplicated, with the reason why the retry created no event: it   *)
(* was answered from the cache, and is over.                               *)
DedupInv ==
  \A a, x \in Attempts : (KeyOf[a] # NoKey /\ x \in earlier[a] /\ answer[x] = x) =>
    \/ status[a] = "new" /\ pc[a] = "done"
    \/ x \in forgotten
    \/ lookedUp[a] >= cachedAt[x] + Ttl

(* The events of an answered batch are at rest; those of an open batch     *)
(* have no answer yet, and the ones being written are at valid indices.    *)
BatchInv ==
  \A b \in Batches :
    /\ results[b] # <<>> => \A i \in DOMAIN b : pc[b[i]] \notin {"writing", "written"}
    /\ results[b] = <<>> => \A i \in DOMAIN b :
         /\ pc[b[i]] # "done"
         /\ pc[b[i]] \in {"writing", "written"} => \E j \in DOMAIN valid[b] : valid[b][j] = i

KeyInv == OwnInv /\ CacheInv /\ RememberInv /\ DedupInv /\ CacheBounded

IngestInv == TypeInv /\ WriteInv /\ BatchInv /\ BatchAligned /\ KeyInv /\ AnswerStored

-----------------------------------------------------------------------------
(* Facts about cache shards *)

(* Two positions of a shard never hold the same key.                       *)
OneKey(s) == \A i, j \in DOMAIN s : s[i].key = s[j].key => i = j

(* Removing an entry removes the one entry of its key.                     *)
LEMMA RemoveAtEntries ==
  ASSUME NEW s \in Seq(EntrySet), NEW p \in DOMAIN s, OneKey(s)
  PROVE  /\ RemoveAt(s, p) \in Seq(EntrySet)
         /\ Len(RemoveAt(s, p)) = Len(s) - 1
         /\ OneKey(RemoveAt(s, p))
         /\ ToSet(RemoveAt(s, p)) = {e \in ToSet(s) : e.key # s[p].key}
<1> DEFINE r == RemoveAt(s, p)
<1>1. p \in 1 .. Len(s) /\ Len(s) \in Nat
  OBVIOUS
<1>2. SubSeq(s, 1, p - 1) \in Seq(EntrySet) /\ Len(SubSeq(s, 1, p - 1)) = p - 1
      /\ \A i \in 1 .. p - 1 : SubSeq(s, 1, p - 1)[i] = s[i]
  BY <1>1, SubSeqProperties
<1>3. SubSeq(s, p + 1, Len(s)) \in Seq(EntrySet) /\ Len(SubSeq(s, p + 1, Len(s))) = Len(s) - p
      /\ \A i \in 1 .. Len(s) - p : SubSeq(s, p + 1, Len(s))[i] = s[i + p]
  BY <1>1, SubSeqProperties
<1>4. r \in Seq(EntrySet) /\ Len(r) = Len(s) - 1
      /\ \A i \in 1 .. Len(s) - 1 : r[i] = IF i < p THEN s[i] ELSE s[i + 1]
  <2> DEFINE u == SubSeq(s, 1, p - 1)
             v == SubSeq(s, p + 1, Len(s))
  <2>1. r = u \o v
    BY DEF RemoveAt
  <2> HIDE DEF u, v, r
  <2>2. u \in Seq(EntrySet) /\ Len(u) = p - 1 /\ \A i \in 1 .. p - 1 : u[i] = s[i]
    BY <1>2 DEF u
  <2>3. v \in Seq(EntrySet) /\ Len(v) = Len(s) - p /\ \A i \in 1 .. Len(s) - p : v[i] = s[i + p]
    BY <1>3 DEF v
  <2>4. r \in Seq(EntrySet) /\ Len(r) = Len(s) - 1
    BY <2>1, <2>2, <2>3, <1>1
  <2>5. ASSUME NEW i \in 1 .. Len(s) - 1
        PROVE  r[i] = IF i < p THEN s[i] ELSE s[i + 1]
    <3>1. CASE i < p
      BY <3>1, <2>1, <2>2, <2>3, <1>1
    <3>2. CASE ~(i < p)
      <4>1. r[i] = v[i - (p - 1)]
        <5>1. i \in 1 .. Len(u) + Len(v) /\ ~(i <= Len(u))
          BY <3>2, <2>2, <2>3, <1>1
        <5>2. r[i] = v[i - Len(u)]
          BY <5>1, <2>1, <2>2, <2>3, ConcatProperties
        <5> QED BY <5>2, <2>2
      <4>2. i - (p - 1) \in 1 .. Len(s) - p /\ (i - (p - 1)) + p = i + 1
        BY <3>2, <1>1
      <4> QED BY <3>2, <4>1, <4>2, <2>3
    <3> QED BY <3>1, <3>2
  <2> QED BY <2>4, <2>5
<1> HIDE DEF r
<1>5. DOMAIN r = 1 .. Len(s) - 1 /\ DOMAIN s = 1 .. Len(s)
  BY <1>4
<1>6. OneKey(r)
  <2> SUFFICES ASSUME NEW i \in DOMAIN r, NEW j \in DOMAIN r, r[i].key = r[j].key
               PROVE  i = j
    BY DEF OneKey
  <2> DEFINE q(n) == IF n < p THEN n ELSE n + 1
  <2>1. \A n \in 1 .. Len(s) - 1 : q(n) \in DOMAIN s /\ r[n] = s[q(n)]
    BY <1>4, <1>5, <1>1
  <2>2. s[q(i)].key = s[q(j)].key
    BY <2>1, <1>5
  <2>3. q(i) = q(j)
    BY <2>1, <2>2, <1>5 DEF OneKey
  <2> QED BY <2>3, <1>5, <1>1
<1>7. ASSUME NEW e \in ToSet(r) PROVE e \in ToSet(s) /\ e.key # s[p].key
  <2>1. PICK i \in DOMAIN r : e = r[i]
    BY DEF ToSet
  <2>2. \E j \in DOMAIN s : e = s[j] /\ j # p
    <3>1. CASE i < p
      <4>1. e = s[i] /\ i \in DOMAIN s /\ i # p
        BY <3>1, <2>1, <1>4, <1>5, <1>1
      <4> QED BY <4>1
    <3>2. CASE ~(i < p)
      <4>1. e = s[i + 1] /\ i + 1 \in DOMAIN s /\ i + 1 # p
        BY <3>2, <2>1, <1>4, <1>5, <1>1
      <4> QED BY <4>1
    <3> QED BY <3>1, <3>2
  <2> QED BY <2>2 DEF OneKey, ToSet
<1>8. ASSUME NEW e \in ToSet(s), e.key # s[p].key PROVE e \in ToSet(r)
  <2>1. PICK i \in DOMAIN s : e = s[i]
    BY DEF ToSet
  <2>2. i # p
    BY <2>1, <1>8
  <2>3. CASE i < p
    BY <2>1, <2>3, <1>1, <1>4, <1>5 DEF ToSet
  <2>4. CASE i > p
    <3>1. i - 1 \in 1 .. Len(s) - 1 /\ ~(i - 1 < p) /\ (i - 1) + 1 = i
      BY <2>4, <1>1, <1>5
    <3>2. r[i - 1] = s[i]
      BY <3>1, <1>4
    <3> QED BY <2>1, <3>1, <3>2, <1>5 DEF ToSet
  <2> QED BY <2>2, <2>3, <2>4, <1>1, <1>5
<1>9. ToSet(r) = {e \in ToSet(s) : e.key # s[p].key}
  BY <1>7, <1>8
<1> QED BY <1>4, <1>6, <1>9 DEF r

(* Evicting the first entry of a shard removes the one entry of its key.   *)
LEMMA TailEntries ==
  ASSUME NEW s \in Seq(EntrySet), Len(s) > 0, OneKey(s)
  PROVE  /\ Tail(s) \in Seq(EntrySet)
         /\ Len(Tail(s)) = Len(s) - 1
         /\ OneKey(Tail(s))
         /\ ToSet(Tail(s)) = {e \in ToSet(s) : e.key # s[1].key}
         /\ s[1] \in ToSet(s)
<1> DEFINE r == Tail(s)
<1>1. Len(s) \in Nat /\ s # <<>>
  OBVIOUS
<1>2. r \in Seq(EntrySet) /\ Len(r) = Len(s) - 1 /\ \A i \in 1 .. Len(s) - 1 : r[i] = s[i + 1]
  BY <1>1
<1> HIDE DEF r
<1>3. DOMAIN r = 1 .. Len(s) - 1 /\ DOMAIN s = 1 .. Len(s)
  BY <1>2
<1>4. OneKey(r)
  <2> SUFFICES ASSUME NEW i \in DOMAIN r, NEW j \in DOMAIN r, r[i].key = r[j].key
               PROVE  i = j
    BY DEF OneKey
  <2>1. i + 1 \in DOMAIN s /\ j + 1 \in DOMAIN s /\ s[i + 1].key = s[j + 1].key
    BY <1>2, <1>3, <1>1
  <2>2. i + 1 = j + 1
    BY <2>1 DEF OneKey
  <2> QED BY <2>2, <1>3
<1>5. ASSUME NEW e \in ToSet(r) PROVE e \in ToSet(s) /\ e.key # s[1].key
  <2>1. PICK i \in DOMAIN r : e = r[i]
    BY DEF ToSet
  <2>2. i + 1 \in DOMAIN s /\ e = s[i + 1] /\ i + 1 # 1 /\ 1 \in DOMAIN s
    BY <2>1, <1>2, <1>3, <1>1
  <2> QED BY <2>2 DEF OneKey, ToSet
<1>6. ASSUME NEW e \in ToSet(s), e.key # s[1].key PROVE e \in ToSet(r)
  <2>1. PICK i \in DOMAIN s : e = s[i]
    BY DEF ToSet
  <2>2. i # 1
    BY <2>1, <1>6
  <2>3. i - 1 \in DOMAIN r /\ r[i - 1] = s[(i - 1) + 1] /\ (i - 1) + 1 = i
    BY <2>2, <1>1, <1>2, <1>3
  <2> QED BY <2>1, <2>3 DEF ToSet
<1>7. s[1] \in ToSet(s)
  BY <1>3, <1>1 DEF ToSet
<1> QED BY <1>2, <1>4, <1>5, <1>6, <1>7 DEF r

(* A shard takes an entry of a key it does not hold.                       *)
LEMMA AppendEntries ==
  ASSUME NEW s \in Seq(EntrySet), NEW e \in EntrySet, OneKey(s),
         \A x \in ToSet(s) : x.key # e.key
  PROVE  /\ Append(s, e) \in Seq(EntrySet)
         /\ Len(Append(s, e)) = Len(s) + 1
         /\ OneKey(Append(s, e))
         /\ ToSet(Append(s, e)) = ToSet(s) \cup {e}
<1> DEFINE r == Append(s, e)
<1>1. Len(s) \in Nat
  OBVIOUS
<1>2. r \in Seq(EntrySet) /\ Len(r) = Len(s) + 1 /\ r[Len(s) + 1] = e
      /\ \A i \in 1 .. Len(s) : r[i] = s[i]
  OBVIOUS
<1> HIDE DEF r
<1>3. DOMAIN r = 1 .. Len(s) + 1 /\ DOMAIN s = 1 .. Len(s)
  BY <1>2
<1>4. \A i \in DOMAIN r : (i \in DOMAIN s /\ r[i] = s[i]) \/ (i = Len(s) + 1 /\ r[i] = e)
  BY <1>1, <1>2, <1>3
<1>5. \A i \in DOMAIN s : i \in DOMAIN r /\ r[i] = s[i]
  BY <1>1, <1>2, <1>3
<1>6. Len(s) + 1 \in DOMAIN r
  BY <1>1, <1>3
<1>7. \A i \in DOMAIN s : s[i].key # e.key
  BY DEF ToSet
<1>8. OneKey(r)
  BY <1>4, <1>7 DEF OneKey
<1>9. ToSet(r) = ToSet(s) \cup {e}
  BY <1>2, <1>4, <1>5, <1>6 DEF ToSet
<1> QED BY <1>2, <1>8, <1>9 DEF r

-----------------------------------------------------------------------------
(* Facts about the cache *)

(* Every key has its shard, and every shard has room for an entry.         *)
LEMMA ShardFacts ==
  /\ \A k \in Keys : shard_index(k) \in Shards
  /\ PerShardEntries \in Nat \ {0}
<1>1. ASSUME NEW k \in Keys PROVE shard_index(k) \in Shards
  BY IngestAssumption DEF shard_index, Shards
<1>2. MaxEntries \div NumShards \in Nat
  BY IngestAssumption
<1> QED BY <1>1, <1>2 DEF PerShardEntries

(* The entries of a shard are entries.                                     *)
LEMMA EntryTypes ==
  ASSUME TypeInv, NEW s \in Shards, NEW e \in ToSet(cache[s])
  PROVE  /\ e \in EntrySet
         /\ e.key \in Keys /\ e.event \in Attempts /\ e.expires \in Int
<1>1. cache[s] \in Seq(EntrySet)
  BY DEF TypeInv
<1>2. PICK i \in DOMAIN cache[s] : e = cache[s][i]
  BY DEF ToSet
<1>3. e \in EntrySet
  BY <1>1, <1>2
<1> QED BY <1>3 DEF EntrySet

(* A shard without the entry of key k holds its other entries.             *)
LEMMA WithoutEntries ==
  ASSUME NEW k \in Keys, TypeInv, CacheBounded
  PROVE  /\ Entries(k) \in Seq(EntrySet)
         /\ Without(k) \in Seq(EntrySet)
         /\ Len(Without(k)) <= PerShardEntries
         /\ OneKey(Without(k))
         /\ ToSet(Without(k)) = {e \in ToSet(Entries(k)) : e.key # k}
         /\ Cached(k) => /\ Find(k) \in ToSet(Entries(k))
                         /\ Find(k) \in EntrySet
                         /\ Find(k).key = k
                         /\ \A e \in ToSet(Entries(k)) : e.key = k => e = Find(k)
                         /\ Len(Without(k)) < PerShardEntries
         /\ ~Cached(k) => \A e \in ToSet(Entries(k)) : e.key # k
<1> DEFINE s == Entries(k)
<1>1. s \in Seq(EntrySet) /\ Len(s) <= PerShardEntries /\ OneKey(s)
  BY ShardFacts DEF TypeInv, CacheBounded, OneKey, Entries
<1>2. Len(s) \in Nat /\ PerShardEntries \in Nat
  BY <1>1, ShardFacts
<1>3. CASE Cached(k)
  <2>1. Position(k) \in DOMAIN s /\ s[Position(k)].key = k
    BY <1>3 DEF Cached, Position
  <2>2. Find(k) = s[Position(k)] /\ Without(k) = RemoveAt(s, Position(k))
    BY <1>3 DEF Find, Without
  <2> HIDE DEF s
  <2>3. /\ Without(k) \in Seq(EntrySet)
        /\ Len(Without(k)) = Len(s) - 1
        /\ OneKey(Without(k))
        /\ ToSet(Without(k)) = {e \in ToSet(s) : e.key # k}
    BY <2>1, <2>2, <1>1, RemoveAtEntries
  <2>4. Find(k) \in ToSet(s) /\ Find(k) \in EntrySet /\ Find(k).key = k
    BY <2>1, <2>2, <1>1 DEF ToSet
  <2>5. \A e \in ToSet(s) : e.key = k => e = Find(k)
    BY <2>1, <2>2, <1>1 DEF ToSet, OneKey
  <2> QED BY <1>1, <1>2, <1>3, <2>3, <2>4, <2>5 DEF s
<1>4. CASE ~Cached(k)
  <2>1. Without(k) = s
    BY <1>4 DEF Without
  <2>2. \A e \in ToSet(s) : e.key # k
    BY <1>4 DEF Cached, ToSet
  <2> QED BY <1>1, <1>4, <2>1, <2>2
<1> QED BY <1>3, <1>4

(* What a step on key k may do to the cache: other shards keep what they   *)
(* hold, and k's shard becomes a well-formed one of entries.               *)
ShardBecomes(k, s) ==
  /\ cache' = [cache EXCEPT ![shard_index(k)] = s]
  /\ s \in Seq(EntrySet)
  /\ Len(s) <= PerShardEntries
  /\ OneKey(s)

(* Such a step keeps the cache well formed and the other shards as they    *)
(* are.                                                                    *)
LEMMA ShardBecomesKeeps ==
  ASSUME NEW k \in Keys, TypeInv, CacheBounded, NEW s, ShardBecomes(k, s)
  PROVE  /\ cache' \in [Shards -> Seq(EntrySet)]
         /\ CacheBounded'
         /\ cache'[shard_index(k)] = s
         /\ \A t \in Shards : t # shard_index(k) => cache'[t] = cache[t]
<1>1. shard_index(k) \in Shards
  BY ShardFacts
<1>2. /\ cache' \in [Shards -> Seq(EntrySet)]
      /\ cache'[shard_index(k)] = s
      /\ \A t \in Shards : t # shard_index(k) => cache'[t] = cache[t]
  BY <1>1 DEF ShardBecomes, TypeInv
<1>3. \A t \in Shards : Len(cache'[t]) <= PerShardEntries /\ OneKey(cache'[t])
  BY <1>2 DEF CacheBounded, ShardBecomes, OneKey
<1>4. CacheBounded'
  BY <1>3 DEF CacheBounded, OneKey
<1> QED BY <1>2, <1>4

(* get loses an expired entry of its key and nothing else.                 *)
LEMMA CacheGetKeeps ==
  ASSUME NEW k \in Keys, TypeInv, CacheBounded, CacheGet(k)
  PROVE  /\ cache' \in [Shards -> Seq(EntrySet)]
         /\ CacheBounded'
         /\ \A t \in Shards : ToSet(cache'[t]) \subseteq ToSet(cache[t])
         /\ \A t \in Shards : \A e \in ToSet(cache[t]) :
              e \in ToSet(cache'[t]) \/ e.expires <= now
<1> DEFINE w == Without(k)
           s == IF Live(k) THEN Append(w, Find(k)) ELSE w
<1>1. /\ Entries(k) \in Seq(EntrySet)
      /\ w \in Seq(EntrySet)
      /\ Len(w) <= PerShardEntries
      /\ OneKey(w)
      /\ ToSet(w) = {e \in ToSet(Entries(k)) : e.key # k}
      /\ Cached(k) => /\ Find(k) \in ToSet(Entries(k))
                      /\ Find(k) \in EntrySet
                      /\ Find(k).key = k
                      /\ \A e \in ToSet(Entries(k)) : e.key = k => e = Find(k)
                      /\ Len(w) < PerShardEntries
      /\ ~Cached(k) => \A e \in ToSet(Entries(k)) : e.key # k
  BY WithoutEntries
<1>2. cache' = [cache EXCEPT ![shard_index(k)] = s]
  BY DEF CacheGet
<1> HIDE DEF w
<1>3. Len(w) \in Nat /\ PerShardEntries \in Nat /\ now \in Int
  BY <1>1, ShardFacts DEF TypeInv
<1>4. /\ s \in Seq(EntrySet)
      /\ Len(s) <= PerShardEntries
      /\ OneKey(s)
      /\ ToSet(s) \subseteq ToSet(Entries(k))
      /\ \A e \in ToSet(Entries(k)) : e \in ToSet(s) \/ e.expires <= now
  <2>1. CASE Live(k)
    <3>1. Cached(k)
      BY <2>1 DEF Live
    <3>2. \A x \in ToSet(w) : x.key # Find(k).key
      BY <3>1, <1>1
    <3>3. /\ Append(w, Find(k)) \in Seq(EntrySet)
          /\ Len(Append(w, Find(k))) = Len(w) + 1
          /\ OneKey(Append(w, Find(k)))
          /\ ToSet(Append(w, Find(k))) = ToSet(w) \cup {Find(k)}
      BY <3>1, <3>2, <1>1, AppendEntries
    <3>4. s = Append(w, Find(k))
      BY <2>1
    <3> HIDE DEF s
    <3>5. \A e \in ToSet(Entries(k)) : e \in ToSet(s)
      BY <3>1, <3>3, <3>4, <1>1
    <3>6. Len(s) <= PerShardEntries
      BY <3>1, <3>3, <3>4, <1>1, <1>3
    <3> QED BY <3>1, <3>3, <3>4, <3>5, <3>6, <1>1
  <2>2. CASE ~Live(k)
    <3>1. s = w
      BY <2>2
    <3> HIDE DEF s
    <3>2. ASSUME NEW e \in ToSet(Entries(k)), e.key = k PROVE e.expires <= now
      <4>1. Cached(k) /\ e = Find(k)
        BY <3>2, <1>1
      <4>2. e.expires \in Int
        BY <4>1, <1>1 DEF EntrySet
      <4> QED BY <2>2, <4>1, <4>2, <1>3 DEF Live
    <3> QED BY <3>1, <3>2, <1>1
  <2> QED BY <2>1, <2>2
<1> HIDE DEF s
<1>5. ShardBecomes(k, s)
  BY <1>2, <1>4 DEF ShardBecomes
<1>6. /\ cache' \in [Shards -> Seq(EntrySet)]
      /\ CacheBounded'
      /\ cache'[shard_index(k)] = s
      /\ \A t \in Shards : t # shard_index(k) => cache'[t] = cache[t]
  BY <1>5, ShardBecomesKeeps
<1>7. Entries(k) = cache[shard_index(k)]
  BY DEF Entries
<1>8. \A t \in Shards : ToSet(cache'[t]) \subseteq ToSet(cache[t])
  BY <1>4, <1>6, <1>7
<1>9. \A t \in Shards : \A e \in ToSet(cache[t]) : e \in ToSet(cache'[t]) \/ e.expires <= now
  BY <1>4, <1>6, <1>7
<1> QED BY <1>6, <1>8, <1>9

(* insert adds its entry; what it drops is of the same key or is noted as  *)
(* forgotten, with every other answer of its key.                          *)
LEMMA CacheInsertKeeps ==
  ASSUME NEW k \in Keys, NEW a \in Attempts, TypeInv, CacheBounded, CacheInsert(k, a)
  PROVE  /\ cache' \in [Shards -> Seq(EntrySet)]
         /\ CacheBounded'
         /\ Entry(k, a) \in ToSet(cache'[shard_index(k)])
         /\ \A t \in Shards : \A e \in ToSet(cache'[t]) :
              \/ e \in ToSet(cache[t])
              \/ e = Entry(k, a) /\ t = shard_index(k)
         /\ \A t \in Shards : \A e \in ToSet(cache[t]) :
              \/ e \in ToSet(cache'[t])
              \/ e.key = k
              \/ \A x \in Attempts : KeyOf[x] = e.key /\ cachedAt[x] >= 0 => x \in forgotten'
         /\ cachedAt' = [cachedAt EXCEPT ![a] = now]
         /\ forgotten \subseteq forgotten'
         /\ forgotten' \subseteq Attempts
         /\ Entry(k, a) \in EntrySet
<1> DEFINE w == Without(k)
           evict == Len(w) >= PerShardEntries
           u == IF evict THEN Tail(w) ELSE w
           s == Append(u, Entry(k, a))
<1>1. /\ w \in Seq(EntrySet)
      /\ Len(w) <= PerShardEntries
      /\ OneKey(w)
      /\ ToSet(w) = {e \in ToSet(Entries(k)) : e.key # k}
  BY WithoutEntries
<1>2. /\ cache' = [cache EXCEPT ![shard_index(k)] = s]
      /\ cachedAt' = [cachedAt EXCEPT ![a] = now]
      /\ forgotten' = IF evict
                      THEN forgotten \cup {x \in Attempts : KeyOf[x] = w[1].key /\ cachedAt[x] >= 0}
                      ELSE forgotten
  BY DEF CacheInsert
<1> HIDE DEF w
<1>3. Len(w) \in Nat /\ PerShardEntries \in Nat /\ PerShardEntries > 0
  BY <1>1, ShardFacts
<1>4. Entry(k, a) \in EntrySet /\ Entry(k, a).key = k
  BY IngestAssumption DEF Entry, EntrySet, TypeInv
<1>5. /\ u \in Seq(EntrySet)
      /\ Len(u) < PerShardEntries
      /\ OneKey(u)
      /\ ToSet(u) \subseteq ToSet(w)
      /\ \A e \in ToSet(w) : e \in ToSet(u) \/ (evict /\ e.key = w[1].key)
  <2>1. CASE evict
    <3>1. Len(w) > 0
      BY <2>1, <1>3
    <3>2. /\ Tail(w) \in Seq(EntrySet)
          /\ Len(Tail(w)) = Len(w) - 1
          /\ OneKey(Tail(w))
          /\ ToSet(Tail(w)) = {e \in ToSet(w) : e.key # w[1].key}
      BY <3>1, <1>1, TailEntries
    <3>3. u = Tail(w)
      BY <2>1
    <3> HIDE DEF u
    <3>5. Len(u) = Len(w) - 1
      BY <3>2, <3>3
    <3>4. Len(u) < PerShardEntries
      BY <3>5, <1>1, <1>3
    <3> QED BY <2>1, <3>2, <3>3, <3>4
  <2>2. CASE ~evict
    BY <2>2, <1>1, <1>3
  <2> QED BY <2>1, <2>2
<1> HIDE DEF u
<1>6. \A x \in ToSet(u) : x.key # Entry(k, a).key
  BY <1>1, <1>4, <1>5
<1>7. /\ s \in Seq(EntrySet)
      /\ Len(s) = Len(u) + 1
      /\ OneKey(s)
      /\ ToSet(s) = ToSet(u) \cup {Entry(k, a)}
  BY <1>4, <1>5, <1>6, AppendEntries
<1> HIDE DEF s
<1>8. Len(u) \in Nat
  BY <1>5
<1>9. ShardBecomes(k, s)
  BY <1>2, <1>3, <1>5, <1>7, <1>8 DEF ShardBecomes
<1>10. /\ cache' \in [Shards -> Seq(EntrySet)]
       /\ CacheBounded'
       /\ cache'[shard_index(k)] = s
       /\ \A t \in Shards : t # shard_index(k) => cache'[t] = cache[t]
  BY <1>9, ShardBecomesKeeps
<1>11. Entries(k) = cache[shard_index(k)]
  BY DEF Entries
<1>12. \A t \in Shards : \A e \in ToSet(cache'[t]) :
         e \in ToSet(cache[t]) \/ (e = Entry(k, a) /\ t = shard_index(k))
  BY <1>1, <1>5, <1>7, <1>10, <1>11
<1>13. ASSUME NEW t \in Shards, NEW e \in ToSet(cache[t]), e \notin ToSet(cache'[t]), e.key # k
       PROVE  \A x \in Attempts : KeyOf[x] = e.key /\ cachedAt[x] >= 0 => x \in forgotten'
  <2>1. t = shard_index(k)
    BY <1>13, <1>10
  <2>2. e \in ToSet(w)
    BY <2>1, <1>13, <1>11, <1>1
  <2>3. e \notin ToSet(u)
    BY <2>1, <1>13, <1>10, <1>7
  <2>4. evict /\ e.key = w[1].key
    BY <2>2, <2>3, <1>5
  <2> QED BY <2>4, <1>2
<1>14. Entry(k, a) \in ToSet(cache'[shard_index(k)])
  BY <1>7, <1>10
<1>15. forgotten \subseteq forgotten' /\ forgotten' \subseteq Attempts
  BY <1>2 DEF TypeInv
<1> QED BY <1>2, <1>4, <1>10, <1>12, <1>13, <1>14, <1>15

-----------------------------------------------------------------------------
(* Steps that leave the cache and the answers alone *)

(* What most steps do to the requests: answers and cache stay, time only   *)
(* goes on, what is stored stays stored, and an answered attempt stays so. *)
Calm ==
  /\ UNCHANGED <<answer, cache, earlier, lookedUp, cachedAt, forgotten>>
  /\ now' >= now
  /\ Stored \subseteq Stored'
  /\ \A x \in Attempts : pc[x] = "done" => pc'[x] = "done"
  /\ \A x \in Attempts : pc[x] = "done" /\ status[x] = "new" => status'[x] = "new"
  /\ \A x \in Single : pc'[x] = "done" => pc[x] = "done"

(* Such a step keeps what is known of keys, cache and answers.             *)
LEMMA CalmKeeps ==
  ASSUME TypeInv, TypeInv', KeyInv, AnswerStored, Calm
  PROVE  KeyInv' /\ AnswerStored'
<1>1. answer' = answer /\ cache' = cache /\ earlier' = earlier /\ lookedUp' = lookedUp
      /\ cachedAt' = cachedAt /\ forgotten' = forgotten
  BY DEF Calm
<1>2. now \in Nat /\ now' \in Nat /\ now' >= now /\ Ttl \in Nat
  BY IngestAssumption DEF Calm, TypeInv
<1>3. \A x \in Attempts : cachedAt[x] \in Int
  BY DEF TypeInv
<1>4. OwnInv'
  BY <1>1, <1>2, <1>3 DEF KeyInv, OwnInv, Calm
<1>5. CacheInv'
  BY <1>1 DEF KeyInv, CacheInv, shard_index, Shards
<1>6. RememberInv'
  <2> SUFFICES ASSUME NEW x \in Attempts, answer[x] = x, KeyOf[x] # NoKey, x \notin forgotten,
                      ~(cachedAt[x] + Ttl <= now')
               PROVE  \E e \in ToSet(cache[shard_index(KeyOf[x])]) :
                        e.key = KeyOf[x] /\ e.expires >= cachedAt[x] + Ttl
    BY <1>1 DEF RememberInv, shard_index
  <2>1. ~(cachedAt[x] + Ttl <= now)
    BY <1>2, <1>3
  <2> QED BY <2>1 DEF KeyInv, RememberInv
<1>7. DedupInv'
  BY <1>1 DEF KeyInv, DedupInv, Calm
<1>8. CacheBounded'
  BY <1>1 DEF KeyInv, CacheBounded, Shards, PerShardEntries
<1>9. AnswerStored'
  BY <1>1 DEF AnswerStored, Calm, Single
<1> QED BY <1>4, <1>5, <1>6, <1>7, <1>8, <1>9 DEF KeyInv

(* What a step on single attempts does to the batches: their results stay, *)
(* and the only events of a batch that move are those being written, which *)
(* become written or failed.                                               *)
CalmForBatches ==
  /\ UNCHANGED <<valid, results>>
  /\ Stored \subseteq Stored'
  /\ \A x \in InBatch :
       \/ pc'[x] = pc[x]
       \/ pc[x] = "writing" /\ pc'[x] \in {"written", "failed"}

(* The events of a batch are attempts, distinct, and in no other batch.    *)
LEMMA BatchMembers ==
  ASSUME NEW b \in Batches
  PROVE  /\ b \in Seq(Attempts)
         /\ \A i \in DOMAIN b : b[i] \in Attempts /\ b[i] \in InBatch /\ b[i] \in ToSet(b)
         /\ \A a \in ToSet(b) : a \in Attempts /\ a \in InBatch /\ \E i \in DOMAIN b : b[i] = a
         /\ \A i, j \in DOMAIN b : b[i] = b[j] => i = j
         /\ \A c \in Batches : c # b => \A i \in DOMAIN c : c[i] \notin ToSet(b)
         /\ Len(b) \in Nat /\ DOMAIN b = 1 .. Len(b)
<1>1. b \in Seq(Attempts)
  BY IngestAssumption
<1>2. \A i \in DOMAIN b : b[i] \in Attempts /\ b[i] \in ToSet(b) /\ b[i] \in InBatch
  BY <1>1 DEF ToSet, InBatch
<1>3. \A a \in ToSet(b) : \E i \in DOMAIN b : b[i] = a
  BY DEF ToSet
<1>4. ASSUME NEW c \in Batches, c # b, NEW i \in DOMAIN c PROVE c[i] \notin ToSet(b)
  <2>1. ToSet(b) \cap ToSet(c) = {}
    BY <1>4, IngestAssumption
  <2>2. c[i] \in ToSet(c)
    BY DEF ToSet
  <2> QED BY <2>1, <2>2
<1> QED BY <1>1, <1>2, <1>3, <1>4, IngestAssumption

(* Such a step keeps what is known of the batches.                         *)
LEMMA CalmForBatchesKeeps ==
  ASSUME TypeInv, BatchInv, BatchAligned, CalmForBatches
  PROVE  BatchInv' /\ BatchAligned'
<1>1. results' = results /\ valid' = valid
  BY DEF CalmForBatches
<1>2. ASSUME NEW b \in Batches, NEW i \in DOMAIN b
      PROVE  \/ pc'[b[i]] = pc[b[i]]
             \/ pc[b[i]] = "writing" /\ pc'[b[i]] \in {"written", "failed"}
  BY BatchMembers DEF CalmForBatches
<1>3. BatchInv'
  BY <1>1, <1>2 DEF BatchInv
<1>4. BatchAligned'
  <2> SUFFICES ASSUME NEW b \in Batches, results[b] # <<>>
               PROVE  /\ Len(results[b]) = Len(b)
                      /\ \A i \in DOMAIN b :
                           IF pc'[b[i]] = "done"
                           THEN results[b][i] = b[i] /\ b[i] \in Stored'
                           ELSE results[b][i] = Error
    BY <1>1 DEF BatchAligned
  <2>1. \A i \in DOMAIN b : pc'[b[i]] = pc[b[i]]
    BY <1>2 DEF BatchInv
  <2> QED BY <2>1 DEF BatchAligned, CalmForBatches
<1> QED BY <1>3, <1>4

(* A step keeps the invariant when it is calm for keys and for batches.    *)
LEMMA CalmStep ==
  ASSUME IngestInv, TypeInv', WriteInv', Calm, CalmForBatches
  PROVE  IngestInv'
BY CalmKeeps, CalmForBatchesKeeps DEF IngestInv

-----------------------------------------------------------------------------
(* The single-event endpoint *)

(* The types of everything a calm step leaves alone.                       *)
LEMMA CalmTypes ==
  ASSUME TypeInv,
         UNCHANGED <<answer, valid, results, cache, earlier, lookedUp, cachedAt, forgotten>>,
         now' \in Nat,
         status' \in [Attempts -> {"new", "pending", "acked", "accepted", "refused", "unknown"}],
         durable' \in SUBSET Attempts, visible' \in SUBSET Attempts,
         pc' \in [Attempts -> {"idle", "missed", "writing", "written", "done", "accepted", "failed"}]
  PROVE  TypeInv'
BY DEF TypeInv, Shards

(* A refused event fails before anything is written.                       *)
LEMMA RejectKeeps ==
  ASSUME IngestInv, NEW a \in Attempts, Reject(a)
  PROVE  IngestInv'
<1>0. TypeInv /\ WriteInv
  BY DEF IngestInv
<1>1. UNCHANGED <<status, durable, visible, answer, valid, results, cache, now,
                  earlier, lookedUp, cachedAt, forgotten>>
  BY DEF Reject, logVars, batchVars, history
<1>2. pc' = [pc EXCEPT ![a] = "failed"] /\ pc[a] \in {"idle", "missed"} /\ a \notin InBatch
  BY <1>0, IngestAssumption DEF Reject, WriteInv
<1>3. TypeInv'
  BY <1>0, <1>1, <1>2, CalmTypes DEF TypeInv
<1>4. WriteInv'
  BY <1>0, <1>1, <1>2 DEF WriteInv, TypeInv, Stored
<1>5. Calm
  BY <1>0, <1>1, <1>2 DEF Calm, TypeInv, Stored, Single
<1>6. CalmForBatches
  <2>1. \A x \in InBatch : pc'[x] = pc[x]
    BY <1>0, <1>2 DEF TypeInv
  <2> QED BY <2>1, <1>1 DEF CalmForBatches, Stored
<1> QED BY <1>3, <1>4, <1>5, <1>6, CalmStep

(* Submitting an event changes only its own status and handler.            *)
LEMMA StartWriteKeeps ==
  ASSUME IngestInv, NEW a \in Attempts, StartWrite(a)
  PROVE  IngestInv'
<1>0. TypeInv /\ WriteInv
  BY DEF IngestInv
<1>1. UNCHANGED <<durable, visible, answer, valid, results, cache, now,
                  earlier, lookedUp, cachedAt, forgotten>>
  BY DEF StartWrite, batchVars, history, Writer!Submit
<1>2. pc[a] \in {"idle", "missed"} /\ a \notin InBatch
  BY <1>0, IngestAssumption DEF StartWrite, WriteInv
<1>3. PICK to \in {"pending", "refused"} :
        status' = [e \in Attempts |-> IF e \in {a} THEN to ELSE status[e]]
  BY DEF StartWrite, Writer!Submit, Writer!Become
<1>4. PICK at \in {"writing", "failed"} : pc' = [pc EXCEPT ![a] = at]
  BY DEF StartWrite
<1>5. /\ status' \in [Attempts -> {"new", "pending", "acked", "accepted", "refused", "unknown"}]
      /\ \A x \in Attempts : x # a => status'[x] = status[x]
  BY <1>0, <1>3 DEF TypeInv
<1>6. /\ pc' \in [Attempts -> {"idle", "missed", "writing", "written", "done", "accepted", "failed"}]
      /\ pc'[a] = at
      /\ \A x \in Attempts : x # a => pc'[x] = pc[x]
  BY <1>0, <1>4 DEF TypeInv
<1>7. TypeInv'
  BY <1>0, <1>1, <1>5, <1>6, CalmTypes DEF TypeInv
<1>8. WriteInv'
  <2> SUFFICES ASSUME NEW y \in Attempts
               PROVE  /\ pc'[y] \in {"idle", "missed"} => status'[y] = "new"
                      /\ pc'[y] = "written" => y \in Stored
                      /\ y \in InBatch => pc'[y] # "missed"
                      /\ \A x \in earlier[y] : pc'[x] \in {"done", "failed"} /\ KeyOf[x] = KeyOf[y]
    BY <1>1 DEF WriteInv, Stored
  <2>1. \A x \in earlier[y] : x # a /\ x \in Attempts
    BY <1>0, <1>2 DEF WriteInv, TypeInv
  <2>2. CASE y = a
    BY <2>1, <2>2, <1>0, <1>2, <1>6 DEF WriteInv
  <2>3. CASE y # a
    BY <2>1, <2>3, <1>0, <1>5, <1>6 DEF WriteInv
  <2> QED BY <2>2, <2>3
<1>9. Calm
  BY <1>0, <1>1, <1>2, <1>5, <1>6 DEF Calm, TypeInv, Stored, Single
<1>10. CalmForBatches
  <2>1. InBatch \subseteq Attempts
    BY BatchMembers DEF InBatch
  <2>2. \A x \in InBatch : pc'[x] = pc[x]
    BY <2>1, <1>2, <1>6
  <2> QED BY <2>2, <1>1 DEF CalmForBatches, Stored
<1> QED BY <1>7, <1>8, <1>9, <1>10, CalmStep

(* What a word from the writer does: the status of one attempt that is     *)
(* being written changes, and its handler goes on.                         *)
Told(a, to, at) ==
  /\ UNCHANGED <<durable, visible, answer, valid, results, cache, now,
                 earlier, lookedUp, cachedAt, forgotten>>
  /\ pc[a] = "writing"
  /\ status' = [e \in Attempts |-> IF e \in {a} THEN to ELSE status[e]]
  /\ pc' = [pc EXCEPT ![a] = at]
  /\ at = "written" => a \in Stored
  /\ a \in InBatch => at \in {"written", "failed"}

(* A word from the writer keeps the invariant.                             *)
LEMMA ToldKeeps ==
  ASSUME IngestInv, NEW a \in Attempts,
         NEW to \in {"acked", "accepted", "refused", "unknown"},
         NEW at \in {"written", "accepted", "failed"}, Told(a, to, at)
  PROVE  IngestInv'
<1>0. TypeInv /\ WriteInv
  BY DEF IngestInv
<1>1. UNCHANGED <<durable, visible, answer, valid, results, cache, now,
                  earlier, lookedUp, cachedAt, forgotten>>
  BY DEF Told
<1>2. /\ status' \in [Attempts -> {"new", "pending", "acked", "accepted", "refused", "unknown"}]
      /\ \A x \in Attempts : x # a => status'[x] = status[x]
  BY <1>0 DEF TypeInv, Told
<1>3. /\ pc' \in [Attempts -> {"idle", "missed", "writing", "written", "done", "accepted", "failed"}]
      /\ pc[a] = "writing"
      /\ pc'[a] = at
      /\ \A x \in Attempts : x # a => pc'[x] = pc[x]
  BY <1>0 DEF TypeInv, Told
<1>4. TypeInv'
  BY <1>0, <1>1, <1>2, <1>3, CalmTypes DEF TypeInv
<1>5. WriteInv'
  BY <1>0, <1>1, <1>2, <1>3 DEF WriteInv, TypeInv, Stored, Told
<1>6. Calm
  BY <1>0, <1>1, <1>2, <1>3 DEF Calm, TypeInv, Stored, Single
<1>7. CalmForBatches
  <2>1. InBatch \subseteq Attempts
    BY BatchMembers DEF InBatch
  <2>2. \A x \in InBatch : pc'[x] = pc[x] \/ (pc[x] = "writing" /\ pc'[x] \in {"written", "failed"})
    BY <2>1, <1>3 DEF Told
  <2> QED BY <2>2, <1>1 DEF CalmForBatches, Stored
<1> QED BY <1>4, <1>5, <1>6, <1>7, CalmStep

(* Confirmation, error, timeout and queueing are all words from the        *)
(* writer.                                                                 *)
LEMMA WriterTellsKeeps ==
  ASSUME IngestInv, NEW a \in Attempts, WriteOk(a) \/ WriteFails(a) \/ Enqueued(a)
  PROVE  IngestInv'
<1>1. CASE WriteOk(a)
  <2>1. Told(a, "acked", "written")
    BY <1>1 DEF WriteOk, Told, Writer!Ack, Writer!Become, batchVars, history, Stored
  <2> QED BY <2>1, ToldKeeps
<1>2. CASE WriteFails(a)
  <2>1. Told(a, "unknown", "failed") \/ Told(a, "refused", "failed")
    BY <1>2 DEF WriteFails, Told, Writer!Fail, Writer!Refuse, Writer!Become, batchVars, history
  <2> QED BY <2>1, ToldKeeps
<1>3. CASE Enqueued(a)
  <2>1. Told(a, "accepted", "accepted") \/ Told(a, "refused", "failed")
    BY <1>3, IngestAssumption
       DEF Enqueued, Told, Writer!Accept, Writer!Refuse, Writer!Become, batchVars, history
  <2> QED BY <2>1, ToldKeeps
<1> QED BY <1>1, <1>2, <1>3

(* An event that reaches the disk adds to what is stored.                  *)
LEMMA PersistKeeps ==
  ASSUME IngestInv, NEW a \in Attempts, Persist(a)
  PROVE  IngestInv'
<1>0. TypeInv /\ WriteInv
  BY DEF IngestInv
<1>1. UNCHANGED <<status, visible, pc, answer, valid, results, cache, now,
                  earlier, lookedUp, cachedAt, forgotten>>
  BY DEF Persist, Writer!Persist, requestVars, batchVars, history
<1>2. durable' = durable \cup {a}
  BY DEF Persist, Writer!Persist
<1>3. TypeInv'
  BY <1>0, <1>1, <1>2, CalmTypes DEF TypeInv
<1>4. Stored \subseteq Stored'
  BY <1>1, <1>2 DEF Stored
<1>5. WriteInv'
  BY <1>0, <1>1, <1>4 DEF WriteInv
<1>6. Calm
  BY <1>0, <1>1, <1>4 DEF Calm, TypeInv
<1>7. CalmForBatches
  BY <1>1, <1>4 DEF CalmForBatches
<1> QED BY <1>3, <1>5, <1>6, <1>7, CalmStep

(* Time may expire entries, which the invariant allows.                    *)
LEMMA TickKeeps ==
  ASSUME IngestInv, Tick
  PROVE  IngestInv'
<1>0. TypeInv /\ WriteInv
  BY DEF IngestInv
<1>1. UNCHANGED <<status, durable, visible, pc, answer, valid, results, cache,
                  earlier, lookedUp, cachedAt, forgotten>>
  BY DEF Tick, logVars, requestVars, batchVars, history
<1>2. now' \in Nat /\ now' >= now
  BY <1>0 DEF Tick, TypeInv
<1>3. TypeInv'
  BY <1>0, <1>1, <1>2, CalmTypes DEF TypeInv
<1>4. Stored \subseteq Stored'
  BY <1>1 DEF Stored
<1>5. WriteInv'
  BY <1>0, <1>1, <1>4 DEF WriteInv
<1>6. Calm
  BY <1>1, <1>2, <1>4 DEF Calm
<1>7. CalmForBatches
  BY <1>1, <1>4 DEF CalmForBatches
<1> QED BY <1>3, <1>5, <1>6, <1>7, CalmStep

(* A key is a key or absent, and an entry found in the cache names an      *)
(* attempt that was answered with its own event under that key.            *)
LEMMA FoundAnswer ==
  ASSUME IngestInv, NEW k \in Keys, Cached(k)
  PROVE  /\ Find(k).event \in Attempts
         /\ answer[Find(k).event] = Find(k).event
         /\ KeyOf[Find(k).event] = k
         /\ Find(k).event \in Stored
<1>0. TypeInv /\ CacheBounded /\ CacheInv /\ OwnInv
  BY DEF IngestInv, KeyInv
<1>1. Find(k) \in ToSet(Entries(k)) /\ Find(k) \in EntrySet /\ Find(k).key = k
  BY <1>0, WithoutEntries
<1>2. shard_index(k) \in Shards /\ Entries(k) = cache[shard_index(k)]
  BY ShardFacts DEF Entries
<1>3. Find(k).event \in Attempts
  BY <1>1 DEF EntrySet
<1> QED BY <1>0, <1>1, <1>2, <1>3 DEF CacheInv, OwnInv

(* A hit answers with a stored event of the key; a miss notes who came     *)
(* before.                                                                 *)
LEMMA LookupKeeps ==
  ASSUME IngestInv, NEW a \in Attempts, Lookup(a)
  PROVE  IngestInv'
<1> DEFINE k == KeyOf[a]
           hit == k # NoKey /\ Live(k)
<1>0. TypeInv /\ WriteInv /\ OwnInv /\ CacheInv /\ RememberInv /\ DedupInv /\ CacheBounded
      /\ AnswerStored /\ BatchInv /\ BatchAligned
  BY DEF IngestInv, KeyInv
<1>1. /\ UNCHANGED <<status, durable, visible, valid, results, now, cachedAt, forgotten>>
      /\ a \in Single
      /\ pc[a] = "idle"
      /\ pc' = [pc EXCEPT ![a] = IF hit THEN "done" ELSE "missed"]
      /\ answer' = IF hit THEN [answer EXCEPT ![a] = Find(k).event] ELSE answer
      /\ IF k # NoKey THEN CacheGet(k) ELSE UNCHANGED cache
      /\ earlier' = [earlier EXCEPT ![a] = {x \in Attempts : KeyOf[x] = k /\ pc[x] \in {"done", "failed"}}]
      /\ lookedUp' = [lookedUp EXCEPT ![a] = now]
  BY DEF Lookup, logVars, batchVars
<1>2. k # NoKey => k \in Keys
  BY IngestAssumption
<1>3. hit => /\ Cached(k)
             /\ Find(k).event \in Attempts
             /\ answer[Find(k).event] = Find(k).event
             /\ KeyOf[Find(k).event] = k
             /\ Find(k).event \in Stored
  <2> SUFFICES ASSUME hit
               PROVE  /\ Cached(k)
                      /\ Find(k).event \in Attempts
                      /\ answer[Find(k).event] = Find(k).event
                      /\ KeyOf[Find(k).event] = k
                      /\ Find(k).event \in Stored
    OBVIOUS
  <2>1. Cached(k) /\ k \in Keys
    BY <1>2 DEF Live
  <2> HIDE DEF k
  <2> QED BY <2>1, FoundAnswer
<1>4. ~hit /\ k # NoKey => \A e \in ToSet(cache[shard_index(k)]) : e.key = k => e.expires <= now
  <2> SUFFICES ASSUME ~hit, k # NoKey, NEW e \in ToSet(cache[shard_index(k)]), e.key = k
               PROVE  e.expires <= now
    OBVIOUS
  <2>1. k \in Keys /\ e \in ToSet(Entries(k)) /\ ~Live(k)
    BY <1>2 DEF Entries
  <2> HIDE DEF k
  <2>2. Cached(k) /\ e = Find(k) /\ e \in EntrySet
    BY <2>1, <1>0, WithoutEntries
  <2> QED BY <2>1, <2>2, <1>0 DEF Live, EntrySet, TypeInv
<1>5. /\ cache' \in [Shards -> Seq(EntrySet)]
      /\ CacheBounded'
      /\ \A t \in Shards : ToSet(cache'[t]) \subseteq ToSet(cache[t])
      /\ \A t \in Shards : \A e \in ToSet(cache[t]) : e \in ToSet(cache'[t]) \/ e.expires <= now
  <2>1. CASE k # NoKey
    BY <2>1, <1>0, <1>1, <1>2, CacheGetKeeps
  <2>2. CASE k = NoKey
    BY <2>2, <1>0, <1>1 DEF TypeInv, CacheBounded, Shards, PerShardEntries
  <2> QED BY <2>1, <2>2
<1> HIDE DEF hit, k
<1>6. answer[a] # a
  BY <1>0, <1>1 DEF OwnInv
<1>7. /\ answer' \in [Attempts -> Attempts \cup {Error}]
      /\ \A x \in Attempts : x # a => answer'[x] = answer[x]
      /\ answer'[a] # a
      /\ hit => answer'[a] = Find(k).event
  BY <1>0, <1>1, <1>3, <1>6 DEF TypeInv
<1>8. \A x \in Attempts : (answer'[x] = x <=> answer[x] = x) /\ (answer[x] = x => x # a)
  BY <1>6, <1>7
<1>9. /\ pc' \in [Attempts -> {"idle", "missed", "writing", "written", "done", "accepted", "failed"}]
      /\ pc'[a] = IF hit THEN "done" ELSE "missed"
      /\ \A x \in Attempts : x # a => pc'[x] = pc[x]
  BY <1>0, <1>1 DEF TypeInv
<1>10. /\ earlier' \in [Attempts -> SUBSET Attempts]
       /\ earlier'[a] = {x \in Attempts : KeyOf[x] = k /\ pc[x] \in {"done", "failed"}}
       /\ \A x \in Attempts : x # a => earlier'[x] = earlier[x]
  BY <1>0, <1>1 DEF TypeInv
<1>11. /\ lookedUp' \in [Attempts -> Int]
       /\ lookedUp'[a] = now
       /\ \A x \in Attempts : x # a => lookedUp'[x] = lookedUp[x]
  BY <1>0, <1>1 DEF TypeInv
<1>12. TypeInv'
  BY <1>0, <1>1, <1>5, <1>7, <1>9, <1>10, <1>11 DEF TypeInv, Shards
<1>13. InBatch \subseteq Attempts /\ a \notin InBatch
  BY <1>1, BatchMembers DEF InBatch, Single
<1>14. WriteInv'
  <2> SUFFICES ASSUME NEW y \in Attempts
               PROVE  /\ pc'[y] \in {"idle", "missed"} => status[y] = "new"
                      /\ pc'[y] = "written" => y \in Stored
                      /\ y \in InBatch => pc'[y] # "missed"
                      /\ \A x \in earlier'[y] : pc'[x] \in {"done", "failed"} /\ KeyOf[x] = KeyOf[y]
    BY <1>1 DEF WriteInv, Stored
  <2>1. \A x \in earlier[y] : x # a /\ x \in Attempts
    BY <1>0, <1>1 DEF WriteInv, TypeInv
  <2>2. CASE y = a
    BY <2>2, <1>0, <1>1, <1>9, <1>10, <1>13 DEF WriteInv, k
  <2>3. CASE y # a
    BY <2>1, <2>3, <1>0, <1>9, <1>10 DEF WriteInv
  <2> QED BY <2>2, <2>3
<1>15. OwnInv'
  BY <1>0, <1>1, <1>8, <1>9 DEF OwnInv, Stored
<1>16. CacheInv'
  <2> SUFFICES ASSUME NEW s \in Shards, NEW e \in ToSet(cache'[s])
               PROVE  /\ shard_index(e.key) = s
                      /\ KeyOf[e.event] = e.key
                      /\ answer'[e.event] = e.event
                      /\ e.expires = cachedAt[e.event] + Ttl
    BY <1>1 DEF CacheInv, Shards, shard_index
  <2>1. e \in ToSet(cache[s]) /\ e \in EntrySet
    BY <1>0, <1>5, EntryTypes
  <2>2. e.event \in Attempts
    BY <2>1 DEF EntrySet
  <2> QED BY <2>1, <2>2, <1>0, <1>8 DEF CacheInv
<1>17. RememberInv'
  <2> SUFFICES ASSUME NEW x \in Attempts, answer[x] = x, KeyOf[x] # NoKey, x \notin forgotten,
                      ~(cachedAt[x] + Ttl <= now)
               PROVE  \E e \in ToSet(cache'[shard_index(KeyOf[x])]) :
                        e.key = KeyOf[x] /\ e.expires >= cachedAt[x] + Ttl
    BY <1>1, <1>8 DEF RememberInv, shard_index
  <2>1. shard_index(KeyOf[x]) \in Shards
    BY ShardFacts, IngestAssumption
  <2>2. PICK e \in ToSet(cache[shard_index(KeyOf[x])]) :
          e.key = KeyOf[x] /\ e.expires >= cachedAt[x] + Ttl
    BY <1>0 DEF RememberInv
  <2>3. e.expires \in Int /\ cachedAt[x] \in Int /\ Ttl \in Int /\ now \in Int
    BY <2>1, <1>0, IngestAssumption, EntryTypes DEF TypeInv
  <2>4. ~(e.expires <= now)
    BY <2>2, <2>3
  <2> QED BY <2>1, <2>2, <2>4, <1>5
<1>18. DedupInv'
  <2> SUFFICES ASSUME NEW y \in Attempts, NEW x \in Attempts,
                      KeyOf[y] # NoKey, x \in earlier'[y], answer[x] = x
               PROVE  \/ status[y] = "new" /\ pc'[y] = "done"
                      \/ x \in forgotten
                      \/ lookedUp'[y] >= cachedAt[x] + Ttl
    BY <1>1, <1>8 DEF DedupInv
  <2>1. CASE y # a
    BY <2>1, <1>0, <1>9, <1>10, <1>11 DEF DedupInv
  <2>2. CASE y = a /\ hit
    BY <2>2, <1>0, <1>1, <1>9 DEF WriteInv
  <2>3. CASE y = a /\ ~hit
    <3>1. k = KeyOf[y] /\ KeyOf[x] = k /\ k # NoKey
      BY <2>3, <1>10 DEF k
    <3>2. CASE x \in forgotten
      BY <3>2
    <3>3. CASE cachedAt[x] + Ttl <= now
      BY <3>3, <2>3, <1>0, <1>11, IngestAssumption DEF TypeInv
    <3>4. CASE x \notin forgotten /\ ~(cachedAt[x] + Ttl <= now)
      <4>1. PICK e \in ToSet(cache[shard_index(k)]) : e.key = k /\ e.expires >= cachedAt[x] + Ttl
        BY <3>1, <3>4, <1>0 DEF RememberInv
      <4>2. e.expires <= now
        BY <4>1, <3>1, <2>3, <1>4
      <4>3. shard_index(k) \in Shards
        BY <3>1, <1>2, ShardFacts
      <4>4. e.expires \in Int /\ cachedAt[x] \in Int /\ Ttl \in Int /\ now \in Int
        <5>1. e.expires \in Int
          BY <4>3, <1>0, EntryTypes
        <5> QED BY <5>1, <1>0, IngestAssumption DEF TypeInv
      <4> QED BY <4>1, <4>2, <4>4, <3>4
    <3> QED BY <3>2, <3>3, <3>4
  <2> QED BY <2>1, <2>2, <2>3
<1>19. AnswerStored'
  <2> SUFFICES ASSUME NEW x \in Single, pc'[x] = "done"
               PROVE  answer'[x] \in Stored /\ KeyOf[answer'[x]] = KeyOf[x]
    BY <1>1 DEF AnswerStored, Stored, Single
  <2>1. CASE x = a
    BY <2>1, <1>3, <1>7, <1>9 DEF k
  <2>2. CASE x # a
    BY <2>2, <1>0, <1>7, <1>9 DEF AnswerStored, Single
  <2> QED BY <2>1, <2>2
<1>20. CalmForBatches
  <2>1. \A x \in InBatch : pc'[x] = pc[x]
    BY <1>9, <1>13
  <2> QED BY <2>1, <1>1 DEF CalmForBatches, Stored
<1>21. BatchInv' /\ BatchAligned'
  BY <1>0, <1>20, CalmForBatchesKeeps
<1> QED BY <1>5, <1>12, <1>14, <1>15, <1>16, <1>17, <1>18, <1>19, <1>21 DEF IngestInv, KeyInv

(* A confirmed event is answered and takes its place in the cache.         *)
LEMMA RespondKeeps ==
  ASSUME IngestInv, NEW a \in Attempts, Respond(a)
  PROVE  IngestInv'
<1> DEFINE k == KeyOf[a]
<1>0. TypeInv /\ WriteInv /\ OwnInv /\ CacheInv /\ RememberInv /\ DedupInv /\ CacheBounded
      /\ AnswerStored /\ BatchInv /\ BatchAligned
  BY DEF IngestInv, KeyInv
<1>1. /\ UNCHANGED <<status, durable, visible, valid, results, now, earlier, lookedUp>>
      /\ a \in Single
      /\ pc[a] = "written"
      /\ pc' = [pc EXCEPT ![a] = "done"]
      /\ answer' = [answer EXCEPT ![a] = a]
      /\ IF k # NoKey THEN CacheInsert(k, a) ELSE UNCHANGED <<cache, cachedAt, forgotten>>
  BY DEF Respond, logVars, batchVars
<1>2. k # NoKey => k \in Keys
  BY IngestAssumption
<1> HIDE DEF k
<1>3. /\ cache' \in [Shards -> Seq(EntrySet)]
      /\ CacheBounded'
      /\ k # NoKey => Entry(k, a) \in ToSet(cache'[shard_index(k)])
      /\ \A t \in Shards : \A e \in ToSet(cache'[t]) :
           \/ e \in ToSet(cache[t])
           \/ k # NoKey /\ e = Entry(k, a) /\ t = shard_index(k)
      /\ \A t \in Shards : \A e \in ToSet(cache[t]) :
           \/ e \in ToSet(cache'[t])
           \/ k # NoKey /\ e.key = k
           \/ \A x \in Attempts : KeyOf[x] = e.key /\ cachedAt[x] >= 0 => x \in forgotten'
      /\ cachedAt' = IF k # NoKey THEN [cachedAt EXCEPT ![a] = now] ELSE cachedAt
      /\ forgotten \subseteq forgotten'
      /\ forgotten' \in SUBSET Attempts
  <2>1. CASE k # NoKey
    BY <2>1, <1>0, <1>1, <1>2, CacheInsertKeeps
  <2>2. CASE k = NoKey
    BY <2>2, <1>0, <1>1 DEF TypeInv, CacheBounded, Shards, PerShardEntries
  <2> QED BY <2>1, <2>2
<1>4. /\ answer' \in [Attempts -> Attempts \cup {Error}]
      /\ answer'[a] = a
      /\ \A x \in Attempts : x # a => answer'[x] = answer[x]
  BY <1>0, <1>1 DEF TypeInv
<1>5. answer[a] # a
  BY <1>0, <1>1 DEF OwnInv
<1>6. /\ pc' \in [Attempts -> {"idle", "missed", "writing", "written", "done", "accepted", "failed"}]
      /\ pc'[a] = "done"
      /\ \A x \in Attempts : x # a => pc'[x] = pc[x]
  BY <1>0, <1>1 DEF TypeInv
<1>7. /\ cachedAt' \in [Attempts -> Int]
      /\ k # NoKey => cachedAt'[a] = now
      /\ \A x \in Attempts : x # a => cachedAt'[x] = cachedAt[x]
  <2>1. now \in Int /\ cachedAt \in [Attempts -> Int]
    BY <1>0 DEF TypeInv
  <2> QED BY <2>1, <1>3
<1>8. TypeInv'
  BY <1>0, <1>1, <1>3, <1>4, <1>6, <1>7 DEF TypeInv, Shards
<1>9. a \in Stored /\ Stored' = Stored
  BY <1>0, <1>1 DEF WriteInv, Stored
<1>10. \A y \in Attempts : \A x \in earlier[y] : x # a /\ x \in Attempts
  BY <1>0, <1>1 DEF WriteInv, TypeInv
<1>11. WriteInv'
  <2> SUFFICES ASSUME NEW y \in Attempts
               PROVE  /\ pc'[y] \in {"idle", "missed"} => status[y] = "new"
                      /\ pc'[y] = "written" => y \in Stored
                      /\ y \in InBatch => pc'[y] # "missed"
                      /\ \A x \in earlier[y] : pc'[x] \in {"done", "failed"} /\ KeyOf[x] = KeyOf[y]
    BY <1>1, <1>9 DEF WriteInv
  <2> QED BY <1>0, <1>6, <1>10 DEF WriteInv
<1>12. now \in Nat /\ Ttl \in Nat
  BY <1>0, IngestAssumption DEF TypeInv
<1>13. OwnInv'
  <2> SUFFICES ASSUME NEW x \in Attempts, answer'[x] = x
               PROVE  /\ pc'[x] = "done"
                      /\ x \in Stored
                      /\ KeyOf[x] # NoKey => cachedAt'[x] \in 0 .. now
    BY <1>1, <1>9 DEF OwnInv
  <2>1. CASE x = a
    BY <2>1, <1>6, <1>7, <1>9, <1>12 DEF k
  <2>2. CASE x # a
    BY <2>2, <1>0, <1>4, <1>6, <1>7 DEF OwnInv
  <2> QED BY <2>1, <2>2
<1>14. CacheInv'
  <2> SUFFICES ASSUME NEW s \in Shards, NEW e \in ToSet(cache'[s])
               PROVE  /\ shard_index(e.key) = s
                      /\ KeyOf[e.event] = e.key
                      /\ answer'[e.event] = e.event
                      /\ e.expires = cachedAt'[e.event] + Ttl
    BY DEF CacheInv, Shards, shard_index
  <2>1. CASE e \in ToSet(cache[s])
    <3>1. e.event \in Attempts
      BY <2>1, <1>0, EntryTypes
    <3>2. e.event # a
      BY <2>1, <1>0, <1>5 DEF CacheInv
    <3> QED BY <2>1, <3>1, <3>2, <1>0, <1>4, <1>7 DEF CacheInv
  <2>2. CASE k # NoKey /\ e = Entry(k, a) /\ s = shard_index(k)
    BY <2>2, <1>4, <1>7 DEF Entry, k
  <2> QED BY <2>1, <2>2, <1>3
<1>15. RememberInv'
  <2> SUFFICES ASSUME NEW x \in Attempts, answer'[x] = x, KeyOf[x] # NoKey, x \notin forgotten',
                      ~(cachedAt'[x] + Ttl <= now)
               PROVE  \E e \in ToSet(cache'[shard_index(KeyOf[x])]) :
                        e.key = KeyOf[x] /\ e.expires >= cachedAt'[x] + Ttl
    BY <1>1 DEF RememberInv, shard_index
  <2>1. ASSUME k # NoKey
        PROVE  /\ Entry(k, a) \in ToSet(cache'[shard_index(k)])
               /\ Entry(k, a).key = k
               /\ Entry(k, a).expires = now + Ttl
    BY <2>1, <1>3 DEF Entry
  <2>2. CASE KeyOf[x] = k
    <3>1. cachedAt'[x] \in 0 .. now
      BY <1>13, <1>1 DEF OwnInv
    <3>2. Entry(k, a).expires >= cachedAt'[x] + Ttl
      BY <3>1, <2>1, <2>2, <1>12
    <3> QED BY <2>1, <2>2, <3>2
  <2>3. CASE KeyOf[x] # k
    <3>1. x # a /\ answer[x] = x /\ cachedAt'[x] = cachedAt[x] /\ x \notin forgotten
      BY <2>3, <1>3, <1>4, <1>7 DEF k
    <3>2. PICK e \in ToSet(cache[shard_index(KeyOf[x])]) :
            e.key = KeyOf[x] /\ e.expires >= cachedAt[x] + Ttl
      BY <3>1, <1>0 DEF RememberInv
    <3>3. shard_index(KeyOf[x]) \in Shards
      BY ShardFacts, IngestAssumption
    <3>4. cachedAt[x] >= 0
      BY <3>1, <1>0, <1>12 DEF OwnInv
    <3>5. e \in ToSet(cache'[shard_index(KeyOf[x])])
      BY <3>2, <3>3, <3>4, <2>3, <1>3
    <3> QED BY <3>1, <3>2, <3>5
  <2> QED BY <2>2, <2>3
<1>16. DedupInv'
  <2> SUFFICES ASSUME NEW y \in Attempts, NEW x \in Attempts,
                      KeyOf[y] # NoKey, x \in earlier[y], answer'[x] = x
               PROVE  \/ status[y] = "new" /\ pc'[y] = "done"
                      \/ x \in forgotten'
                      \/ lookedUp[y] >= cachedAt'[x] + Ttl
    BY <1>1 DEF DedupInv
  <2>1. x # a /\ answer[x] = x /\ cachedAt'[x] = cachedAt[x]
    BY <1>4, <1>7, <1>10
  <2>2. \/ status[y] = "new" /\ pc[y] = "done"
        \/ x \in forgotten
        \/ lookedUp[y] >= cachedAt[x] + Ttl
    BY <2>1, <1>0 DEF DedupInv
  <2> QED BY <2>1, <2>2, <1>3, <1>6
<1>17. AnswerStored'
  <2> SUFFICES ASSUME NEW x \in Single, pc'[x] = "done"
               PROVE  answer'[x] \in Stored /\ KeyOf[answer'[x]] = KeyOf[x]
    BY <1>9 DEF AnswerStored, Single
  <2>1. CASE x = a
    BY <2>1, <1>4, <1>9
  <2>2. CASE x # a
    BY <2>2, <1>0, <1>4, <1>6 DEF AnswerStored, Single
  <2> QED BY <2>1, <2>2
<1>18. CalmForBatches
  <2>1. InBatch \subseteq Attempts /\ a \notin InBatch
    BY <1>1, BatchMembers DEF InBatch, Single
  <2>2. \A x \in InBatch : pc'[x] = pc[x]
    BY <2>1, <1>6
  <2> QED BY <2>2, <1>1, <1>9 DEF CalmForBatches
<1>19. BatchInv' /\ BatchAligned'
  BY <1>0, <1>18, CalmForBatchesKeeps
<1> QED BY <1>3, <1>8, <1>11, <1>13, <1>14, <1>15, <1>16, <1>17, <1>19 DEF IngestInv, KeyInv

-----------------------------------------------------------------------------
(* The batch endpoint *)

(* The parts of BatchInv and BatchAligned that speak of batch b.           *)
OpenInv(b) ==
  /\ results[b] # <<>> => \A i \in DOMAIN b : pc[b[i]] \notin {"writing", "written"}
  /\ results[b] = <<>> => \A i \in DOMAIN b :
       /\ pc[b[i]] # "done"
       /\ pc[b[i]] \in {"writing", "written"} => \E j \in DOMAIN valid[b] : valid[b][j] = i

Aligned(b) ==
  results[b] # <<>> =>
    /\ Len(results[b]) = Len(b)
    /\ \A i \in DOMAIN b :
         IF pc[b[i]] = "done"
         THEN results[b][i] = b[i] /\ b[i] \in Stored
         ELSE results[b][i] = Error

(* What a step of batch b does to the rest of the pipeline: nothing; its   *)
(* own events have no answer before, are not confirmed after, and a failed *)
(* one stays failed.                                                       *)
StepOf(b) ==
  /\ UNCHANGED <<durable, visible, answer, cache, now, earlier, lookedUp, cachedAt, forgotten>>
  /\ \A x \in Attempts \ ToSet(b) : pc'[x] = pc[x] /\ status'[x] = status[x]
  /\ \A x \in ToSet(b) : /\ pc[x] # "done"
                         /\ pc'[x] \in {"writing", "failed", "done"}
                         /\ pc[x] = "failed" => pc'[x] = "failed"
  /\ \A c \in Batches : c # b => results'[c] = results[c] /\ valid'[c] = valid[c]

(* Such a step keeps the invariant if it leaves b itself in order.         *)
LEMMA BatchStepKeeps ==
  ASSUME IngestInv, TypeInv', NEW b \in Batches, StepOf(b), OpenInv(b)', Aligned(b)'
  PROVE  IngestInv'
<1>0. TypeInv /\ WriteInv /\ BatchInv /\ BatchAligned /\ KeyInv /\ AnswerStored
  BY DEF IngestInv
<1>1. Stored' = Stored /\ earlier' = earlier
  BY DEF StepOf, Stored
<1>2. \A x \in ToSet(b) : x \in Attempts /\ x \in InBatch
  BY BatchMembers
<1>3. WriteInv'
  <2> SUFFICES ASSUME NEW y \in Attempts
               PROVE  /\ pc'[y] \in {"idle", "missed"} => status'[y] = "new"
                      /\ pc'[y] = "written" => y \in Stored
                      /\ y \in InBatch => pc'[y] # "missed"
                      /\ \A x \in earlier[y] : pc'[x] \in {"done", "failed"} /\ KeyOf[x] = KeyOf[y]
    BY <1>1 DEF WriteInv
  <2>1. ASSUME NEW x \in earlier[y] PROVE pc'[x] \in {"done", "failed"} /\ KeyOf[x] = KeyOf[y]
    <3>1. x \in Attempts /\ pc[x] \in {"done", "failed"} /\ KeyOf[x] = KeyOf[y]
      BY <1>0 DEF WriteInv, TypeInv
    <3> QED BY <3>1 DEF StepOf
  <2>2. CASE y \in ToSet(b)
    BY <2>1, <2>2 DEF StepOf
  <2>3. CASE y \notin ToSet(b)
    <3>1. pc'[y] = pc[y] /\ status'[y] = status[y]
      BY <2>3 DEF StepOf
    <3> QED BY <2>1, <3>1, <1>0 DEF WriteInv
  <2> QED BY <2>2, <2>3
<1>4. Calm
  <2>1. now' >= now
    BY <1>0 DEF StepOf, TypeInv
  <2>2. \A x \in Attempts : pc[x] = "done" => pc'[x] = "done" /\ status'[x] = status[x]
    BY DEF StepOf
  <2>3. \A x \in Single : pc'[x] = pc[x]
    BY <1>2 DEF StepOf, Single
  <2> QED BY <2>1, <2>2, <2>3, <1>1 DEF Calm, StepOf
<1>5. KeyInv' /\ AnswerStored'
  BY <1>0, <1>4, CalmKeeps
<1>6. ASSUME NEW c \in Batches PROVE OpenInv(c)' /\ Aligned(c)'
  <2>1. CASE c = b
    BY <2>1
  <2>2. CASE c # b
    <3>1. results'[c] = results[c] /\ valid'[c] = valid[c]
      BY <2>2 DEF StepOf
    <3>2. \A i \in DOMAIN c : pc'[c[i]] = pc[c[i]]
      BY <2>2, BatchMembers DEF StepOf
    <3>3. OpenInv(c)'
      BY <3>1, <3>2, <1>0 DEF OpenInv, BatchInv
    <3>4. Aligned(c)'
      BY <3>1, <3>2, <1>0, <1>1 DEF Aligned, BatchAligned
    <3> QED BY <3>3, <3>4
  <2> QED BY <2>1, <2>2
<1>7. BatchInv'
  BY <1>6 DEF BatchInv, OpenInv
<1>8. BatchAligned'
  BY <1>6 DEF BatchAligned, Aligned
<1> QED BY <1>3, <1>5, <1>7, <1>8 DEF IngestInv

(* The answer of a batch that failed as a whole.                           *)
LEMMA AllErrors ==
  ASSUME NEW b \in Batches
  PROVE  /\ [i \in DOMAIN b |-> Error] \in Seq(Attempts \cup {Error})
         /\ Len([i \in DOMAIN b |-> Error]) = Len(b)
         /\ [i \in DOMAIN b |-> Error] = <<>> => DOMAIN b = {}
<1>1. DOMAIN b = 1 .. Len(b) /\ Len(b) \in Nat
  BY BatchMembers
<1>2. /\ [i \in 1 .. Len(b) |-> Error] \in Seq(Attempts \cup {Error})
      /\ Len([i \in 1 .. Len(b) |-> Error]) = Len(b)
  BY <1>1
<1>3. [i \in 1 .. Len(b) |-> Error] = <<>> => 1 .. Len(b) = {}
  BY <1>1, <1>2
<1> QED BY <1>1, <1>2, <1>3

(* A batch refused as a whole is answered with errors only.                *)
LEMMA RejectBatchKeeps ==
  ASSUME IngestInv, NEW b \in Batches, RejectBatch(b)
  PROVE  IngestInv'
<1>0. TypeInv
  BY DEF IngestInv
<1>1. /\ UNCHANGED <<status, durable, visible, answer, valid, cache, now,
                     earlier, lookedUp, cachedAt, forgotten>>
      /\ results[b] = <<>>
      /\ \A a \in ToSet(b) : pc[a] = "idle"
      /\ pc' = [a \in Attempts |-> IF a \in ToSet(b) THEN "failed" ELSE pc[a]]
      /\ results' = [results EXCEPT ![b] = [i \in DOMAIN b |-> Error]]
  BY DEF RejectBatch, logVars, history
<1>2. /\ results' \in [Batches -> Seq(Attempts \cup {Error})]
      /\ results'[b] = [i \in DOMAIN b |-> Error]
      /\ \A c \in Batches : c # b => results'[c] = results[c]
  BY <1>0, <1>1, AllErrors DEF TypeInv
<1>3. /\ pc' \in [Attempts -> {"idle", "missed", "writing", "written", "done", "accepted", "failed"}]
      /\ \A a \in Attempts : pc'[a] = IF a \in ToSet(b) THEN "failed" ELSE pc[a]
  BY <1>0, <1>1 DEF TypeInv
<1>4. TypeInv'
  BY <1>0, <1>1, <1>2, <1>3 DEF TypeInv, Shards
<1>5. \A i \in DOMAIN b : pc'[b[i]] = "failed"
  BY <1>3, BatchMembers
<1>6. \A a \in ToSet(b) : pc'[a] = "failed"
  BY <1>3, BatchMembers
<1>7. StepOf(b)
  BY <1>1, <1>2, <1>3, <1>6 DEF StepOf
<1>8. OpenInv(b)'
  BY <1>2, <1>5, AllErrors DEF OpenInv
<1>9. Aligned(b)'
  BY <1>2, <1>5, AllErrors DEF Aligned
<1> QED BY <1>4, <1>7, <1>8, <1>9, BatchStepKeeps

(* The events being written are at the valid indices of their batch.       *)
LEMMA StartBatchKeeps ==
  ASSUME IngestInv, NEW b \in Batches, StartBatch(b)
  PROVE  IngestInv'
<1>0. TypeInv
  BY DEF IngestInv
<1>1. PICK ok \in Ascending(Len(b)) :
        /\ results[b] = <<>>
        /\ \A a \in ToSet(b) : pc[a] = "idle"
        /\ valid' = [valid EXCEPT ![b] = ok]
        /\ Writer!Submit({b[i] : i \in ToSet(ok)})
        /\ pc' = [a \in Attempts |->
                    CASE a \in {b[i] : i \in ToSet(ok)} /\ status'[a] = "pending" -> "writing"
                      [] a \in ToSet(b) /\ ~(a \in {b[i] : i \in ToSet(ok)} /\ status'[a] = "pending") -> "failed"
                      [] OTHER -> pc[a]]
        /\ UNCHANGED <<answer, results, cache, now, history, crashes>>
  BY DEF StartBatch
<1> DEFINE sent == {b[i] : i \in ToSet(ok)}
<1>2. /\ UNCHANGED <<durable, visible, answer, results, cache, now,
                     earlier, lookedUp, cachedAt, forgotten>>
      /\ \E to \in {"pending", "refused"} :
           status' = [e \in Attempts |-> IF e \in sent THEN to ELSE status[e]]
  BY <1>1 DEF history, Writer!Submit, Writer!Become
<1>3. \A i \in ToSet(ok) : i \in DOMAIN b /\ \E j \in DOMAIN ok : ok[j] = i
  <2>1. ok \in SeqOf(1 .. Len(b), Len(b)) /\ DOMAIN b = 1 .. Len(b)
    BY BatchMembers DEF Ascending
  <2> QED BY <2>1 DEF SeqOf, ToSet
<1>4. \A a \in sent : a \in ToSet(b)
  BY <1>3, BatchMembers
<1>5. pc' = [a \in Attempts |->
               IF a \in sent /\ status'[a] = "pending" THEN "writing"
               ELSE IF a \in ToSet(b) THEN "failed" ELSE pc[a]]
  <2> SUFFICES ASSUME NEW a \in Attempts
               PROVE  (CASE a \in sent /\ status'[a] = "pending" -> "writing"
                         [] a \in ToSet(b) /\ ~(a \in sent /\ status'[a] = "pending") -> "failed"
                         [] OTHER -> pc[a])
                      = IF a \in sent /\ status'[a] = "pending" THEN "writing"
                        ELSE IF a \in ToSet(b) THEN "failed" ELSE pc[a]
    BY <1>1
  <2> HIDE DEF sent
  <2>1. CASE a \in sent /\ status'[a] = "pending"
    BY <2>1
  <2>2. CASE ~(a \in sent /\ status'[a] = "pending") /\ a \in ToSet(b)
    BY <2>2
  <2>3. CASE ~(a \in sent /\ status'[a] = "pending") /\ a \notin ToSet(b)
    BY <2>3
  <2> QED BY <2>1, <2>2, <2>3
<1> HIDE DEF sent
<1>6. /\ valid' \in [Batches -> UNION {Ascending(Len(c)) : c \in Batches}]
      /\ valid'[b] = ok
      /\ \A c \in Batches : c # b => valid'[c] = valid[c]
  <2>1. ok \in UNION {Ascending(Len(c)) : c \in Batches}
    OBVIOUS
  <2>2. valid \in [Batches -> UNION {Ascending(Len(c)) : c \in Batches}]
    BY <1>0 DEF TypeInv
  <2>3. valid' = [valid EXCEPT ![b] = ok]
    BY <1>1
  <2> QED BY <2>1, <2>2, <2>3
<1>7. \A c \in Batches : valid'[c] \in Ascending(Len(c))
  BY <1>0, <1>6 DEF TypeInv
<1>8. /\ status' \in [Attempts -> {"new", "pending", "acked", "accepted", "refused", "unknown"}]
      /\ \A x \in Attempts : x \notin sent => status'[x] = status[x]
  BY <1>0, <1>2 DEF TypeInv
<1>9. /\ pc' \in [Attempts -> {"idle", "missed", "writing", "written", "done", "accepted", "failed"}]
      /\ \A x \in Attempts :
           IF x \in ToSet(b) THEN pc'[x] \in {"writing", "failed"} /\ (pc'[x] = "writing" => x \in sent)
           ELSE pc'[x] = pc[x]
  BY <1>0, <1>4, <1>5 DEF TypeInv
<1>10. TypeInv'
  BY <1>0, <1>2, <1>6, <1>7, <1>8, <1>9 DEF TypeInv, Shards
<1>11. StepOf(b)
  <2>1. \A x \in Attempts \ ToSet(b) : pc'[x] = pc[x] /\ status'[x] = status[x]
    BY <1>4, <1>8, <1>9
  <2>2. \A x \in ToSet(b) : x \in Attempts
    BY BatchMembers
  <2>3. \A x \in ToSet(b) : pc[x] = "idle" /\ pc'[x] \in {"writing", "failed", "done"}
    BY <2>2, <1>1, <1>9
  <2> QED BY <2>1, <2>3, <1>2, <1>6 DEF StepOf
<1>12. results'[b] = <<>>
  BY <1>1, <1>2
<1>13. OpenInv(b)'
  <2> SUFFICES ASSUME NEW i \in DOMAIN b
               PROVE  /\ pc'[b[i]] # "done"
                      /\ pc'[b[i]] \in {"writing", "written"} => \E j \in DOMAIN ok : ok[j] = i
    BY <1>6, <1>12 DEF OpenInv
  <2>1. b[i] \in Attempts /\ b[i] \in ToSet(b)
    BY BatchMembers
  <2>2. pc'[b[i]] \in {"writing", "failed"} /\ (pc'[b[i]] = "writing" => b[i] \in sent)
    BY <2>1, <1>9
  <2>3. ASSUME b[i] \in sent PROVE \E j \in DOMAIN ok : ok[j] = i
    <3>1. PICK n \in ToSet(ok) : b[i] = b[n]
      BY <2>3 DEF sent
    <3>2. n = i
      BY <3>1, <1>3, BatchMembers
    <3> QED BY <3>2, <1>3
  <2> QED BY <2>2, <2>3
<1>14. Aligned(b)'
  BY <1>12 DEF Aligned
<1> QED BY <1>10, <1>11, <1>13, <1>14, BatchStepKeeps

(* The results of a batch are as many as its events, and the one at index  *)
(* i is that of the write of index i, or an error.                         *)
LEMMA ScatterFacts ==
  ASSUME NEW b \in Batches, NEW v, NEW w, \A j \in DOMAIN v : w[j] \in Attempts \cup {Error}
  PROVE  /\ Scatter(Len(b), v, w) \in Seq(Attempts \cup {Error})
         /\ Len(Scatter(Len(b), v, w)) = Len(b)
         /\ Scatter(Len(b), v, w) = <<>> => DOMAIN b = {}
         /\ \A i \in DOMAIN b :
              \/ \E j \in DOMAIN v : v[j] = i /\ Scatter(Len(b), v, w)[i] = w[j]
              \/ (\A j \in DOMAIN v : v[j] # i) /\ Scatter(Len(b), v, w)[i] = Error
<1> DEFINE n == Len(b)
           at(i) == CHOOSE j \in DOMAIN v : v[j] = i
           r == [i \in 1 .. n |-> IF \E j \in DOMAIN v : v[j] = i THEN w[at(i)] ELSE Error]
<1>1. n \in Nat /\ DOMAIN b = 1 .. n
  BY BatchMembers
<1>2. Scatter(n, v, w) = r
  BY DEF Scatter
<1>3. ASSUME NEW i \in 1 .. n
      PROVE  /\ \/ \E j \in DOMAIN v : v[j] = i /\ r[i] = w[j]
                \/ (\A j \in DOMAIN v : v[j] # i) /\ r[i] = Error
             /\ r[i] \in Attempts \cup {Error}
  <2>1. CASE \E j \in DOMAIN v : v[j] = i
    <3>1. at(i) \in DOMAIN v /\ v[at(i)] = i
      BY <2>1
    <3>2. r[i] = w[at(i)]
      BY <2>1
    <3> HIDE DEF at, r
    <3> QED BY <3>1, <3>2
  <2>2. CASE \A j \in DOMAIN v : v[j] # i
    BY <2>2
  <2> QED BY <2>1, <2>2
<1>4. r \in [1 .. n -> Attempts \cup {Error}]
  <2>1. r = [i \in 1 .. n |-> r[i]]
    OBVIOUS
  <2> HIDE DEF r
  <2> QED BY <2>1, <1>3
<1> HIDE DEF r
<1>5. r \in Seq(Attempts \cup {Error}) /\ Len(r) = n
  BY <1>1, <1>4
<1>6. r = <<>> => 1 .. n = {}
  BY <1>1, <1>5
<1> QED BY <1>1, <1>2, <1>3, <1>5, <1>6

(* Scatter gives every confirmed event its own index.                      *)
LEMMA FinishBatchKeeps ==
  ASSUME IngestInv, NEW b \in Batches, FinishBatch(b)
  PROVE  IngestInv'
<1>0. TypeInv /\ WriteInv /\ BatchInv
  BY DEF IngestInv
<1> DEFINE v == valid[b]
           w == [j \in DOMAIN v |-> IF pc[b[v[j]]] = "written" THEN b[v[j]] ELSE Error]
           r == Scatter(Len(b), v, w)
<1>1. /\ UNCHANGED <<status, durable, visible, answer, valid, cache, now,
                     earlier, lookedUp, cachedAt, forgotten>>
      /\ results[b] = <<>>
      /\ \A a \in ToSet(b) : pc[a] \in {"written", "failed"}
      /\ pc' = [a \in Attempts |-> IF a \in ToSet(b) /\ pc[a] = "written" THEN "done" ELSE pc[a]]
      /\ results' = [results EXCEPT ![b] = r]
  BY DEF FinishBatch, logVars, history
<1>2. \A j \in DOMAIN v : v[j] \in DOMAIN b
  <2>1. v \in SeqOf(1 .. Len(b), Len(b)) /\ DOMAIN b = 1 .. Len(b)
    BY <1>0, BatchMembers DEF Ascending, TypeInv
  <2> HIDE DEF v
  <2> QED BY <2>1 DEF SeqOf
<1> HIDE DEF v
<1>3. \A j \in DOMAIN v : w[j] \in Attempts \cup {Error}
  BY <1>2, BatchMembers
<1>4. \A j \in DOMAIN v : w[j] = IF pc[b[v[j]]] = "written" THEN b[v[j]] ELSE Error
  OBVIOUS
<1> HIDE DEF w
<1>5. /\ r \in Seq(Attempts \cup {Error})
      /\ Len(r) = Len(b)
      /\ r = <<>> => DOMAIN b = {}
      /\ \A i \in DOMAIN b :
           \/ \E j \in DOMAIN v : v[j] = i /\ r[i] = w[j]
           \/ (\A j \in DOMAIN v : v[j] # i) /\ r[i] = Error
  BY <1>3, ScatterFacts
<1> HIDE DEF r
<1>6. /\ results' \in [Batches -> Seq(Attempts \cup {Error})]
      /\ results'[b] = r
      /\ \A c \in Batches : c # b => results'[c] = results[c]
  BY <1>0, <1>1, <1>5 DEF TypeInv
<1>7. /\ pc' \in [Attempts -> {"idle", "missed", "writing", "written", "done", "accepted", "failed"}]
      /\ \A a \in Attempts : pc'[a] = IF a \in ToSet(b) /\ pc[a] = "written" THEN "done" ELSE pc[a]
  BY <1>0, <1>1 DEF TypeInv
<1>8. TypeInv'
  BY <1>0, <1>1, <1>6, <1>7 DEF TypeInv, Shards
<1>9. \A i \in DOMAIN b : /\ b[i] \in Attempts
                          /\ pc[b[i]] \in {"written", "failed"}
                          /\ pc'[b[i]] = IF pc[b[i]] = "written" THEN "done" ELSE "failed"
  BY <1>1, <1>7, BatchMembers
<1>10. StepOf(b)
  <2>1. \A x \in ToSet(b) : x \in Attempts
    BY BatchMembers
  <2>2. \A x \in ToSet(b) : /\ pc[x] # "done"
                            /\ pc'[x] \in {"writing", "failed", "done"}
                            /\ pc[x] = "failed" => pc'[x] = "failed"
    BY <2>1, <1>1, <1>7
  <2> QED BY <2>2, <1>1, <1>6, <1>7 DEF StepOf
<1>11. OpenInv(b)'
  BY <1>5, <1>6, <1>9 DEF OpenInv
<1>12. ASSUME NEW i \in DOMAIN b
       PROVE  IF pc'[b[i]] = "done" THEN r[i] = b[i] /\ b[i] \in Stored ELSE r[i] = Error
  <2>1. CASE pc[b[i]] = "written"
    <3>1. \E j \in DOMAIN v : v[j] = i
      BY <2>1, <1>0, <1>1 DEF BatchInv, v
    <3>2. PICK j \in DOMAIN v : v[j] = i /\ r[i] = w[j]
      BY <3>1, <1>5
    <3>3. r[i] = b[i]
      BY <3>2, <2>1, <1>4
    <3> QED BY <3>3, <2>1, <1>0, <1>9 DEF WriteInv
  <2>2. CASE pc[b[i]] = "failed"
    <3>1. r[i] = Error
      BY <2>2, <1>4, <1>5
    <3> QED BY <3>1, <2>2, <1>9
  <2> QED BY <2>1, <2>2, <1>9
<1>13. Stored' = Stored
  BY <1>1 DEF Stored
<1>14. Aligned(b)'
  BY <1>5, <1>6, <1>12, <1>13 DEF Aligned
<1> QED BY <1>8, <1>10, <1>11, <1>14, BatchStepKeeps

(* A batch that times out is answered with errors only.                    *)
LEMMA BatchTimeoutKeeps ==
  ASSUME IngestInv, NEW b \in Batches, BatchTimeout(b)
  PROVE  IngestInv'
<1>0. TypeInv /\ BatchInv
  BY DEF IngestInv
<1> DEFINE v == valid[b]
           w == [j \in DOMAIN v |-> Error]
           r == Scatter(Len(b), v, w)
           S == {a \in ToSet(b) : pc[a] = "writing"}
<1>1. /\ UNCHANGED <<durable, visible, answer, valid, cache, now,
                     earlier, lookedUp, cachedAt, forgotten>>
      /\ results[b] = <<>>
      /\ status' = [e \in Attempts |-> IF e \in S THEN "unknown" ELSE status[e]]
      /\ pc' = [a \in Attempts |-> IF a \in ToSet(b) THEN "failed" ELSE pc[a]]
      /\ results' = [results EXCEPT ![b] = r]
  BY DEF BatchTimeout, history, Writer!Fail, Writer!Become
<1> HIDE DEF v
<1>2. \A j \in DOMAIN v : w[j] = Error
  OBVIOUS
<1> HIDE DEF w
<1>3. /\ r \in Seq(Attempts \cup {Error})
      /\ Len(r) = Len(b)
      /\ r = <<>> => DOMAIN b = {}
      /\ \A i \in DOMAIN b :
           \/ \E j \in DOMAIN v : v[j] = i /\ r[i] = w[j]
           \/ (\A j \in DOMAIN v : v[j] # i) /\ r[i] = Error
  BY <1>2, ScatterFacts
<1>4. \A i \in DOMAIN b : r[i] = Error
  BY <1>2, <1>3
<1> HIDE DEF r
<1>5. /\ results' \in [Batches -> Seq(Attempts \cup {Error})]
      /\ results'[b] = r
      /\ \A c \in Batches : c # b => results'[c] = results[c]
  BY <1>0, <1>1, <1>3 DEF TypeInv
<1>6. /\ pc' \in [Attempts -> {"idle", "missed", "writing", "written", "done", "accepted", "failed"}]
      /\ \A a \in Attempts : pc'[a] = IF a \in ToSet(b) THEN "failed" ELSE pc[a]
  BY <1>0, <1>1 DEF TypeInv
<1>7. /\ status' \in [Attempts -> {"new", "pending", "acked", "accepted", "refused", "unknown"}]
      /\ \A x \in Attempts : x \notin ToSet(b) => status'[x] = status[x]
  BY <1>0, <1>1 DEF TypeInv
<1>8. TypeInv'
  BY <1>0, <1>1, <1>5, <1>6, <1>7 DEF TypeInv, Shards
<1>9. \A i \in DOMAIN b : pc'[b[i]] = "failed"
  BY <1>6, BatchMembers
<1>10. \A x \in ToSet(b) : pc[x] # "done" /\ pc'[x] = "failed"
  BY <1>0, <1>1, <1>6, BatchMembers DEF BatchInv
<1>11. StepOf(b)
  BY <1>1, <1>5, <1>6, <1>7, <1>10 DEF StepOf
<1>12. OpenInv(b)'
  BY <1>3, <1>5, <1>9 DEF OpenInv
<1>13. Aligned(b)'
  BY <1>3, <1>4, <1>5, <1>9 DEF Aligned
<1> QED BY <1>8, <1>11, <1>12, <1>13, BatchStepKeeps

-----------------------------------------------------------------------------
(* A crash, and the whole *)

(* A crash answers the open requests with errors and forgets the cache.    *)
LEMMA CrashKeeps ==
  ASSUME IngestInv, Crash
  PROVE  IngestInv'
<1>0. TypeInv /\ WriteInv /\ OwnInv /\ DedupInv /\ AnswerStored /\ BatchInv /\ BatchAligned
  BY DEF IngestInv, KeyInv
<1>1. /\ UNCHANGED <<visible, answer, valid, now, earlier, lookedUp, cachedAt>>
      /\ status' = [e \in Attempts |-> IF e \in {x \in Attempts : status[x] = "pending"}
                                       THEN "unknown" ELSE status[e]]
      /\ pc' = [a \in Attempts |->
                  IF pc[a] \in {"missed", "writing", "written"} THEN "failed" ELSE pc[a]]
      /\ results' = [b \in Batches |->
                       IF results[b] = <<>> /\ \E a \in ToSet(b) : pc[a] # "idle"
                       THEN [i \in DOMAIN b |-> Error] ELSE results[b]]
      /\ cache' = [s \in Shards |-> <<>>]
      /\ forgotten' = {a \in Attempts : cachedAt[a] >= 0}
  BY DEF Crash, Writer!Crash, Writer!Become
<1>2. PICK S \in SUBSET Attempts : durable' = durable \cup S
  BY DEF Crash, Writer!Crash
<1>3. Stored \subseteq Stored'
  BY <1>1, <1>2 DEF Stored
<1>4. /\ pc' \in [Attempts -> {"idle", "missed", "writing", "written", "done", "accepted", "failed"}]
      /\ \A x \in Attempts : /\ pc'[x] \notin {"missed", "writing", "written"}
                             /\ pc'[x] = "done" <=> pc[x] = "done"
                             /\ pc[x] \in {"idle", "done", "failed"} => pc'[x] = pc[x]
                             /\ pc'[x] = "idle" => pc[x] = "idle"
  BY <1>0, <1>1 DEF TypeInv
<1>5. /\ status' \in [Attempts -> {"new", "pending", "acked", "accepted", "refused", "unknown"}]
      /\ \A x \in Attempts : status[x] = "new" => status'[x] = "new"
  BY <1>0, <1>1 DEF TypeInv
<1>6. /\ results' \in [Batches -> Seq(Attempts \cup {Error})]
      /\ \A b \in Batches :
           \/ results'[b] = results[b]
           \/ results[b] = <<>> /\ results'[b] = [i \in DOMAIN b |-> Error]
  <2>1. \A b \in Batches : /\ [i \in DOMAIN b |-> Error] \in Seq(Attempts \cup {Error})
                           /\ results[b] \in Seq(Attempts \cup {Error})
    BY <1>0, AllErrors DEF TypeInv
  <2> QED BY <2>1, <1>1
<1>7. /\ cache' \in [Shards -> Seq(EntrySet)]
      /\ \A s \in Shards : cache'[s] = <<>> /\ ToSet(cache'[s]) = {}
  <2>1. \A s \in Shards : cache'[s] = <<>>
    BY <1>1
  <2>2. ToSet(<<>>) = {}
    BY DEF ToSet
  <2>3. <<>> \in Seq(EntrySet)
    OBVIOUS
  <2> QED BY <2>1, <2>2, <2>3, <1>1
<1>8. TypeInv'
  BY <1>0, <1>1, <1>2, <1>4, <1>5, <1>6, <1>7 DEF TypeInv, Shards
<1>9. WriteInv'
  <2> SUFFICES ASSUME NEW y \in Attempts
               PROVE  /\ pc'[y] \in {"idle", "missed"} => status'[y] = "new"
                      /\ pc'[y] = "written" => y \in Stored'
                      /\ y \in InBatch => pc'[y] # "missed"
                      /\ \A x \in earlier[y] : pc'[x] \in {"done", "failed"} /\ KeyOf[x] = KeyOf[y]
    BY <1>1 DEF WriteInv
  <2>1. \A x \in earlier[y] : x \in Attempts /\ pc[x] \in {"done", "failed"} /\ KeyOf[x] = KeyOf[y]
    BY <1>0 DEF WriteInv, TypeInv
  <2> QED BY <2>1, <1>0, <1>4, <1>5 DEF WriteInv
<1>10. OwnInv'
  BY <1>0, <1>1, <1>3, <1>4 DEF OwnInv
<1>11. CacheInv'
  BY <1>7 DEF CacheInv, Shards
<1>12. \A x \in Attempts : answer[x] = x /\ KeyOf[x] # NoKey => x \in forgotten'
  BY <1>0, <1>1 DEF OwnInv, TypeInv
<1>13. RememberInv'
  BY <1>1, <1>12 DEF RememberInv
<1>14. DedupInv'
  BY <1>0, <1>1, <1>12 DEF DedupInv, WriteInv
<1>15. CacheBounded'
  BY <1>7, ShardFacts DEF CacheBounded, Shards, PerShardEntries
<1>16. AnswerStored'
  BY <1>0, <1>1, <1>3, <1>4 DEF AnswerStored, Single
<1>17. \A b \in Batches : \A i \in DOMAIN b : b[i] \in Attempts
  BY BatchMembers
<1>18. BatchInv'
  <2> SUFFICES ASSUME NEW b \in Batches, NEW i \in DOMAIN b
               PROVE  /\ pc'[b[i]] \notin {"writing", "written"}
                      /\ results'[b] = <<>> => pc'[b[i]] # "done"
    BY DEF BatchInv
  <2>1. results'[b] = <<>> => results[b] = <<>>
    BY <1>6
  <2> QED BY <2>1, <1>0, <1>4, <1>17 DEF BatchInv
<1>19. BatchAligned'
  <2> SUFFICES ASSUME NEW b \in Batches, results'[b] # <<>>
               PROVE  /\ Len(results'[b]) = Len(b)
                      /\ \A i \in DOMAIN b :
                           IF pc'[b[i]] = "done"
                           THEN results'[b][i] = b[i] /\ b[i] \in Stored'
                           ELSE results'[b][i] = Error
    BY DEF BatchAligned
  <2>1. \A i \in DOMAIN b : pc'[b[i]] = "done" <=> pc[b[i]] = "done"
    BY <1>4, <1>17
  <2>2. CASE results'[b] = results[b]
    BY <2>1, <2>2, <1>0, <1>3 DEF BatchAligned
  <2>3. CASE results[b] = <<>> /\ results'[b] = [i \in DOMAIN b |-> Error]
    BY <2>1, <2>3, <1>0, AllErrors DEF BatchInv
  <2> QED BY <2>2, <2>3, <1>6
<1> QED BY <1>8, <1>9, <1>10, <1>11, <1>13, <1>14, <1>15, <1>16, <1>18, <1>19
        DEF IngestInv, KeyInv

(* A server that has just started satisfies the invariant.                 *)
LEMMA InitKeeps == Init => IngestInv
<1> SUFFICES ASSUME Init PROVE IngestInv
  OBVIOUS
<1>1. /\ status = [a \in Attempts |-> "new"] /\ durable = {} /\ visible = {}
      /\ pc = [a \in Attempts |-> "idle"]
      /\ answer = [a \in Attempts |-> Error]
      /\ valid = [b \in Batches |-> <<>>] /\ results = [b \in Batches |-> <<>>]
      /\ cache = [s \in Shards |-> <<>>] /\ now = 0
      /\ earlier = [a \in Attempts |-> {}]
      /\ lookedUp = [a \in Attempts |-> 0] /\ cachedAt = [a \in Attempts |-> -1]
      /\ forgotten = {}
  BY DEF Init, InitAfter
<1>2. \A b \in Batches : <<>> \in Ascending(Len(b))
  <2> TAKE b \in Batches
  <2>1. Len(b) \in Nat
    BY BatchMembers
  <2>2. <<>> \in [1 .. 0 -> 1 .. Len(b)] /\ 0 \in 0 .. Len(b)
    BY <2>1
  <2> QED BY <2>2 DEF Ascending, SeqOf
<1>3. valid \in [Batches -> UNION {Ascending(Len(b)) : b \in Batches}]
      /\ \A b \in Batches : valid[b] \in Ascending(Len(b))
  BY <1>1, <1>2
<1>4. /\ results \in [Batches -> Seq(Attempts \cup {Error})]
      /\ cache \in [Shards -> Seq(EntrySet)]
  BY <1>1
<1>5. TypeInv
  BY <1>1, <1>3, <1>4 DEF TypeInv
<1>6. WriteInv /\ OwnInv /\ RememberInv /\ DedupInv /\ AnswerStored
  BY <1>1, IngestAssumption DEF WriteInv, OwnInv, RememberInv, DedupInv, AnswerStored, Single
<1>7. \A s \in Shards : cache[s] = <<>> /\ ToSet(cache[s]) = {}
  BY <1>1 DEF ToSet
<1>8. CacheInv /\ CacheBounded
  BY <1>7, ShardFacts DEF CacheInv, CacheBounded
<1>9. BatchInv /\ BatchAligned
  BY <1>1, BatchMembers DEF BatchInv, BatchAligned
<1> QED BY <1>5, <1>6, <1>8, <1>9 DEF IngestInv, KeyInv

(* Every step keeps the invariant.                                         *)
LEMMA NextKeeps == IngestInv /\ [Next]_vars => IngestInv'
<1> SUFFICES ASSUME IngestInv, [Next]_vars PROVE IngestInv'
  OBVIOUS
<1>1. ASSUME NEW a \in Attempts,
             \/ Lookup(a) \/ Reject(a) \/ StartWrite(a) \/ WriteOk(a)
             \/ WriteFails(a) \/ Respond(a) \/ Enqueued(a) \/ Persist(a)
      PROVE  IngestInv'
  BY <1>1, LookupKeeps, RejectKeeps, StartWriteKeeps, WriterTellsKeeps, RespondKeeps, PersistKeeps
<1>2. ASSUME NEW b \in Batches, RejectBatch(b) \/ StartBatch(b) \/ FinishBatch(b) \/ BatchTimeout(b)
      PROVE  IngestInv'
  BY <1>2, RejectBatchKeeps, StartBatchKeeps, FinishBatchKeeps, BatchTimeoutKeeps
<1>3. CASE UNCHANGED vars
  <2>1. UNCHANGED <<status, durable, visible, pc, answer, valid, results, cache, now,
                    earlier, lookedUp, cachedAt, forgotten>>
    BY <1>3 DEF vars, logVars, requestVars, batchVars, history
  <2>2. TypeInv'
    BY <2>1 DEF IngestInv, TypeInv, Shards
  <2>3. WriteInv'
    BY <2>1 DEF IngestInv, WriteInv, Stored
  <2>4. Calm /\ CalmForBatches
    BY <2>1 DEF IngestInv, TypeInv, Calm, CalmForBatches, Stored
  <2> QED BY <2>2, <2>3, <2>4, CalmStep
<1> QED BY <1>1, <1>2, <1>3, TickKeeps, CrashKeeps DEF Next

(* The invariant holds in every reachable state.                           *)
LEMMA IngestInvariance == Spec => []IngestInv
<1> QED BY InitKeeps, NextKeeps, PTL DEF Spec

-----------------------------------------------------------------------------

(* Every 201 of POST /v1/events, fresh or replayed from the cache, names a *)
(* stored event that was created under the request's own key.              *)
THEOREM AnswersAreStored == Spec => []AnswerStored
<1>1. IngestInv => AnswerStored
  BY DEF IngestInv
<1> QED BY <1>1, IngestInvariance, PTL

(* A durable batch is answered index by index, whichever of its events     *)
(* pass process_event, time out or survive a crash.                        *)
THEOREM BatchesAreAligned == Spec => []BatchAligned
<1>1. IngestInv => BatchAligned
  BY DEF IngestInv
<1> QED BY <1>1, IngestInvariance, PTL

(* A retry that starts after its predecessor was answered 201 creates no   *)
(* event until that answer expires, is evicted or dies with the process.   *)
THEOREM RetriesAreDeduplicated == Spec => []RetryDeduplicated
<1>1. IngestInv => RetryDeduplicated
  BY DEF IngestInv, KeyInv, DedupInv, RetryDeduplicated
<1> QED BY <1>1, IngestInvariance, PTL

(* No shard of the idempotency cache outgrows its share of max_entries or  *)
(* holds a key twice, whatever the hash and the configured size.           *)
THEOREM CacheStaysBounded == Spec => []CacheBounded
<1>1. IngestInv => CacheBounded
  BY DEF IngestInv, KeyInv
<1> QED BY <1>1, IngestInvariance, PTL

====
