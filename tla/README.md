# A TLA+ verification of keplor

keplor is a server that ingests records of LLM calls ("events"), prices them,
stores them in per-tier `keplordb` engines and serves queries, rollups, exports
and an S3 archive. This directory holds the TLA+ model of it: what happens to an
event from the `POST` that carries it to its deletion, and to the requests that
bring, read and count events. TLC checks small
instances, TLAPS proves the theorems for all instances, and
`PROJECT.json` ties every definition to the source lines it stands for.

## Running it

    tlc -workers 2 -config MCBatchWriter.cfg MCBatchWriter   # and so on for each cfg
    tlapm BatchWriterProofs.tla    # and BatchWriterPlaces, IngestProofs, ArchiveProofs,
                                   # QueryProofs, PricingProofs, EventDataProofs, GatewayProofs

| run | module | cfg | expected |
|---|---|---|---|
| batch_writer | MCBatchWriter | MCBatchWriter.cfg | pass |
| batch_writer_live | MCBatchWriter | MCBatchWriterLive.cfg | pass |
| ingest | MCIngest | MCIngest.cfg | pass |
| idempotent_retry | MCIngest | MCIdempotency.cfg | violation |
| archive | MCArchive | MCArchive.cfg | pass |
| archive_live | MCArchive | MCArchiveLive.cfg | pass |
| torn_manifest | MCArchive | MCTornManifest.cfg | violation |
| unarchivable_error | MCArchive | MCUnarchivable.cfg | violation |
| query | MCQuery | MCQuery.cfg | pass |
| export_ties | MCQuery | MCExportTies.cfg | violation |
| event_data | MCEventData | MCEventData.cfg | pass |
| gateway | MCGateway | MCGateway.cfg | pass |

## Inventory

Paths are relative to `src/crates/`.

**Batch writer** (`keplor-store/src/batch.rs`). State: a bounded channel and an
append loop with a buffer per shard, a round-robin counter, a shutdown flag, the
join handles. Operations: `write`, `write_many`, `write_fire_and_forget`,
`shutdown`, `Drop`; tasks: `append_loop` per shard, `append_only`'s blocking job,
`rotator_loop`. Hard: callers, loops, jobs, rotator and shutdown interleave; one
result answers many callers; loops are aborted while their jobs run on; a batch
fails in the middle of its tiers. Correct when: Ok means durable, nobody waits
for ever, accepted events are not lost silently, no event is stored twice,
memory is bounded.

**Store** (`keplor-store/src/kdb_store.rs`, `kdb_store/`). State: a copy-on-write
map of engines by tier, a manifest store behind a mutex, a cached size. Operations:
append (three durability variants), `wal_checkpoint`, `query`, `export_events`,
`gc_tier`, `gc_expired`, `delete_event(s)`, the manifest operations,
`db_size_bytes`, rollups, quotas, statistics. Hard: every operation walks the
engines one after the other, so it can stop half way and sees each engine at a
different time. Correct when: partial failures lose nothing, pages neither repeat
nor skip events.

**Ingestion pipeline** (`keplor-server/src/pipeline.rs`, `routes.rs`). State: none
of its own beyond the idempotency cache. Operations: `ingest`,
`ingest_batch_durable`, `ingest_fire_and_forget`. Hard: a write timeout races the
flush; results are scattered over the indices of a batch. Correct when: a success
names a stored event, the right one.

**Idempotency cache** (`keplor-server/src/idempotency.rs`). State: 16 LRU shards
with expiry. Operations: `get`, `insert`. Hard: it is read before the write and
filled after it; it forgets on eviction and restart. Correct when: a retry within
the window creates no second event.

**Archiver and manifest log** (`keplor-store/src/archive.rs`,
`kdb_store/manifests.rs`). State: the object store, an append-only JSONL file, an
index in memory. Operations: `archive_old_events` (group, chunk, upload, record,
delete), `open`, `insert`. Hard: three stores change one after the other, and any
step can fail or be the last before a crash. Correct when: no event is deleted
that the archive cannot give back.

**Garbage collection and erasure** (`kdb_store.rs`, `routes.rs`,
`server.rs` loops). Operations: `gc_tiered_loop`, `gc_loop`,
`DELETE /v1/events`. Hard: they run beside the archiver on the same events.

**Queries and export** (`kdb_store.rs`, `routes.rs`, `mapping.rs`). Hard: the
store changes between pages and between engines.

**Size limit and its cache** (`kdb_store.rs` `db_size_bytes`, `pipeline.rs`
`check_db_size`). State: two atomics (the size and its time) and a refresh lock.
Hard: a caller that meets a refresh in progress uses the old value, and the two
atomics are stored one after the other; a size is the sum of the segments, so events
in the WAL do not count, and what garbage collection frees counts until the next
refresh. The limit is therefore neither a strict upper bound nor a strict lower one.
Correct when: a request is refused only if the segments there were at some time since
the stamp of the cached size reach the limit, and is let in only if those there before
the stamp and still there do not; and the stamp is less than an interval old, unless a
refresh is under way.

**Tier mounting** (`kdb_store.rs` `engine_for`). State: a published map and an
insert lock. Hard: many jobs find a tier missing at once. Correct when: a tier's
directory is opened once and nothing is written to an engine no query sees.

**Authentication with hot reload** (`auth.rs`, `server.rs`, `config.rs`). State: a
key set behind an atomic pointer. Operations: `from_config`, `matched_key`,
`require_api_key`, the SIGHUP loop. Hard: the set is swapped under requests in
progress. Correct when: each request is judged by one set that was in force while
it was in the server.

**Rate limiter** (`rate_limit.rs`). State: a token bucket per key id. Operations:
`try_acquire`, with refill by the clock and a `Retry-After`. Hard: fractions of
tokens, denials that refill, the cap. Correct when: no key gets more than burst
plus rate in any stretch of time, and `Retry-After` is enough.

**Pricing** (`keplor-pricing`). State: the catalogue behind an atomic pointer.
Operations: `from_json`, `lookup`, `compute_cost`, the refresh loop. Hard: the file
is a hash map, visited in any order, whose names collide through prefixes, dates
and case. Correct when: a model's own entry prices it, and each token is billed
once.

**Event mapping** (`mapping.rs`, `routes.rs`). Operations: `to_log_event`,
`from_event_ref`, `StoredEvent`, `llm_to_summary`, the two responses,
`to_query_filter`. Hard: two encodings of the same event with optional fields,
bits that say what is there, and filters that meet the stored form. Correct when:
what was stored is read back, and is found by what is shown of it.

**Rollups, quotas, statistics** (`kdb_store.rs`, `routes.rs`). Operations:
`quota_summary`, `query_rollups`, `aggregate_stats`. Hard: sums over engines read
one after the other. Correct when: each event counts once.

**Validation, normalisation, schema** (`validate.rs`, `normalize.rs`, `schema.rs`,
`pipeline.rs` `process_event`). No state. Correct when: what is accepted can be
stored and read back.

**Configuration** (`config.rs`). `validate` at the start, `load` at a reload. Hard: a
reload loads without validating.

**Domain types** (`keplor-core`), **server lifecycle** (`server.rs`), **metrics,
request ids and errors**, **command line**, **build tasks**: with their status under
"components" in `PROJECT.json`.

How they interact: a request passes the concurrency limit, authentication, the
rate limiter and its timeout before its route; routes call the pipeline; the pipeline calls the cache, the
size check and the writer; the writer's jobs and the rotator call the store; the
server's loops (archive, GC, checkpoint, reload) call the store and the archiver
on their own clocks; all of them share one process, so a crash stops all at once.

## Modules

| module | what it is |
|---|---|
| `EventLog` | the abstract specification: what clients are promised about an event |
| `BatchWriter` | the batch writer with the store's append and checkpoint paths |
| `BatchWriterProofs` | theorems about `BatchWriter`: types, queues, acknowledged events |
| `BatchWriterPlaces` | theorems about `BatchWriter`: where an event is, and the refinement of `EventLog` |
| `Ingest` | the pipeline and the idempotency cache, composed with `EventLog` |
| `TieredStore` | the abstract specification: what becomes of a stored event |
| `Archive` | archiver, manifest log, GC and erasure over the engines |
| `Query` | queries, cursor pagination and export while the store changes |
| `Pricing` | the catalogue, its index, the lookup, costs and the refresh loop |
| `EventData` | `Pricing` with what becomes of an event's data, and what is read of it |
| `Gateway` | keys, rate limit, permits, timeouts, the size check and tier mounting |
| `IngestProofs` | theorems about `Ingest` |
| `ArchiveProofs` | theorems about `Archive` |
| `QueryProofs` | theorems about `Query` |
| `PricingProofs` | lemmas about the indexes of a catalogue, sums and bills |
| `EventDataProofs` | theorems about `EventData`, the catalogue in it included |
| `GatewayProofs` | theorems about `Gateway` |
| `MC*` | the small instances for TLC |

`BatchWriter` implements `EventLog` (property `ImplementsLog`, with the map
`status` ← what the caller has been told, `durable` ← WAL, `visible` ← segments).
`Archive` implements `TieredStore` (property `ImplementsTiers`, with the map `known` ←
`ingested`, `hot` ← `live`, `cold` ← what the index, the file and the object store
together can give back, `request` ← the standing of an erasure, `owed` ← what it
promised).
`Ingest` takes `EventLog` for its writer, so what `Ingest` shows holds over the
batch writer. `Archive` and `Query` begin where `EventLog`'s Publish ends: their
`Ingest` and `Store` actions make an event visible. `EventData` and `Gateway` are
the two sides the others leave out: the data inside an event, for which the write
path is one step, and the layers around a request, for which the batch writer is
one append job.

### EventLog

An event is new, pending, acked, accepted, refused or unknown to its client, and
nowhere, durable or visible in the store. Acked only if stored; refused is never
stored; stored once; a crash removes nothing and may add what was being written.

### TieredStore

A stored event is hot (in an engine), cold (in the archive), both, or gone. It leaves
the engines for one of three reasons: it is cold, it has expired, or its own user's
erasure is open. What is cold stays cold. An erasure succeeds only when nothing is hot
of what its user had there when it was asked for. The archive takes copies of events
that were stored at some time, also when they have left the engines meanwhile: that an
erased event can come to be archived is what the code does and `docs/privacy.md` says.

### BatchWriter

`phase[e]` follows the future of the call that submitted `e`: called, sending
(blocked in `send().await`, holding the shard picked for it), waiting (on the
oneshot), then ok, err, closed (reply channel dropped), shut (never sent), full,
accepted, abandoned. `chan`, `buffer`, `loop` are the append loop; `flight`, `todo`,
`job` its blocking append job, which outlives an aborted loop; `wal`, `seg` the
engines; `ckpt[c]` what the `wal_checkpoint` of task `c` has still to flush;
`owner` is the holder of the last `Arc`. `lost` is a history variable:
accepted events destroyed by a failed append, an abort or a crash.

One action per step between two points where other tasks can run: `Begin` (flag
check), `Pick` (`pick_shard`), `Send`, `TrySend`, `Abandon` (the future is dropped:
timeout or client gone), `Recv` (recv and the try_recv drain in one poll), `Tick`,
`RecvNone`, `AppendTier`/`AppendFails` per engine, `FinishFlush` (the reply
fan-out), `LoopExit`, `StartCheckpoint`, `FlushEngine`/`FlushEngineFails`,
`Shutdown`, `ShutdownReturns`, `ShutdownAgain`, `Drop`, `Crash`. The select of
`append_loop` is biased, so `Tick` needs an empty channel. An engine failure may
leave any part of that engine's events in its WAL. A crash may leave any part of
the batches being appended.

Left out: metrics, logging, the poisoned-mutex returns (nothing panics while it
holds those locks), a panic in a blocking job (the same answer as an error).
`append_event`, `append_event_durable`, `append_batch` have no caller in the server.

### Ingest

An attempt is one POST of one event; a retry is another attempt with the same key,
and an attempt that reaches the writer makes its own event. `Lookup`, `Reject`,
`StartWrite`, `WriteOk`, `WriteFails` (error or timeout), `Respond`, `Enqueued` are
the single and fire-and-forget paths; `RejectBatch`, `StartBatch`, `FinishBatch`,
`BatchTimeout` the durable batch. The cache is a sequence per shard, least recent
first, with LRU eviction and expiry. Whether the size check and validation pass is
an input. `Persist` is the writer storing an event before it tells, or after
nobody listens.

### Archive

Events are numbered in timestamp order. `StartCycle` takes the one snapshot of a
cycle and chunks it by user, day and batch size; `Upload`, `Record`, `DeleteChunk`
and their failing versions are the three steps of a chunk; `lines`, `tail` are
the manifest file with its possibly unterminated last line, `index` the in-memory
copy, rebuilt by `Crash`. `Gc` drops any set of expired events (which events share
a segment is the engine's business). `BeginErase`, `EraseQuery`, `EraseDelete`,
`EraseFails` are `DELETE /v1/events?user_id=`. The time-window form of that request
is a `Gc` with another cutoff and is not modelled on its own. Object names: two
uploads of the same chunk hold the same data, so objects are named by their events.
`Unencodable` are the events `serde_json` cannot write (an error `InvalidRequest`):
their chunk fails before its upload. It is empty but in unarchivable_error.

### Query

`StartQuery` lists the engines, `ReadEngine` asks one of them for its newest rows
below the cursor, `ReturnPage` and `ExportPage` merge, truncate, deliver and move
the cursor. Where timestamps tie, any choice of a sort by timestamp alone is
possible. `Store` and `Remove` change the engines at any time. `Events` stands for
the events that match the filter.

### Pricing

An optional value is a set of at most one element. A model name is a record: its
path of prefixes, base name, date suffix, and whether it has upper-case letters or
blanks around it; that is all `ModelKey`, `strip_date_suffix` and the prefix
fallback look at. `from_json` visits a hash map, so it is the set of all indexes
that some order of the entries leads to; loading picks any of them. Prices are in
tenths of a nanodollar, so that `dollars_to_nanos` rounds; products and sums
saturate at `MaxNanos`. `Refresh` swaps a whole catalogue, `RefreshFails` keeps it.

### EventData

A body is a sparse record, an accepted one becomes an event (`process_event`), a
row (`to_log_event`), an event again (`from_event_ref`), an archived event
(`Restored`), a response. Texts are model values; of text that has to parse (trace
id, address, method) it is known whether it does. `Post` is the whole write path in
one step, `ArchiveChunk` uploads and records a chunk of one user and day,
`DeleteArchived` deletes its rows. A reader asks for a page of events with
`include_archived`, a quota, or rollups and statistics: it reads one engine per
step (`ReadEngine`), a page then lists the manifests and fetches the chunks.
Whether an engine's rollups still count deleted rows is its own business, so
`ReadRollups` takes either. Offsets and limits of the pages of rollups are left out.

### Gateway

A request is queued for a permit, authenticated, rate limited, reads its body,
checks the size (through the cache, or by a refresh) and waits for its append job,
which mounts the tier's engine if need be and goes on when the request has timed
out. Time is in seconds and a token is `TokenUnits` units, so a refill may be a
fraction. The atomics are `Relaxed` in the code and sequentially consistent here; the
two loads of the fast path are one step. The concurrency limit is added to each
route: the model has one. Shutdown only stops arrivals. The garbage collector also
mounts tiers through `engine_for` (`gc_tier`); it is one more caller of what a job does.
The eager tiers (the command line takes the three of `KdbConfig::new`) and those found
on disk are open from the start and have nothing to mount: the tiers here are others.
A `size_check_interval` of 0 turns the cache off and leaves nothing to check.

An event that was appended is in its engine's WAL. `Rotate` moves events of one WAL
into a segment (rotator, checkpoint, or a full WAL shard), `Collect` drops segments
(`gc_tier`, `gc_expired`); `flushedAt` and `freedAt` say when. `SizeOf`, which stands for
`total_bytes`, counts what is in segments. Which segments are old enough to be dropped
is in `Archive`; here any may be, at any time. A deletion by id is a tombstone: the
engine reclaims the space by dropping or rewriting a segment, which is a `Collect`.
`archive_loop` asks for the size too (server.rs:577), to decide whether a cycle is due;
that caller is left out. `GatewayAssumption` has a burst and a rate of at least 1, which
`validate` does not ask for: with a rate of 0 no `Retry-After` could be kept.

## What the runs show

**batch_writer**: a `write_many` over two tiers and a fire-and-forget event, two
shards of capacity one (so sends block and try_send is refused), batches of two,
failures, deadline, drop, one crash. `AckedDurable`, `WaiterHeld`, `NoSilentLoss`,
`AtMostOnce`, `RefusedNotTaken`, `BoundedBacklog` and the refinement
`ImplementsLog` hold. Two shards and two tiers are the least that let shards race
and a batch fail half way; three events are the least that fill one shard while
another has room. `OtherCheckpointers` (the server's checkpoint loop and the final
checkpoint of `run_inner`) is empty: their passes are those of the rotator, and
overlapping passes occur through the final checkpoints of the loops.

**batch_writer_live**: one `write_many` of three events over two channels, one
tier. `EveryCallSettles`, `EventuallyVisible`, `DropDrains`. One tier, no
fire-and-forget event and no crash, because the liveness graph has to stay small;
the actions left out are in the other run. One tier cannot show an engine that keeps
failing and holds up those behind it in the map (`wal_checkpoint` stops at the first
error); the fairness excludes such an engine anyway.

**ingest**: three keyed attempts on two keys of one shard of capacity one (so
eviction happens), a batch of three with any subset valid, a fire-and-forget
event, a clock past the expiry, one crash. Keyed requests and the others share
nothing but a writer in which each event is on its own, so they run in separate
behaviours: one half of the requests is rejected at the start. `AnswerStored`,
`BatchAligned`, `RetryDeduplicated`, `CacheBounded`.

**archive**: two users and days, batches of two, erasure in pages of one, every
failure, one crash, garbage collection as soon as events may be archived. There are
three events of the one user and day, so that a partition is cut into a full chunk and
a last one, and one of the other; the constraint `SplitAlone` has the third event come
only into behaviours without the fourth, garbage collection and erasure, which deal
with two events of a partition as they do with three. `NoEventVanishes`,
`ManifestBacked`, `ListedSurvives`, `PlanPartitions` (the chunks are disjoint,
homogeneous, small enough, and cover what is eligible), `ErasureComplete`, and the
refinement `ImplementsTiers`, with manifest writes that are atomic
(`TornWrites = FALSE`): torn_manifest shows why that is needed.

**archive_live**: two chunks, two crashes, torn writes: `EventuallyArchived`.

**query**: a pager and an exporter with pages of one over three events in two
tiers with distinct timestamps, engines that fail: `NoDuplicates`,
`NothingSkipped`, `ListingEnds`.

**event_data**: two posts among a body with nearly every field, one with an unknown
provider, an unknown error and text that does not parse, one that cannot be
archived, and six that are refused, from two callers of two tiers; one reader at a
time; a catalogue with a model beside its prefixed and dated relative, two entries
that fall back to one name, deeper paths, and entries that are not indexed. A provider
whose input count excludes cached tokens and one whose count includes them both meet
a flat price. `BilledOnce` is about what `compute_cost` makes of the usage an event is
built with; it does not look at the cost recorded in the event.
`RoundTrip`, `FoundAsShown`, `AggregatesBracketed`, `MergedComplete`, `OwnPriceWins`,
`VariantsPriced`, `RefreshKeepsPrice`, `BilledOnce`. Two events are the least for sums
and for a page that is split between the engines and the archive, and the window
lies at both of their timestamps. Readers do not look at the catalogue, so an
action constraint keeps it still while one is under way. The limits are small
numbers, so that sums reach `MaxNanos`; `MaxCount` is three times `MaxTokens`, as
`u32::MAX` is far above three times `MAX_TOKENS`.

**gateway**: three requests with one secret, the last of them a retry, two permits,
a burst of one token, three units to a token and two units a second, so that a wait
is a second and a half, a limit of one event, and one reload: to the same keys, to
a set that lists the secret twice, or of a file that does not parse. Time has to
reach 3 for a promised retry to come due. `AdmittedWithinRate`, `RetryHonest`,
`IdentityCurrent`, `MountedOnce`, `SizeHonest`, `EveryRequestAnswered`. Three requests
with two permits are the least with which one waits for a permit while another
races the refresh lock or the mount. Two events may be flushed (`MaxFlushed`): a flush or
a collection can fall between the two engines of a walk, between the walk and its
stamp, and after it, so that the size in use is out of date in either direction: a
request is refused although the segments are empty again, another is let in although
they have reached the limit. The constraint `Apart` keeps flushes out of behaviours in
which a request has timed out or an engine failed, which only make for fewer events.

Four runs end in a counterexample: the code differs from what a comment or a doc
says of it ("findings" in `PROJECT.json` quotes both).

* **idempotent_retry**: a write times out (500, "retry"), the event is stored
  later, the retry misses the cache and stores a second one.
* **torn_manifest**: a manifest line cut short is joined by the next one, which
  was reported as written; both are skipped at the next start, after the events
  of the second were deleted from the engines.
* **export_ties**: events that share the timestamp of the last row of a page and
  did not fit are never exported.
* **unarchivable_error**: an event with the error `InvalidRequest` cannot be written
  as JSON, so its chunk fails in every cycle, with all the events in it.

Other differences met while modelling, which have no run of their own:
`BatchWriter::shutdown` waits for loops that end only when the senders in the
writer it borrows are dropped, so it uses up its deadline and returns false
(batch.rs:76, 235). Archiver and garbage collector are independent loops with their own
cutoffs, although a comment (server.rs:281) speaks of a combined loop in which archiving
comes first, to lose nothing when events are archived later than they expire; in the
model, as in the code, such events are collected. The merge of archived
events repeats only the filters on user and time (routes.rs:453), and lists an
event twice that is uploaded and not yet deleted. The comment on `RollupEntry`
counts statuses from 400 on (routes.rs:615), the code counts events with an error.
The comments on the catalogue (catalog.rs:102, 221) promise variants with a provider
prefix; the code adds only those without a prefix or a date, and `VariantsPriced` is
about these. `strip_date_suffix` cuts 11 and 9 bytes off a name (catalog.rs:266, 279), which
panics when the cut falls inside a character of a name that is not ASCII; the model's
names are records, and its version is total. `rate_limit` is not validated (config.rs).

Every property has a mutant ("mutants"): a variant of one definition, marked
`Mutant:` in the module, that TLC must find to break it.

## Fairness

`BatchWriter`: weak fairness of every task that can step, which is what a runtime
that keeps polling gives; of `ShutdownReturns`, because the deadline passes; strong
fairness of the rotator's flush of each engine, because a failed pass is repeated
every interval, so this asks only that an engine does not fail for ever. No
fairness for calls, `Abandon`, `Shutdown`, `Drop`, `Crash`.
`Archive`: the loop runs for ever and a chunk that is retried for ever succeeds at
last. `Query`: a client that goes on asking and engines that stop failing.
`Gateway`: some task goes on as long as one can (the timer of a request that waits
included); the clock, arrivals and reloads are not fair. unarchivable_error is
checked under the fairness of `Archive`, so it is not a matter of stopping early.
`Ingest` and `EventData` are checked for safety only.

## What is proved

`BatchWriterProofs`, for every set of events, calls, tiers and checkpointers,
every number of shards, capacity, batch size, with or without a deadline, and any
number of crashes, from the assumptions of `BatchWriter` alone
(`ConfigAssumption`, `EventAssumption`, `CheckpointerAssumption`):

* `TypeCorrect`: `Spec => []TypeOK`.
* `QueuesBounded`: `Spec => []QueueBounds`. Both come from `TypeInvariance`:
  `TypeOK /\ QueueBounds` is inductive. The bounds are needed for the types: `Recv`
  takes `PerShardBatch - Len(buffer)` elements, a positive number only while
  the buffer is below the batch size.
* `AckedIsDurable`: `Spec => []AckedDurable`. Not inductive: `FinishFlush` answers
  from the result of a job, so the invariant adds what a job has done,
  `JobInv`: while a job runs, each event of the batch in flight has its tier still
  in `todo` or is stored, and a job that reports ok has its whole batch stored.
  Appends of other shards only add to the store, a rotation moves between `wal`
  and `seg`, an abort leaves the job alone, and a crash keeps both.

`BatchWriterPlaces`, from the same assumptions, follows an event from its caller to
the disk. Its invariant `PlaceInv` has five parts: a channel, a buffer and a batch in
flight hold an event once and no two shards hold the same (`HolderInv`); what is stored
is queued nowhere and owed by no job (`StoreInv`); what no channel has taken is nowhere
(`UntakenInv`); what a loop that has stopped receiving has left (`LoopInv`); and a
writer is dropped only when no call is open (`DropInv`). None of the properties is
inductive without it: a retry of a batch, or a second receipt, is excluded only by
knowing where else the event is not.

* `RefusedIsNotTaken`: `Spec => []RefusedNotTaken`, from `UntakenInv`.
* `StoredAtMostOnce`: `Spec => []AtMostOnce`, from `HolderInv` and `StoreInv`.
* `WaitersAreHeld`: `Spec => []WaiterHeld` and
* `NothingSilentlyLost`: `Spec => []NoSilentLoss`. `KeptInv` is their conjunction.
* `BacklogIsBounded`: `Spec => []BoundedBacklog`. `BatchInv` bounds a batch in flight.
  `CapacityRoundsUp` is the rounding of the capacity to the shards.
* `WriterImplementsLog`: `Spec => ImplementsLog`. Under `MapInv` (types, durability
  and places) each action is a step of `EventLog` through the mapping of the instance
  `Log`, or changes nothing the mapping shows.

`IngestProofs`, for every set of attempts, keys, hashes and batches, every number of
cache shards, capacity, time to live and crashes, from `IngestAssumption` (an attempt
is one `POST`, so it is in one batch at most and there once; the batch endpoint reads no
key). `IngestInv` is inductive as a whole:

* `AnswersAreStored`: `Spec => []AnswerStored`. `WriteInv` adds that a confirmed write is
  stored, `CacheInv` that a cache entry holds an answer that was given under its key.
* `BatchesAreAligned`: `Spec => []BatchAligned`. `BatchInv` adds that the events of an
  open batch have no answer yet and those being written are at valid indices.
* `RetriesAreDeduplicated`: `Spec => []RetryDeduplicated`. `RememberInv` adds that an
  answer neither forgotten nor expired is in the cache, or a later one of its key;
  `DedupInv` says why a retry made no event: it was answered from the cache.
* `CacheStaysBounded`: `Spec => []CacheBounded`, with removal and eviction by position.

`ArchiveProofs`, for every set of events, users and days, every batch and page
size and any number of crashes, from `ArchiveAssumption`:

* `ArchiveTypeCorrect`: `Spec => []TypeOK`, which no run repeats.
* `ManifestsBacked`: `Spec => []ManifestBacked`, torn writes included. `BackedInv`
  adds that the chunk to be recorded or deleted has been uploaded.
* `ListedIsReadBack`: `Spec => []ListedSurvives` when `~TornWrites`. `ListedInv` adds
  that the file ends in a newline and that the chunk to be deleted is listed.
* `NothingVanishes`: `Spec => []NoEventVanishes` when `~TornWrites`. `VanishInv` puts
  the two together: at `DeleteChunk` the chunk is listed, by `ListedInv` its line is
  read back, by `BackedInv` its object exists, so it is archived before it goes.
* `PlansPartition`: `Spec => []PlanPartitions`. `PlanInv` adds what a cycle has left to
  do; that a chunk fits the batch size comes from an injection of the ranks of its
  events into an interval, that nothing is left out from each event being in its chunk.
* `ErasuresComplete`: `Spec => []ErasureComplete`. `EraseInv` adds that a page that is not
  full holds all that is left of what was promised; the lemma `NewestPage` says so
  of the newest of any finite set.

* `ArchiveImplementsTiers`: `Spec => ImplementsTiers` when `~TornWrites`. `TierInv` puts
  the invariants above together with `KnownInv`: chunks on their way to the archive are
  made of ingested events, and a page of an erasure is of its user and is held only
  while the request is open. Under it each action, failed and cut-off ones included, is
  a step of `TieredStore` through the mapping, or changes nothing it shows; a manifest
  whose insert failed after the write is not cold until a restart reads it.

The hypothesis `~TornWrites` says that a manifest line is written whole or not at
all. It cannot be dropped: run torn_manifest is the counterexample without it.

`QueryProofs`, for every finite set of events, every set of tiers and readers and
all page sizes, from `QueryAssumption`:

* `QueryTypeCorrect`: `Spec => []TypeOK`, which no run repeats.
* `NothingTwice`: `Spec => []NoDuplicates`, timestamps tied or not. `CursorDivides`
  adds that what a reader has got is at or after its cursor, and the rows it is
  reading are before it.
* `NothingIsSkipped`: `Spec => []NothingSkipped` when timestamps are `Distinct`.
  `ReadsAll` adds that, while a page is read, an event that was there all the time
  and lies ahead of the cursor is in an engine still to be read, is among the rows,
  or is older than a full page of rows (`Crowd`). The lemmas on `Newest` say
  what a page that is cut at its limit leaves out, and `Keeps` that this is left
  for a later page.

`Distinct` cannot be dropped either: export_ties is the counterexample.

`GatewayProofs`, for every finite set of requests, all configurations and secrets,
every number of permits, burst, rate, token fraction, size limit and time, from
`GatewayAssumption`:

* `IdentityIsCurrent`: `Spec => []IdentityCurrent`. `SeenInv` adds that a request that
  waits to be authenticated has the keys in force among those it has seen, and
  that one turned away is gone and sees no more.
* `TierMountedOnce`: `Spec => []MountedOnce`. `MountInv` adds the double-checked lock:
  whoever opens or publishes an engine holds `insert_lock` and its tier is not in
  the map; an engine that was opened is in the map or is being published; a job
  belongs to a request whose identity does not change any more.
* `RetryIsHonest`: `Spec => []RetryHonest`. `PromiseInv` says in terms of the bucket what
  was promised: at the promised second it will hold a token. The lemma
  `WaitSuffices` is the ceiling of `Retry-After`.
* `AdmittedIsWithinRate`: `Spec => []AdmittedWithinRate`. Not inductive: it says nothing
  of what a bucket still holds. `Budget` counts from any second on: what the key took
  since, and what is left, is at most a full bucket and the gain since. `BudgetNow`
  carries it over a refill, `RateKeptByToken` and `RateKeptByDenial` over the two
  outcomes of `try_acquire`. `TokenInv` says that a request with a token is past the
  limiter and keeps its one id.
* `SizeIsHonest`: `Spec => SizeHonest`, an action property. A size is counted engine by
  engine while events are flushed and collected, so it may be the size the store had at
  no moment at all. What it is instead is the size of a set of events that has all of
  `Lasting(t)` and nothing outside `Recent(t)`, for t the second the walk was asked for
  (`Covers`). `SizeInv` says so of the cached value and its stamp, and of the sum of a walk
  with the engines it has counted (`Counted`); a flush and a collection carry the
  present second, which is t or later, so they only widen the two bounds (`DateInv`,
  `AskInv`). Between the two stores of a refresh the new size stands with the older
  stamp, and `CountedOlder` says that an older stamp asks for less.

`EventDataProofs`, for all bodies, callers, tiers, windows and page sizes, from
`EventDataAssumption`, `PricingAssumption` and `PriceAssumption`: a key's id is optional;
clocks, windows, costs and status codes are integers; token counts are unsigned; a
catalogue file is finite and has no negative price ("all rates are non-negative",
`keplor-pricing/tests/cost_engine.rs:165`); and three times `MaxTokens` is at most `MaxCount`, as 10
million is to `u32::MAX`:

* `EventsReadBack`: `Spec => []RoundTrip`. `DataInv` says that the log has the row
  of every event built, that engines hold rows of the log, and that a chunk is of the
  user and the times of its manifest. `WellFormed` is what `process_event` guarantees of an
  event; `RowReadsBack` is the round trip through dims, labels, counters and flag bits.
* `EventsAreFoundAsShown`: `Spec => []FoundAsShown`, from the same invariant.
* `PagesAreComplete`: `Spec => []MergedComplete`. `PageInv` follows what a page must not
  miss: while the engines are read it is archived, or in an engine still to be read,
  or found, unless more than a page was found (`ReadInv`); later it is found or
  in a chunk still to be fetched, unless a fetch failed or the page is full
  (`FetchInv`). An event leaves an engine only for a chunk, and the manifests are listed
  after the engines are read: in the other order the step would fail.
* `OwnPricesWin`, `VariantsArePriced`, `RefreshesKeepPrices`: `Spec => []OwnPriceWins`,
  `Spec => []VariantsPriced`, `Spec => RefreshKeepsPrice`. `PricingProofs` shows that every
  index `from_json` may build is a `GoodIndex`: it knows the names of the usable entries
  and no other, gives each to an entry that has it, and an entry's own name to such
  an entry. `from_json` is a recursive function over sets of entries; that the
  recursion has a solution (`LoadExists`), only one (`LoadUnique`) and a good one
  (`FromJsonGood`) each follows from a least set for which it would not.

* `TokensAreBilledOnce`: `Spec => BilledOnce`, an action property about the event that a
  step builds. `validate` bounds each count, so no sum of counts is cut at `MaxCount`
  (`UsageCounts`), and the lemma `FlatBill` of `PricingProofs` follows the bill of
  `compute_cost` through fallbacks, thresholds and saturation for either kind of
  provider.
* `AnswersAreBracketed`: `Spec => []AggregatesBracketed`. Not inductive: an answer is
  known only when the last engine is read. `SumInv` says, while a request is under way,
  that its sums are those of a set of rows already read, that this set has all of the
  rows that stay in the engines read, and none that was never stored. `CountInv` adds
  that what a row brings to a sum is never negative (`CostNat`: no cost is), so that more
  rows make larger sums, and that an id is in the engine of its tier only, so that no
  row is counted twice. Below it lie lemmas on sums over finite sets (they split over
  disjoint sets, grow with the set, and saturate to the same number whether they are
  cut once or after each part), on groups of rows (`GroupedTallies`, `MergedTallies`),
  and on the statistics, whose groups are unions of groups of the rollups
  (`StatsTallies`).

With these, every invariant and every safety action property that a passing run checks
is stated by a theorem, and so are both refinements.

Only model-checked: liveness (`EveryCallSettles`, `EventuallyVisible`, `DropDrains`,
`EventuallyArchived`, `ListingEnds`, `EveryRequestAnswered`). Liveness under fairness and
`ENABLED` are outside what the prover handles. The library's induction
theorems take an operator as a parameter and cannot be used either; where an induction
is needed (`Newest`, `Min` and `Max`, `from_json`, sums over sets) the proofs take the
least counterexample in the ordering by strict subset instead.

## Not modelled

`keplordb`, `tokio`, `lru` and the object store are external: channels, LRU maps,
WAL, segments and objects behave as their callers rely on. Formats (JSON,
zstd, HTTP), TLS, signals, metrics and logs are I/O or wording. The command line
wraps store operations that are modelled. Configuration defaults, environment
overrides and warnings have no state. Known gaps: `limit=0` (an empty page that says
there is more and has no cursor), a filter on an empty user id, the pages of
rollups, an HTTP error page that parses as a catalogue.

## Plan

1. Core of the write path: `EventLog`, `BatchWriter`, its first theorems. Done.
2. The rest of an event's life: `Ingest`, `Archive`, `Query`. Done.
3. Layers around a request: `Gateway`. Done.
4. Data of an event: `Pricing`, `EventData`. Done.
5. Theorems about the safety of all of them, and two refinements. Done.
6. What is left: liveness, which TLC checks on small instances only, and the known gaps
   above.
