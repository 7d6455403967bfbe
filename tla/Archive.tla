------------------------------- MODULE Archive -------------------------------
(***************************************************************************)
(* The life of a stored event after ingestion: the archiver (archive.rs)   *)
(* moves old events to an object store chunk by chunk and lists them in    *)
(* the manifest log (manifests.rs), while garbage collection, erasure      *)
(* requests and crashes go on around it.                                   *)
(*                                                                         *)
(* A chunk is the set of its events.  The object uploaded for a chunk and  *)
(* the manifest line that lists it are named by that set: two uploads of   *)
(* the same events hold the same data.                                     *)
(***************************************************************************)
EXTENDS Integers, FiniteSets

CONSTANTS
  Events,         \* event numbers, in the order of their timestamps
  At,             \* At[e]: the timestamp of e
  UserOf,         \* UserOf[e]: the user of e
  DayLength,      \* timestamps per day
  ArchiveAfter,   \* archive_after_hours; 0: archive by size only
  BatchSize,      \* archive_batch_size
  Retention,      \* the retention of the tier; 0: keep forever
  Erasures,       \* the users whose erasure is requested
  EraseBatch,     \* BATCH of delete_events_bulk
  TornWrites,     \* TRUE: a manifest write may be cut short
  Unencodable,    \* the events serde_json cannot write: errors InvalidRequest(..)
  MaxTime,        \* bound on the clock
  MaxCrashes      \* bound on the crashes of a behaviour

ASSUME ArchiveAssumption ==
  /\ Events \subseteq Nat
  /\ At \in [Events -> Nat]
  /\ \A x, y \in Events : x < y => At[x] <= At[y]
  /\ DayLength \in Nat \ {0}
  /\ ArchiveAfter \in Nat
  /\ BatchSize \in Nat \ {0}
  /\ Retention \in Nat
  /\ EraseBatch \in Nat \ {0}
  /\ TornWrites \in BOOLEAN
  /\ Unencodable \subseteq Events
  /\ MaxTime \in Nat
  /\ MaxCrashes \in Nat

VARIABLES
  now,        \* the system clock
  ingested,   \* history: the events ingested so far
  live,       \* the events queries of the engines see
  pc,         \* what the archiver is doing
  plan,       \* the chunks of this cycle still to archive
  current,    \* the chunk being archived
  objects,    \* the chunks in the object store
  lines,      \* the chunks on complete lines of manifests.jsonl
  tail,       \* its unterminated last line
  index,      \* the in-memory manifest index
  gced,       \* history: events dropped by garbage collection
  erasing,    \* erasing[u]: the step of the erasure request for u
  targets,    \* targets[u]: the ids its last query returned
  promised,   \* history: what was live when the request for u came in
  erased,     \* history: events tombstoned by erasure requests
  crashes     \* the crashes so far

engineVars == <<now, ingested, live, gced>>
cycleVars == <<pc, plan, current>>
archiveVars == <<objects, lines, tail, index>>
eraseVars == <<erasing, targets, promised, erased>>
vars == <<engineVars, cycleVars, archiveVars, eraseVars, crashes>>

-----------------------------------------------------------------------------
(* group_events and chunks(batch_size) *)

DayOf(e) == At[e] \div DayLength

(* The events of e's partition, and e's place in their order.              *)
Group(e, S) == {x \in S : UserOf[x] = UserOf[e] /\ DayOf(x) = DayOf(e)}
Rank(e, S) == Cardinality({x \in Group(e, S) : x < e})

(* Mutant: a chunk is cut off one event too late.                          *)
ChunkOfLong(e, S) ==
  {x \in Group(e, S) : Rank(x, S) \div (BatchSize + 1) = Rank(e, S) \div (BatchSize + 1)}

(* e's chunk: the last one of a partition may be shorter.                  *)
ChunkOf(e, S) == {x \in Group(e, S) : Rank(x, S) \div BatchSize = Rank(e, S) \div BatchSize}
Chunks(S) == {ChunkOf(e, S) : e \in S}

(* The cutoff of archive_loop: size-only archival takes what is a day old. *)
Cutoff == now - (IF ArchiveAfter > 0 THEN ArchiveAfter ELSE DayLength)

(* query_events_for_archive                                                *)
Eligible == {e \in live : At[e] <= Cutoff}

-----------------------------------------------------------------------------
(* The manifest log *)

NoTail == [kind |-> "none", chunk |-> {}]

(* What ManifestStore::open reads: an unterminated line is a record when   *)
(* only its newline is missing, and is skipped otherwise.                  *)
Readable == lines \cup (IF tail.kind = "whole" THEN {tail.chunk} ELSE {})

(* The line of chunk c is appended to the file.  After an unterminated     *)
(* line it becomes part of that line, which then is no record at all.      *)
AppendLine(c) ==
  /\ lines' = IF tail.kind = "none" THEN lines \cup {c} ELSE lines
  /\ tail' = NoTail

(* The write is cut short, in the record or just before its newline.       *)
TearLine(c) ==
  /\ TornWrites
  /\ UNCHANGED lines
  /\ \/ tail' = [kind |-> "partial", chunk |-> {}]
     \/ /\ tail.kind = "none"
        /\ tail' = [kind |-> "whole", chunk |-> c]

-----------------------------------------------------------------------------

Init ==
  /\ now = 0
  /\ ingested = {}
  /\ live = {}
  /\ pc = "idle"
  /\ plan = {}
  /\ current = {}
  /\ objects = {}
  /\ lines = {}
  /\ tail = NoTail
  /\ index = {}
  /\ gced = {}
  /\ erasing = [u \in Erasures |-> "no"]
  /\ targets = [u \in Erasures |-> {}]
  /\ promised = [u \in Erasures |-> {}]
  /\ erased = {}
  /\ crashes = 0

Ingest(e) ==
  /\ e \notin ingested
  /\ At[e] <= now
  /\ ingested' = ingested \cup {e}
  /\ live' = live \cup {e}
  /\ UNCHANGED <<now, gced, cycleVars, archiveVars, eraseVars, crashes>>

Tick ==
  /\ now < MaxTime
  /\ now' = now + 1
  /\ UNCHANGED <<ingested, live, gced, cycleVars, archiveVars, eraseVars, crashes>>

-----------------------------------------------------------------------------
(* archive_old_events *)

(* One query gives the events of the whole cycle.                          *)
StartCycle ==
  /\ pc = "idle"
  /\ Eligible # {}
  /\ pc' = "upload"
  /\ plan' = Chunks(Eligible)
  /\ UNCHANGED <<engineVars, current, archiveVars, eraseVars, crashes>>

(* to_writer fails for the whole chunk when it fails for one of its events. *)
Encodes(c) == c \cap Unencodable = {}

(* Mutant: the chunk is deleted before its manifest is recorded.           *)
UploadThenDelete ==
  \E c \in plan :
    /\ pc = "upload"
    /\ Encodes(c)
    /\ objects' = objects \cup {c}
    /\ current' = c
    /\ plan' = plan \ {c}
    /\ pc' = "delete"
    /\ UNCHANGED <<engineVars, lines, tail, index, eraseVars, crashes>>

(* archive_chunk, first half: encode the chunk and put the object.         *)
Upload ==
  \E c \in plan :
    /\ pc = "upload"
    /\ Encodes(c)
    /\ objects' = objects \cup {c}
    /\ current' = c
    /\ plan' = plan \ {c}
    /\ pc' = "record"
    /\ UNCHANGED <<engineVars, lines, tail, index, eraseVars, crashes>>

(* Mutant: the result of put is ignored.                                   *)
UploadFailsIgnored ==
  \E c \in plan :
    /\ pc = "upload"
    /\ current' = c
    /\ plan' = plan \ {c}
    /\ pc' = "record"
    /\ UNCHANGED <<engineVars, archiveVars, eraseVars, crashes>>

(* Mutant: a failed upload ends the archive loop.                          *)
UploadFailsStops ==
  \E c \in plan :
    /\ pc = "upload"
    /\ plan' = plan \ {c}
    /\ pc' = "stopped"
    /\ UNCHANGED <<engineVars, current, archiveVars, eraseVars, crashes>>

(* The chunk cannot be encoded, or put reports an error, although the      *)
(* object may have been written.  The chunk is left for the next cycle.    *)
UploadFails ==
  \E c \in plan :
    /\ pc = "upload"
    /\ \/ UNCHANGED objects
       \/ Encodes(c) /\ objects' = objects \cup {c}
    /\ plan' = plan \ {c}
    /\ UNCHANGED <<engineVars, pc, current, lines, tail, index, eraseVars, crashes>>

(* Mutant: the line is left in a buffer that is never flushed.             *)
RecordUnflushed ==
  /\ pc = "record"
  /\ index' = index \cup {current}
  /\ pc' = "delete"
  /\ UNCHANGED <<engineVars, plan, current, objects, lines, tail, eraseVars, crashes>>

(* archive_chunk, second half: ManifestStore::insert.                      *)
Record ==
  /\ pc = "record"
  /\ AppendLine(current)
  /\ index' = index \cup {current}
  /\ pc' = "delete"
  /\ UNCHANGED <<engineVars, plan, current, objects, eraseVars, crashes>>

(* insert fails: before the write, within it, or at the fsync after it.    *)
(* The index is not told, and the chunk's events stay.                     *)
RecordFails ==
  /\ pc = "record"
  /\ \/ UNCHANGED <<lines, tail>>
     \/ AppendLine(current)
     \/ TearLine(current)
  /\ current' = {}
  /\ pc' = "upload"
  /\ UNCHANGED <<engineVars, plan, objects, index, eraseVars, crashes>>

(* delete_events_by_ids tombstones the chunk, engine by engine.            *)
DeleteChunk ==
  /\ pc = "delete"
  /\ live' = live \ current
  /\ current' = {}
  /\ pc' = "upload"
  /\ UNCHANGED <<now, ingested, gced, plan, archiveVars, eraseVars, crashes>>

(* An engine fails: only the engines before it have the tombstones.        *)
DeleteFails ==
  \E part \in SUBSET current :
    /\ pc = "delete"
    /\ live' = live \ part
    /\ current' = {}
    /\ pc' = "upload"
    /\ UNCHANGED <<now, ingested, gced, plan, archiveVars, eraseVars, crashes>>

EndCycle ==
  /\ pc = "upload"
  /\ plan = {}
  /\ pc' = "idle"
  /\ UNCHANGED <<engineVars, plan, current, archiveVars, eraseVars, crashes>>

-----------------------------------------------------------------------------
(* Garbage collection and erasure *)

(* gc_tier and gc_expired drop whole segments whose events have expired;   *)
(* which expired events share a segment with younger ones is not known.    *)
Gc ==
  \E S \in SUBSET {e \in live : At[e] < now - Retention} :
    /\ Retention > 0
    /\ S # {}
    /\ live' = live \ S
    /\ gced' = gced \cup S
    /\ UNCHANGED <<now, ingested, cycleVars, archiveVars, eraseVars, crashes>>

(* DELETE /v1/events?user_id=u                                             *)
BeginErase(u) ==
  /\ erasing[u] = "no"
  /\ erasing' = [erasing EXCEPT ![u] = "query"]
  /\ promised' = [promised EXCEPT ![u] = {e \in live : UserOf[e] = u}]
  /\ UNCHANGED <<engineVars, cycleVars, archiveVars, targets, erased, crashes>>

(* Mutant: the query of the next page does not filter by user.             *)
EraseQueryAnyUser(u) ==
  LET page == {e \in live : Cardinality({x \in live : x > e}) < EraseBatch}
  IN
  /\ erasing[u] = "query"
  /\ targets' = [targets EXCEPT ![u] = page]
  /\ erasing' = [erasing EXCEPT ![u] = IF page = {} THEN "done" ELSE "delete"]
  /\ UNCHANGED <<engineVars, cycleVars, archiveVars, promised, erased, crashes>>

(* The newest EraseBatch events of the user; none ends the request.        *)
EraseQuery(u) ==
  LET mine == {e \in live : UserOf[e] = u}
      page == {e \in mine : Cardinality({x \in mine : x > e}) < EraseBatch}
  IN
  /\ erasing[u] = "query"
  /\ targets' = [targets EXCEPT ![u] = page]
  /\ erasing' = [erasing EXCEPT ![u] = IF page = {} THEN "done" ELSE "delete"]
  /\ UNCHANGED <<engineVars, cycleVars, archiveVars, promised, erased, crashes>>

(* Mutant: a full page is taken for the last one.                          *)
EraseDeleteOnePage(u) ==
  /\ erasing[u] = "delete"
  /\ live' = live \ targets[u]
  /\ erased' = erased \cup (targets[u] \cap live)
  /\ erasing' = [erasing EXCEPT ![u] =
                   IF Cardinality(targets[u]) <= EraseBatch THEN "done" ELSE "query"]
  /\ targets' = [targets EXCEPT ![u] = {}]
  /\ UNCHANGED <<now, ingested, gced, cycleVars, archiveVars, promised, crashes>>

(* A page that was not full is the last one.                               *)
EraseDelete(u) ==
  /\ erasing[u] = "delete"
  /\ live' = live \ targets[u]
  /\ erased' = erased \cup (targets[u] \cap live)
  /\ erasing' = [erasing EXCEPT ![u] =
                   IF Cardinality(targets[u]) < EraseBatch THEN "done" ELSE "query"]
  /\ targets' = [targets EXCEPT ![u] = {}]
  /\ UNCHANGED <<now, ingested, gced, cycleVars, archiveVars, promised, crashes>>

(* An engine fails, in the query or in the deletion: the request ends with *)
(* 500, and a part of the page may be gone.                                *)
EraseFails(u) ==
  \E part \in SUBSET targets[u] :
    /\ erasing[u] \in {"query", "delete"}
    /\ live' = live \ part
    /\ erased' = erased \cup (part \cap live)
    /\ erasing' = [erasing EXCEPT ![u] = "failed"]
    /\ targets' = [targets EXCEPT ![u] = {}]
    /\ UNCHANGED <<now, ingested, gced, cycleVars, archiveVars, promised, crashes>>

-----------------------------------------------------------------------------
(* The process dies in the middle of whatever it does, with any part of a  *)
(* deletion done, and restarts: the manifest index is read from the file.  *)
Crash ==
  /\ crashes < MaxCrashes
  /\ crashes' = crashes + 1
  /\ \/ UNCHANGED <<lines, tail>>
     \/ pc = "record" /\ (AppendLine(current) \/ TearLine(current))
  /\ index' = Readable'
  /\ \E part \in SUBSET (IF pc = "delete" THEN current ELSE {}),
        some \in SUBSET UNION {targets[u] : u \in Erasures} :
       /\ live' = live \ (part \cup some)
       /\ erased' = erased \cup (some \cap live)
  /\ pc' = "idle"
  /\ plan' = {}
  /\ current' = {}
  /\ erasing' = [u \in Erasures |->
                   IF erasing[u] \in {"query", "delete"} THEN "failed" ELSE erasing[u]]
  /\ targets' = [u \in Erasures |-> {}]
  /\ UNCHANGED <<now, ingested, gced, objects, promised>>

-----------------------------------------------------------------------------

ArchiverStep ==
  \/ StartCycle \/ Upload \/ UploadFails \/ Record \/ RecordFails
  \/ DeleteChunk \/ DeleteFails \/ EndCycle

Next ==
  \/ \E e \in Events : Ingest(e)
  \/ ArchiverStep \/ Gc
  \/ \E u \in Erasures : BeginErase(u) \/ EraseQuery(u) \/ EraseDelete(u) \/ EraseFails(u)
  \/ Tick \/ Crash

Spec == Init /\ [][Next]_vars

(* archive_loop runs for ever, and no event's chunk fails for ever: what   *)
(* is tried again and again is uploaded, listed and deleted at last.       *)
Fairness ==
  /\ WF_vars(Tick)
  /\ WF_vars(ArchiverStep)
  /\ \A e \in Events :
       /\ SF_vars(Upload /\ e \in current')
       /\ SF_vars(e \in current /\ Record)
       /\ SF_vars(e \in current /\ DeleteChunk)

FairSpec == Spec /\ Fairness

-----------------------------------------------------------------------------
(* Properties *)

(* Type correctness of the archiver's, the log's and the engines' state.   *)
TypeOK ==
  /\ now \in 0 .. MaxTime
  /\ ingested \in SUBSET Events
  /\ live \in SUBSET Events
  /\ pc \in {"idle", "upload", "record", "delete"}
  /\ plan \in SUBSET (SUBSET Events)
  /\ current \in SUBSET Events
  /\ objects \in SUBSET (SUBSET Events)
  /\ lines \in SUBSET (SUBSET Events)
  /\ tail \in [kind : {"none", "partial", "whole"}, chunk : SUBSET Events]
  /\ index \in SUBSET (SUBSET Events)
  /\ gced \in SUBSET Events
  /\ erasing \in [Erasures -> {"no", "query", "delete", "done", "failed"}]
  /\ targets \in [Erasures -> SUBSET Events]
  /\ promised \in [Erasures -> SUBSET Events]
  /\ erased \in SUBSET Events
  /\ crashes \in 0 .. MaxCrashes

(* The events a query with include_archived can fetch, now and after any   *)
(* restart: listed in the index and in the file, with the object present.  *)
Archived == UNION (index \cap Readable \cap objects)

(* No event vanishes: it is live, or archived and reachable, or it was     *)
(* dropped by garbage collection or by an erasure request.  The archiver   *)
(* deletes nothing whose upload and manifest are not both safe, whichever  *)
(* of its steps fails and wherever the process dies.                       *)
NoEventVanishes == ingested \subseteq live \cup Archived \cup gced \cup erased

(* Every manifest line, read back or in memory, points to an object that   *)
(* exists: include_archived never runs into a dangling manifest.           *)
ManifestBacked == (index \cup Readable) \subseteq objects

(* A manifest whose insert returned Ok is read back after a restart, as    *)
(* manifests.rs says of its append-only log.                               *)
ListedSurvives == index \subseteq Readable

(* The chunks of a cycle partition what it takes: they are disjoint, hold  *)
(* one user and day each, fit the batch size, also the last and shorter    *)
(* one of a large partition, and a cycle that starts leaves no eligible    *)
(* event out; the one being archived is not planned again.                 *)
PlanPartitions ==
  /\ pc = "idle" => UNION Chunks(Eligible) = Eligible
  /\ \A c \in plan \cup {current} :
       /\ Cardinality(c) <= BatchSize
       /\ \A x, y \in c : UserOf[x] = UserOf[y] /\ DayOf(x) = DayOf(y)
  /\ \A c, d \in plan : c # d => c \cap d = {}
  /\ \A c \in plan : c # {} /\ c \cap current = {}

(* When an erasure request succeeds, everything of the user that was live  *)
(* when it came in is gone from the engines, for good.                     *)
ErasureComplete ==
  \A u \in Erasures : erasing[u] = "done" => promised[u] \cap live = {}

Request(u) == IF erasing[u] \in {"query", "delete"} THEN "open" ELSE erasing[u]

Tiers == INSTANCE TieredStore
  WITH known <- ingested, hot <- live, cold <- Archived,
       request <- [u \in Erasures |-> Request(u)], owed <- promised

(* The archiver with its manifest log, garbage collection and the erasure  *)
(* requests together are a two-tiered store: an event leaves the engines   *)
(* only when the archive has it, when it has expired, or while its own     *)
(* user's erasure is open; the archive gives up nothing, across restarts   *)
(* too; and an erasure succeeds only when all it owes is gone.             *)
ImplementsTiers == Tiers!TierSpec

(* Old events leave the engines: whatever fails on the way, a later cycle  *)
(* retries.                                                                *)
EventuallyArchived ==
  \A e \in Events : (e \in Eligible) ~> (e \notin live)

====
