--------------------------- MODULE ArchiveProofs ---------------------------
(***************************************************************************)
(* Theorems about the archiver and the manifest log, for every set of      *)
(* events, every configuration and any number of crashes and cycles.       *)
(***************************************************************************)
EXTENDS Archive, FiniteSetTheorems, FunctionTheorems, WellFoundedInduction, TLAPS

-----------------------------------------------------------------------------
(* Types.                                                                  *)

(* The chunks of a snapshot are sets of events.                            *)
LEMMA ChunksType == ASSUME NEW S \in SUBSET Events PROVE Chunks(S) \in SUBSET (SUBSET Events)
BY DEF Chunks, ChunkOf, Group

(* Whatever insert does to the manifest file, it holds lists of events.    *)
LEMMA LogType ==
  ASSUME TypeOK, NEW c \in SUBSET Events,
         UNCHANGED <<lines, tail>> \/ AppendLine(c) \/ TearLine(c)
  PROVE  /\ lines' \in SUBSET (SUBSET Events)
         /\ tail' \in [kind : {"none", "partial", "whole"}, chunk : SUBSET Events]
         /\ Readable' \in SUBSET (SUBSET Events)
<1>1. /\ lines' \in SUBSET (SUBSET Events)
      /\ tail' \in [kind : {"none", "partial", "whole"}, chunk : SUBSET Events]
  BY DEF TypeOK, AppendLine, TearLine, NoTail
<1>2. QED
  BY <1>1 DEF Readable

(* Every step of the archiver, the collector, an erasure and a crash keeps *)
(* the types.                                                              *)
LEMMA NextType == TypeOK /\ [Next]_vars => TypeOK'
<1> SUFFICES ASSUME TypeOK, [Next]_vars PROVE TypeOK'
  OBVIOUS
<1> USE ArchiveAssumption DEF TypeOK
<1>1. CASE \E e \in Events : Ingest(e)
  BY <1>1 DEF Ingest, cycleVars, archiveVars, eraseVars
<1>2. CASE Tick
  BY <1>2 DEF Tick, cycleVars, archiveVars, eraseVars
<1>3. CASE StartCycle
  BY <1>3, ChunksType DEF StartCycle, Eligible, engineVars, archiveVars, eraseVars
<1>4. CASE Upload \/ UploadFails
  <2>1. PICK c \in plan : objects' \in {objects, objects \cup {c}}
    BY <1>4 DEF Upload, UploadFails
  <2>2. objects' \in SUBSET (SUBSET Events)
    <3>1. c \in SUBSET Events
      OBVIOUS
    <3>2. QED
      BY <2>1, <3>1
  <2>3. CASE Upload
    BY <2>2, <2>3 DEF Upload, engineVars, eraseVars
  <2>4. CASE UploadFails
    BY <2>2, <2>4 DEF UploadFails, engineVars, eraseVars
  <2>5. QED
    BY <1>4, <2>3, <2>4
<1>5. CASE Record
  BY <1>5, LogType DEF Record, engineVars, eraseVars
<1>6. CASE RecordFails
  BY <1>6, LogType DEF RecordFails, engineVars, eraseVars
<1>7. CASE DeleteChunk \/ DeleteFails \/ EndCycle
  BY <1>7 DEF DeleteChunk, DeleteFails, EndCycle, engineVars, archiveVars, eraseVars
<1>8. CASE Gc
  BY <1>8 DEF Gc, cycleVars, archiveVars, eraseVars
<1>9. CASE \E u \in Erasures : BeginErase(u) \/ EraseQuery(u) \/ EraseDelete(u) \/ EraseFails(u)
  <2> PICK u \in Erasures : BeginErase(u) \/ EraseQuery(u) \/ EraseDelete(u) \/ EraseFails(u)
    BY <1>9
  <2>1. CASE BeginErase(u)
    BY <2>1 DEF BeginErase, engineVars, cycleVars, archiveVars
  <2>2. CASE EraseQuery(u)
    BY <2>2 DEF EraseQuery, engineVars, cycleVars, archiveVars
  <2>3. CASE EraseDelete(u)
    BY <2>3 DEF EraseDelete, cycleVars, archiveVars
  <2>4. CASE EraseFails(u)
    BY <2>4 DEF EraseFails, cycleVars, archiveVars
  <2>5. QED
    BY <2>1, <2>2, <2>3, <2>4
<1>10. CASE Crash
  <2>1. /\ lines' \in SUBSET (SUBSET Events)
        /\ tail' \in [kind : {"none", "partial", "whole"}, chunk : SUBSET Events]
        /\ Readable' \in SUBSET (SUBSET Events)
    BY <1>10, LogType DEF Crash
  <2>2. PICK part \in SUBSET (IF pc = "delete" THEN current ELSE {}),
             some \in SUBSET UNION {targets[u] : u \in Erasures} :
               /\ live' = live \ (part \cup some)
               /\ erased' = erased \cup (some \cap live)
    BY <1>10 DEF Crash
  <2>3. /\ erasing' \in [Erasures -> {"no", "query", "delete", "done", "failed"}]
        /\ targets' \in [Erasures -> SUBSET Events]
        /\ crashes' \in 0 .. MaxCrashes
    BY <1>10 DEF Crash
  <2>4. QED
    BY <1>10, <2>1, <2>2, <2>3 DEF Crash
<1>11. CASE UNCHANGED vars
  BY <1>11 DEF vars, engineVars, cycleVars, archiveVars, eraseVars
<1>12. QED
  BY <1>1, <1>2, <1>3, <1>4, <1>5, <1>6, <1>7, <1>8, <1>9, <1>10, <1>11 DEF Next, ArchiverStep

(* Type correctness of archive_old_events, ManifestStore, garbage          *)
(* collection and erasure.                                                 *)
THEOREM ArchiveTypeCorrect == Spec => []TypeOK
<1>1. Init => TypeOK
  BY ArchiveAssumption DEF Init, TypeOK, NoTail
<1>2. QED
  BY <1>1, NextType, PTL DEF Spec

-----------------------------------------------------------------------------
(* Lists and objects.                                                      *)

(* What a manifest names has been uploaded, whether the log is torn or     *)
(* not: the chunk that is about to be recorded is in the object store.     *)
BackedInv ==
  /\ ManifestBacked
  /\ pc \in {"record", "delete"} => current \in objects

(* Appending or tearing the line of chunk c makes at most c readable.      *)
LEMMA AppendReads ==
  ASSUME NEW c, AppendLine(c)
  PROVE  Readable' \subseteq Readable \cup {c}
BY DEF AppendLine, Readable, NoTail

(* Tearing the line of c makes at most c readable, by its lost newline.    *)
LEMMA TearReads ==
  ASSUME NEW c, TearLine(c)
  PROVE  Readable' \subseteq Readable \cup {c}
BY DEF TearLine, Readable

(* What a restart reads depends on the manifest file alone.                *)
LEMMA SameReads ==
  ASSUME UNCHANGED <<lines, tail>>
  PROVE  Readable' = Readable
BY DEF Readable

(* Reading more of the log, or indexing more, keeps the manifests backed   *)
(* as long as only uploaded chunks are added.                              *)
LEMMA BackedFrame ==
  ASSUME ManifestBacked, NEW c \in objects', objects \subseteq objects',
         index' \subseteq index \cup Readable \cup {c},
         Readable' \subseteq Readable \cup {c}
  PROVE  ManifestBacked'
BY DEF ManifestBacked

(* A manifest is written only for a chunk whose upload succeeded.          *)
LEMMA NextBackedInv == BackedInv /\ [Next]_vars => BackedInv'
<1> SUFFICES ASSUME BackedInv, [Next]_vars PROVE BackedInv'
  OBVIOUS
<1> USE DEF BackedInv
<1>idle. ASSUME UNCHANGED <<archiveVars, cycleVars>> PROVE BackedInv'
  BY <1>idle, SameReads DEF archiveVars, cycleVars, ManifestBacked
<1>1. CASE \E e \in Events : Ingest(e)
  BY <1>1, <1>idle DEF Ingest
<1>2. CASE Gc
  BY <1>2, <1>idle DEF Gc
<1>3. CASE \E u \in Erasures : BeginErase(u) \/ EraseQuery(u) \/ EraseDelete(u) \/ EraseFails(u)
  BY <1>3, <1>idle DEF BeginErase, EraseQuery, EraseDelete, EraseFails
<1>4. CASE Tick
  BY <1>4, <1>idle DEF Tick
<1>5. CASE UNCHANGED vars
  BY <1>5, <1>idle DEF vars
<1>6. CASE StartCycle \/ EndCycle
  BY <1>6, SameReads DEF StartCycle, EndCycle, archiveVars, ManifestBacked
<1>7. CASE DeleteChunk \/ DeleteFails
  BY <1>7, SameReads DEF DeleteChunk, DeleteFails, archiveVars, ManifestBacked
<1>8. CASE Upload
  BY <1>8, SameReads DEF Upload, ManifestBacked
<1>9. CASE UploadFails
  BY <1>9, SameReads DEF UploadFails, ManifestBacked
<1>10. CASE Record
  <2>1. Readable' \subseteq Readable \cup {current}
    BY <1>10, AppendReads DEF Record
  <2>2. QED
    BY <1>10, <2>1, BackedFrame DEF Record
<1>11. CASE RecordFails
  <2>1. Readable' \subseteq Readable \cup {current}
    BY <1>11, AppendReads, TearReads, SameReads DEF RecordFails
  <2>2. QED
    BY <1>11, <2>1, BackedFrame DEF RecordFails
<1>12. CASE Crash
  <2>1. CASE UNCHANGED <<lines, tail>>
    BY <1>12, <2>1, SameReads DEF Crash, ManifestBacked
  <2>2. CASE pc = "record" /\ (AppendLine(current) \/ TearLine(current))
    <3>1. Readable' \subseteq Readable \cup {current}
      BY <2>2, AppendReads, TearReads
    <3>2. QED
      BY <1>12, <2>2, <3>1, BackedFrame DEF Crash
  <2>3. QED
    BY <1>12, <2>1, <2>2 DEF Crash
<1>13. QED
  BY <1>1, <1>2, <1>3, <1>4, <1>5, <1>6, <1>7, <1>8, <1>9, <1>10, <1>11, <1>12
     DEF Next, ArchiverStep

(* Every manifest in memory, and every one that a restart would read,      *)
(* points to an object that archive_chunk has uploaded, also when manifest *)
(* writes are torn.                                                        *)
THEOREM ManifestsBacked == Spec => []ManifestBacked
<1>1. Init => BackedInv
  BY DEF Init, BackedInv, ManifestBacked, Readable, NoTail
<1>2. BackedInv => ManifestBacked
  BY DEF BackedInv
<1>3. QED
  BY <1>1, <1>2, NextBackedInv, PTL DEF Spec

-----------------------------------------------------------------------------
(* Nothing vanishes, when a manifest line is written whole or not at all.  *)

(* Without torn writes the file ends in a newline, the index never runs    *)
(* ahead of it, and a chunk is deleted only when its manifest is in both.  *)
ListedInv ==
  /\ tail = NoTail
  /\ ListedSurvives
  /\ pc = "delete" => current \in index

VanishInv == BackedInv /\ ListedInv /\ NoEventVanishes

(* A whole line after a whole line is read back, and costs no other.       *)
LEMMA WholeLineReads ==
  ASSUME tail = NoTail, NEW c, AppendLine(c)
  PROVE  tail' = NoTail /\ Readable' = Readable \cup {c}
BY DEF AppendLine, Readable, NoTail

(* Without torn writes the manifests in memory and on disk only grow.      *)
LEMMA NextListedInv ==
  ASSUME ~TornWrites, ListedInv, [Next]_vars
  PROVE  /\ ListedInv'
         /\ index \subseteq index'
         /\ Readable \subseteq Readable'
<1> USE DEF ListedInv
<1>idle. ASSUME UNCHANGED archiveVars, pc' = "delete" => pc = "delete" /\ current' = current
         PROVE  ListedInv' /\ index' = index /\ Readable' = Readable
  BY <1>idle, SameReads DEF archiveVars, ListedSurvives
<1>1. CASE \E e \in Events : Ingest(e)
  BY <1>1, <1>idle DEF Ingest, cycleVars
<1>2. CASE Gc
  BY <1>2, <1>idle DEF Gc, cycleVars
<1>3. CASE \E u \in Erasures : BeginErase(u) \/ EraseQuery(u) \/ EraseDelete(u) \/ EraseFails(u)
  BY <1>3, <1>idle DEF BeginErase, EraseQuery, EraseDelete, EraseFails, cycleVars
<1>4. CASE Tick
  BY <1>4, <1>idle DEF Tick, cycleVars
<1>5. CASE UNCHANGED vars
  BY <1>5, <1>idle DEF vars, cycleVars
<1>6. CASE StartCycle \/ EndCycle
  BY <1>6, <1>idle DEF StartCycle, EndCycle
<1>7. CASE DeleteChunk \/ DeleteFails
  BY <1>7, <1>idle DEF DeleteChunk, DeleteFails
<1>8. CASE Upload \/ UploadFails
  BY <1>8, SameReads DEF Upload, UploadFails, ListedSurvives
<1>9. CASE Record
  <2>1. tail' = NoTail /\ Readable' = Readable \cup {current}
    BY <1>9, WholeLineReads DEF Record
  <2>2. QED
    BY <1>9, <2>1 DEF Record, ListedSurvives
<1>10. CASE RecordFails
  <2>1. tail' = NoTail /\ Readable \subseteq Readable'
    BY <1>10, WholeLineReads, SameReads DEF RecordFails, TearLine
  <2>2. QED
    BY <1>10, <2>1 DEF RecordFails, ListedSurvives
<1>11. CASE Crash
  <2>1. tail' = NoTail /\ Readable \subseteq Readable'
    BY <1>11, WholeLineReads, SameReads DEF Crash, TearLine
  <2>2. QED
    BY <1>11, <2>1 DEF Crash, ListedSurvives
<1>12. QED
  BY <1>1, <1>2, <1>3, <1>4, <1>5, <1>6, <1>7, <1>8, <1>9, <1>10, <1>11 DEF Next, ArchiverStep

(* A manifest whose insert returned Ok is read back after a restart, if    *)
(* ManifestStore::insert writes a line whole or not at all.                *)
THEOREM ListedIsReadBack ==
  ASSUME ~TornWrites
  PROVE  Spec => []ListedSurvives
<1>1. Init => ListedInv
  BY DEF Init, ListedInv, ListedSurvives, Readable, NoTail
<1>2. ListedInv /\ [Next]_vars => ListedInv'
  BY NextListedInv
<1>3. ListedInv => ListedSurvives
  BY DEF ListedInv
<1>4. QED
  BY <1>1, <1>2, <1>3, PTL DEF Spec

(* The chunk about to be deleted can be fetched from the archive.          *)
LEMMA DeletedIsArchived ==
  ASSUME BackedInv, ListedInv, pc = "delete"
  PROVE  current \subseteq Archived
BY DEF BackedInv, ListedInv, ListedSurvives, Archived

(* More manifests and more objects archive more events.                    *)
LEMMA ArchivedGrows ==
  ASSUME index \subseteq index', Readable \subseteq Readable', objects \subseteq objects'
  PROVE  Archived \subseteq Archived'
BY DEF Archived

(* A step removes from the engines only what is archived, erased or        *)
(* expired.                                                                *)
LEMMA NextVanishInv ==
  ASSUME ~TornWrites, VanishInv, [Next]_vars
  PROVE  VanishInv'
<1> USE DEF VanishInv
<1>1. BackedInv' /\ ListedInv' /\ index \subseteq index' /\ Readable \subseteq Readable'
  BY NextBackedInv, NextListedInv
<1> SUFFICES NoEventVanishes'
  BY <1>1
<1>2. objects \subseteq objects'
  BY DEF Next, ArchiverStep, Ingest, Gc, BeginErase, EraseQuery, EraseDelete, EraseFails, Tick,
         StartCycle, EndCycle, Upload, UploadFails, Record, RecordFails, DeleteChunk,
         DeleteFails, Crash, vars, archiveVars
<1>3. Archived \subseteq Archived'
  BY <1>1, <1>2, ArchivedGrows
<1>frame. ASSUME ingested' = ingested, gced \subseteq gced', erased \subseteq erased',
                 live \subseteq live' \cup Archived \cup gced' \cup erased'
          PROVE  NoEventVanishes'
  BY <1>3, <1>frame DEF NoEventVanishes
<1>4. CASE \E e \in Events : Ingest(e)
  BY <1>3, <1>4 DEF Ingest, NoEventVanishes, eraseVars
<1>5. CASE Gc
  BY <1>5, <1>frame DEF Gc, eraseVars
<1>6. CASE \E u \in Erasures : BeginErase(u) \/ EraseQuery(u) \/ EraseDelete(u) \/ EraseFails(u)
  BY <1>6, <1>frame DEF BeginErase, EraseQuery, EraseDelete, EraseFails, engineVars
<1>7. CASE Tick
  BY <1>7, <1>frame DEF Tick, eraseVars
<1>8. CASE StartCycle \/ EndCycle \/ Upload \/ UploadFails \/ Record \/ RecordFails
  BY <1>8, <1>frame DEF StartCycle, EndCycle, Upload, UploadFails, Record, RecordFails,
                        engineVars, eraseVars
<1>9. CASE DeleteChunk \/ DeleteFails
  <2>1. current \subseteq Archived
    BY <1>9, DeletedIsArchived DEF DeleteChunk, DeleteFails
  <2>2. QED
    BY <1>9, <1>frame, <2>1 DEF DeleteChunk, DeleteFails, eraseVars
<1>10. CASE Crash
  <2>1. pc = "delete" => current \subseteq Archived
    BY DeletedIsArchived
  <2>2. PICK part \in SUBSET (IF pc = "delete" THEN current ELSE {}),
             some \in SUBSET UNION {targets[u] : u \in Erasures} :
               /\ live' = live \ (part \cup some)
               /\ erased' = erased \cup (some \cap live)
    BY <1>10 DEF Crash
  <2>3. part \subseteq Archived
    BY <2>1
  <2>4. QED
    BY <1>10, <1>frame, <2>2, <2>3 DEF Crash
<1>11. CASE UNCHANGED vars
  BY <1>11, <1>frame DEF vars, engineVars, eraseVars
<1>12. QED
  BY <1>4, <1>5, <1>6, <1>7, <1>8, <1>9, <1>10, <1>11 DEF Next, ArchiverStep

(* No event vanishes: archive_old_events deletes only what the archive can *)
(* give back, now and after a restart, whichever step fails and wherever   *)
(* the process dies, if manifest lines are written whole or not at all.    *)
THEOREM NothingVanishes ==
  ASSUME ~TornWrites
  PROVE  Spec => []NoEventVanishes
<1>1. Init => VanishInv
  BY DEF Init, VanishInv, BackedInv, ManifestBacked, ListedInv, ListedSurvives,
         NoEventVanishes, Readable, NoTail
<1>2. VanishInv /\ [Next]_vars => VanishInv'
  BY NextVanishInv
<1>3. VanishInv => NoEventVanishes
  BY DEF VanishInv
<1>4. QED
  BY <1>1, <1>2, <1>3, PTL DEF Spec

-----------------------------------------------------------------------------
(* Chunks.                                                                 *)

(* The quotient by the batch size.                                         *)
LEMMA Quotients ==
  ASSUME NEW n \in Nat, NEW q, q = n \div BatchSize
  PROVE  q \in Nat /\ n \in q * BatchSize .. q * BatchSize + BatchSize - 1
<1>1. BatchSize \in Nat \ {0}
  BY ArchiveAssumption
<1>2. q \in Nat /\ q * BatchSize <= n /\ n < q * BatchSize + BatchSize
  BY <1>1
<1> QED BY <1>1, <1>2

(* Events of one group have ranks, and a later one has a higher rank.      *)
LEMMA RanksDiffer ==
  ASSUME NEW S \in SUBSET Events, IsFiniteSet(S)
  PROVE  /\ \A x \in S : Rank(x, S) \in Nat
         /\ \A x, y \in S : Group(x, S) = Group(y, S) /\ x < y => Rank(x, S) < Rank(y, S)
<1> DEFINE Below(x) == {z \in Group(x, S) : z < x}
<1>1. ASSUME NEW x \in S
      PROVE  IsFiniteSet(Below(x)) /\ Cardinality(Below(x)) \in Nat /\ Rank(x, S) = Cardinality(Below(x))
  <2>1. Below(x) \in SUBSET S
    BY DEF Group
  <2>2. IsFiniteSet(Below(x))
    BY <2>1, FS_Subset
  <2> QED BY <2>2, FS_CardinalityType DEF Rank
<1>2. ASSUME NEW x \in S, NEW y \in S, Group(x, S) = Group(y, S), x < y
      PROVE  Rank(x, S) < Rank(y, S)
  <2>1. x \in Nat /\ y \in Nat /\ S \subseteq Nat
    BY ArchiveAssumption
  <2>2. x \in Group(y, S)
    BY <1>2 DEF Group
  <2>3. Below(x) \subseteq Below(y) /\ x \in Below(y) /\ x \notin Below(x)
    <3>1. Group(y, S) \subseteq Nat
      BY <2>1 DEF Group
    <3>2. \A z \in Group(y, S) : z < x => z < y
      BY <3>1, <2>1, <1>2
    <3>3. Below(x) = {z \in Group(y, S) : z < x}
      BY <1>2
    <3>4. ~(x < x)
      BY <2>1
    <3> QED BY <3>2, <3>3, <3>4, <2>2, <1>2
  <2>4. Cardinality(Below(x)) <= Cardinality(Below(y))
        /\ Cardinality(Below(x)) # Cardinality(Below(y))
    <3>1. Below(x) \in SUBSET Below(y)
      BY <2>3
    <3>2. IsFiniteSet(Below(y)) /\ Below(x) # Below(y)
      BY <2>3, <1>1
    <3> HIDE DEF Below
    <3> QED BY <3>1, <3>2, FS_Subset
  <2>5. Cardinality(Below(x)) \in Nat /\ Cardinality(Below(y)) \in Nat
    BY <1>1
  <2> HIDE DEF Below
  <2>6. Cardinality(Below(x)) < Cardinality(Below(y))
    BY <2>4, <2>5
  <2> QED BY <2>6, <1>1
<1> QED BY <1>1, <1>2

(* A chunk has at most BatchSize events.                                   *)
LEMMA ChunkFits ==
  ASSUME NEW S \in SUBSET Events, IsFiniteSet(S), NEW e \in S
  PROVE  Cardinality(ChunkOf(e, S)) <= BatchSize
<1> DEFINE c == ChunkOf(e, S)
           q == Rank(e, S) \div BatchSize
           T == q * BatchSize .. q * BatchSize + BatchSize - 1
           f == [x \in c |-> Rank(x, S)]
<1>1. BatchSize \in Nat \ {0} /\ S \subseteq Nat
  BY ArchiveAssumption
<1>2. /\ \A x \in S : Rank(x, S) \in Nat
      /\ \A x, y \in S : Group(x, S) = Group(y, S) /\ x < y => Rank(x, S) < Rank(y, S)
  BY RanksDiffer
<1>3. \A x \in c : x \in S /\ Rank(x, S) \div BatchSize = q /\ Group(x, S) = Group(e, S)
  BY DEF ChunkOf, Group
<1>4. q \in Nat
  BY <1>2, Quotients
<1> HIDE DEF q, c
<1>5. \A x \in c : Rank(x, S) \in T
  BY <1>2, <1>3, Quotients
<1>6. \A x, y \in c : x # y => Rank(x, S) # Rank(y, S)
  <2> SUFFICES ASSUME NEW x \in c, NEW y \in c, x # y PROVE Rank(x, S) # Rank(y, S)
    OBVIOUS
  <2>1. x \in Nat /\ y \in Nat /\ x \in S /\ y \in S /\ Group(x, S) = Group(y, S)
    BY <1>1, <1>3
  <2>2. (x < y \/ y < x) /\ Rank(x, S) \in Nat /\ Rank(y, S) \in Nat
    BY <2>1, <1>2
  <2> QED BY <2>1, <2>2, <1>2
<1>7. f \in Injection(c, T)
  BY <1>5, <1>6 DEF Injection, IsInjective
<1>8. IsFiniteSet(T) /\ Cardinality(T) = BatchSize
  <2>1. q * BatchSize \in Nat
    BY <1>1, <1>4
  <2>2. \A a \in Nat : IsFiniteSet(a .. a + BatchSize - 1) /\ Cardinality(a .. a + BatchSize - 1) = BatchSize
    <3> TAKE a \in Nat
    <3>1. a + BatchSize - 1 \in Int /\ ~(a > a + BatchSize - 1) /\ (a + BatchSize - 1) - a + 1 = BatchSize
      BY <1>1
    <3> QED BY <3>1, FS_Interval
  <2> QED BY <2>1, <2>2
<1> HIDE DEF T, f
<1>9. Cardinality(c) <= Cardinality(T)
  BY <1>7, <1>8, FS_Injection
<1> QED BY <1>8, <1>9 DEF c

(* The chunks of a snapshot partition it, each of one user and day.        *)
LEMMA ChunksPartition ==
  ASSUME NEW S \in SUBSET Events, IsFiniteSet(S)
  PROVE  /\ \A c \in Chunks(S) :
              /\ Cardinality(c) <= BatchSize
              /\ c # {}
              /\ \A x, y \in c : UserOf[x] = UserOf[y] /\ DayOf(x) = DayOf(y)
         /\ \A c, d \in Chunks(S) : c # d => c \cap d = {}
         /\ UNION Chunks(S) = S
<1>1. ASSUME NEW e \in S
      PROVE  /\ Cardinality(ChunkOf(e, S)) <= BatchSize
             /\ e \in ChunkOf(e, S)
             /\ \A x, y \in ChunkOf(e, S) : UserOf[x] = UserOf[y] /\ DayOf(x) = DayOf(y)
  <2>1. e \in ChunkOf(e, S)
    BY DEF ChunkOf, Group
  <2>2. \A x, y \in ChunkOf(e, S) : UserOf[x] = UserOf[y] /\ DayOf(x) = DayOf(y)
    BY DEF ChunkOf, Group
  <2> QED BY <2>1, <2>2, ChunkFits
<1>2. ASSUME NEW e \in S, NEW x \in ChunkOf(e, S)
      PROVE  x \in S /\ ChunkOf(x, S) = ChunkOf(e, S)
  <2>1. x \in S /\ Group(x, S) = Group(e, S) /\ Rank(x, S) \div BatchSize = Rank(e, S) \div BatchSize
    BY DEF ChunkOf, Group
  <2> QED BY <2>1 DEF ChunkOf
<1>3. ASSUME NEW c \in Chunks(S), NEW d \in Chunks(S), NEW x \in c, x \in d PROVE c = d
  <2>1. PICK e \in S : c = ChunkOf(e, S)
    BY DEF Chunks
  <2>2. PICK g \in S : d = ChunkOf(g, S)
    BY DEF Chunks
  <2>3. x \in ChunkOf(e, S) /\ x \in ChunkOf(g, S)
    BY <1>3, <2>1, <2>2
  <2> QED BY <2>1, <2>2, <2>3, <1>2
<1>4. \A c \in Chunks(S) : \E e \in S : c = ChunkOf(e, S)
  BY DEF Chunks
<1>5. \A c, d \in Chunks(S) : c # d => c \cap d = {}
  BY <1>3
<1>6. ASSUME NEW c \in Chunks(S)
      PROVE  /\ Cardinality(c) <= BatchSize
             /\ c # {}
             /\ \A x, y \in c : UserOf[x] = UserOf[y] /\ DayOf(x) = DayOf(y)
  <2>1. PICK e \in S : c = ChunkOf(e, S)
    BY <1>4
  <2> QED BY <2>1, <1>1
<1>7. UNION Chunks(S) = S
  <2>1. \A e \in S : e \in ChunkOf(e, S) /\ ChunkOf(e, S) \in Chunks(S)
    BY <1>1 DEF Chunks
  <2>2. \A c \in Chunks(S) : c \subseteq S
    BY <1>2, <1>4
  <2> QED BY <2>1, <2>2
<1> QED BY <1>5, <1>6, <1>7

(* What the archiver and the erasures know of the engines: they hold       *)
(* finitely many of the events ingested, and no chunk is at work outside   *)
(* of a cycle.                                                             *)
LiveInv ==
  /\ IsFiniteSet(ingested)
  /\ live \subseteq ingested

(* The chunks left to a cycle and the one at work are disjoint parts of    *)
(* partitions, small enough.                                               *)
PlanSound ==
  /\ \A c \in plan \cup {current} :
       /\ Cardinality(c) <= BatchSize
       /\ \A x, y \in c : UserOf[x] = UserOf[y] /\ DayOf(x) = DayOf(y)
  /\ \A c, d \in plan : c # d => c \cap d = {}
  /\ \A c \in plan : c # {} /\ c \cap current = {}

PlanInv ==
  /\ PlanSound
  /\ pc \in {"idle", "upload"} => current = {}

(* Events come in one at a time, and only ingested events are live.        *)
LEMMA NextLiveInv == LiveInv /\ [Next]_vars => LiveInv'
<1> SUFFICES ASSUME LiveInv, [Next]_vars PROVE LiveInv'
  OBVIOUS
<1>1. CASE \E e \in Events : Ingest(e)
  <2>1. PICK e \in Events : Ingest(e)
    BY <1>1
  <2>2. ingested' = ingested \cup {e} /\ live' = live \cup {e}
    BY <2>1 DEF Ingest
  <2>3. IsFiniteSet(ingested \cup {e})
    BY FS_AddElement DEF LiveInv
  <2> QED BY <2>2, <2>3 DEF LiveInv
<1>2. CASE ~\E e \in Events : Ingest(e)
  <2>1. ingested' = ingested /\ live' \subseteq live
    BY <1>2 DEF Next, ArchiverStep, Gc, BeginErase, EraseQuery, EraseDelete, EraseFails, Tick,
         StartCycle, EndCycle, Upload, UploadFails, Record, RecordFails, DeleteChunk,
         DeleteFails, Crash, vars, engineVars
  <2> QED BY <2>1 DEF LiveInv
<1> QED BY <1>1, <1>2

(* A plan that loses chunks, and a chunk at work that becomes none, keep   *)
(* the partition.                                                          *)
LEMMA PlanShrinks ==
  ASSUME PlanInv, plan' \subseteq plan, current' = current \/ current' = {},
         pc' \in {"idle", "upload"} => current' = {}
  PROVE  PlanInv'
<1>1. Cardinality({}) = 0 /\ BatchSize >= 0
  BY FS_EmptySet, ArchiveAssumption
<1>2. ASSUME NEW c \in plan' \cup {current'}
      PROVE  /\ Cardinality(c) <= BatchSize
             /\ \A x, y \in c : UserOf[x] = UserOf[y] /\ DayOf(x) = DayOf(y)
  <2>1. c \in plan \cup {current} \/ c = {}
    OBVIOUS
  <2> QED BY <2>1, <1>1 DEF PlanInv, PlanSound
<1>3. \A c, d \in plan' : c # d => c \cap d = {}
  BY DEF PlanInv, PlanSound
<1>4. \A c \in plan' : c # {} /\ c \cap current' = {}
  BY DEF PlanInv, PlanSound
<1> QED BY <1>2, <1>3, <1>4 DEF PlanInv, PlanSound, DayOf

(* A cycle plans a partition, and takes its chunks one at a time.          *)
LEMMA NextPlanInv == TypeOK /\ LiveInv /\ PlanInv /\ [Next]_vars => PlanInv'
<1> SUFFICES ASSUME TypeOK, LiveInv, PlanInv, [Next]_vars PROVE PlanInv'
  OBVIOUS
<1>idle. ASSUME UNCHANGED cycleVars PROVE PlanInv'
  BY <1>idle, PlanShrinks DEF cycleVars, PlanInv
<1>1. CASE \E e \in Events : Ingest(e)
  BY <1>1, <1>idle DEF Ingest
<1>2. CASE Gc
  BY <1>2, <1>idle DEF Gc
<1>3. CASE \E u \in Erasures : BeginErase(u) \/ EraseQuery(u) \/ EraseDelete(u) \/ EraseFails(u)
  BY <1>3, <1>idle DEF BeginErase, EraseQuery, EraseDelete, EraseFails
<1>4. CASE Tick
  BY <1>4, <1>idle DEF Tick
<1>5. CASE UNCHANGED vars
  BY <1>5, <1>idle DEF vars
<1>6. CASE StartCycle
  <2>1. pc = "idle" /\ pc' = "upload" /\ plan' = Chunks(Eligible) /\ current' = current
    BY <1>6 DEF StartCycle
  <2>2. current = {}
    BY <2>1 DEF PlanInv
  <2>3. Eligible \in SUBSET Events /\ IsFiniteSet(Eligible)
    <3>1. Eligible \in SUBSET ingested /\ Eligible \in SUBSET Events
      BY DEF Eligible, LiveInv, TypeOK
    <3> QED BY <3>1, FS_Subset DEF LiveInv
  <2>4. /\ \A c \in plan' :
              /\ Cardinality(c) <= BatchSize
              /\ c # {}
              /\ \A x, y \in c : UserOf[x] = UserOf[y] /\ DayOf(x) = DayOf(y)
        /\ \A c, d \in plan' : c # d => c \cap d = {}
    BY <2>1, <2>3, ChunksPartition
  <2>5. Cardinality(current') <= BatchSize
    BY <2>1 DEF PlanInv, PlanSound
  <2> QED BY <2>1, <2>2, <2>4, <2>5 DEF PlanInv, PlanSound, DayOf
<1>7. CASE Upload
  <2>1. PICK c \in plan : current' = c /\ plan' = plan \ {c} /\ pc' = "record"
    BY <1>7 DEF Upload
  <2> QED BY <2>1 DEF PlanInv, PlanSound, DayOf
<1>8. CASE UploadFails
  BY <1>8, PlanShrinks DEF UploadFails, PlanInv
<1>9. CASE Record \/ RecordFails \/ DeleteChunk \/ DeleteFails \/ EndCycle \/ Crash
  BY <1>9, PlanShrinks DEF Record, RecordFails, DeleteChunk, DeleteFails, EndCycle, Crash, PlanInv
<1> QED BY <1>1, <1>2, <1>3, <1>4, <1>5, <1>6, <1>7, <1>8, <1>9 DEF Next, ArchiverStep

(* The engines hold finitely many events in every reachable state.         *)
LEMMA LiveInvariance == Spec => []LiveInv
<1>1. Init => LiveInv
  BY FS_EmptySet DEF Init, LiveInv
<1> QED BY <1>1, NextLiveInv, PTL DEF Spec

(* Every cycle of archive_old_events works through disjoint chunks of one  *)
(* user and day each, none larger than archive_batch_size and none         *)
(* archived twice, and leaves no eligible event out, for every set of      *)
(* events and every batch size.                                            *)
THEOREM PlansPartition == Spec => []PlanPartitions
<1>1. Init => PlanInv
  BY FS_EmptySet, ArchiveAssumption DEF Init, PlanInv, PlanSound
<1>2. TypeOK /\ LiveInv /\ PlanInv => PlanPartitions
  <2> SUFFICES ASSUME TypeOK, LiveInv, PlanInv PROVE PlanPartitions
    OBVIOUS
  <2>1. Eligible \in SUBSET Events /\ IsFiniteSet(Eligible)
    <3>1. Eligible \in SUBSET ingested /\ Eligible \in SUBSET Events
      BY DEF Eligible, LiveInv, TypeOK
    <3> QED BY <3>1, FS_Subset DEF LiveInv
  <2>2. UNION Chunks(Eligible) = Eligible
    BY <2>1, ChunksPartition
  <2> QED BY <2>2 DEF PlanInv, PlanSound, PlanPartitions
<1> QED BY <1>1, <1>2, NextPlanInv, LiveInvariance, ArchiveTypeCorrect, PTL DEF Spec

-----------------------------------------------------------------------------
(* Erasure.                                                                *)

(* The newest n of a finite set of numbers are all of it, or at least n.   *)
LEMMA NewestPage ==
  ASSUME NEW S \in SUBSET Nat, IsFiniteSet(S), NEW n \in Nat,
         NEW page, page = {e \in S : Cardinality({x \in S : x > e}) < n},
         Cardinality(page) < n
  PROVE  page = S
<1> SUFFICES ASSUME page # S PROVE FALSE
  OBVIOUS
<1> DEFINE Above(e) == {x \in S : x > e}
           rest == S \ page
           T == {Above(e) : e \in rest}
<1>1. page \in SUBSET S /\ rest # {} /\ rest \subseteq S
  OBVIOUS
<1>2. \A e \in S : Above(e) \in SUBSET S /\ IsFiniteSet(Above(e)) /\ Cardinality(Above(e)) \in Nat
  <2> TAKE e \in S
  <2>1. Above(e) \in SUBSET S
    OBVIOUS
  <2> HIDE DEF Above
  <2> QED BY <2>1, FS_Subset, FS_CardinalityType
<1>3. T # {} /\ T \subseteq FiniteSubsetsOf(S)
  <2> HIDE DEF Above
  <2>1. \A e \in rest : Above(e) \in FiniteSubsetsOf(S)
    BY <1>1, <1>2 DEF FiniteSubsetsOf
  <2> HIDE DEF rest
  <2> QED BY <1>1, <2>1
<1>4. PICK U \in T : \A V \in T : ~(<<V, U>> \in StrictSubsetOrdering(S))
  <2>1. IsWellFoundedOn(StrictSubsetOrdering(S), FiniteSubsetsOf(S))
    BY FS_StrictSubsetOrderingWellFounded
  <2> HIDE DEF T
  <2> QED BY <2>1, <1>3, WFMin
<1>5. PICK m \in rest : U = Above(m)
  OBVIOUS
<1>6. ASSUME NEW x \in Above(m) PROVE x \in page
  <2> SUFFICES ASSUME x \in rest PROVE FALSE
    BY <1>1
  <2>1. Above(x) \in T
    OBVIOUS
  <2>2. x \in Nat /\ m \in Nat /\ x > m
    BY <1>1
  <2>3. Above(x) \subseteq Above(m) /\ x \in Above(m) /\ x \notin Above(x)
    <3>1. \A y \in S : y > x => y > m
      BY <2>2
    <3>2. ~(x > x)
      BY <2>2
    <3> QED BY <3>1, <3>2
  <2>4. Above(x) # Above(m)
    BY <2>3
  <2>5. Above(x) \in SUBSET S /\ Above(m) \in SUBSET S
    BY <1>1
  <2> HIDE DEF Above, T
  <2>6. <<Above(x), Above(m)>> \in StrictSubsetOrdering(S)
    BY <2>3, <2>4, <2>5 DEF StrictSubsetOrdering
  <2> QED BY <2>1, <2>6, <1>4, <1>5
<1>7. Above(m) \in SUBSET page
  BY <1>6
<1>8. ~(Cardinality(Above(m)) < n)
  <2>1. m \in S /\ m \notin page
    BY <1>1
  <2> QED BY <2>1
<1>9. IsFiniteSet(page) /\ Cardinality(page) \in Nat
  BY <1>1, FS_Subset, FS_CardinalityType
<1>10. Cardinality(Above(m)) \in Nat
  BY <1>1, <1>2
<1> HIDE DEF Above
<1>11. Cardinality(Above(m)) <= Cardinality(page)
  BY <1>7, <1>9, FS_Subset
<1> QED BY <1>8, <1>9, <1>10, <1>11

(* What is known of a request for user u: what it promised is of u and was *)
(* ingested, a page that is not full holds all that is left of it, and     *)
(* nothing is left when it is done.                                        *)
EraseInv ==
  \A u \in Erasures :
    /\ promised[u] \subseteq ingested
    /\ \A e \in promised[u] : UserOf[e] = u
    /\ erasing[u] = "delete" /\ Cardinality(targets[u]) < EraseBatch
         => promised[u] \cap live \subseteq targets[u]
    /\ erasing[u] = "done" => promised[u] \cap live = {}

(* Steps that are no part of an erasure: what is promised and still live   *)
(* can only become less.                                                   *)
LEMMA EraseFrame ==
  ASSUME EraseInv, UNCHANGED <<erasing, targets, promised>>, ingested \subseteq ingested',
         live' \cap ingested \subseteq live
  PROVE  EraseInv'
BY DEF EraseInv

(* No step leaves behind what a successful erasure has promised to delete. *)
LEMMA NextEraseInv == TypeOK /\ LiveInv /\ EraseInv /\ [Next]_vars => EraseInv'
<1> SUFFICES ASSUME TypeOK, LiveInv, EraseInv, [Next]_vars PROVE EraseInv'
  OBVIOUS
<1>1. CASE \E e \in Events : Ingest(e)
  BY <1>1, EraseFrame DEF Ingest, eraseVars
<1>2. CASE Gc
  BY <1>2, EraseFrame DEF Gc, eraseVars
<1>3. CASE Tick
  BY <1>3, EraseFrame DEF Tick, eraseVars
<1>4. CASE UNCHANGED vars
  BY <1>4, EraseFrame DEF vars, engineVars, eraseVars
<1>5. CASE ArchiverStep
  BY <1>5, EraseFrame DEF ArchiverStep, StartCycle, EndCycle, Upload, UploadFails, Record,
                          RecordFails, DeleteChunk, DeleteFails, engineVars, eraseVars
<1>6. CASE Crash
  <2>1. /\ ingested' = ingested /\ promised' = promised /\ live' \subseteq live
        /\ erasing' = [u \in Erasures |->
                         IF erasing[u] \in {"query", "delete"} THEN "failed" ELSE erasing[u]]
    BY <1>6 DEF Crash
  <2>2. \A u \in Erasures : erasing'[u] # "delete" /\ (erasing'[u] = "done" => erasing[u] = "done")
    BY <2>1
  <2> QED BY <2>1, <2>2 DEF EraseInv
<1>7. ASSUME NEW u \in Erasures, BeginErase(u) PROVE EraseInv'
  <2>1. /\ ingested' = ingested /\ live' = live /\ targets' = targets
        /\ erasing' = [erasing EXCEPT ![u] = "query"]
        /\ promised' = [promised EXCEPT ![u] = {e \in live : UserOf[e] = u}]
    BY <1>7 DEF BeginErase, engineVars
  <2>2. /\ erasing'[u] = "query" /\ promised'[u] = {e \in live : UserOf[e] = u}
        /\ \A v \in Erasures : v # u => erasing'[v] = erasing[v] /\ promised'[v] = promised[v]
    BY <2>1 DEF TypeOK
  <2>3. promised'[u] \subseteq ingested
    BY <2>2 DEF LiveInv
  <2> QED BY <2>1, <2>2, <2>3 DEF EraseInv
<1>8. ASSUME NEW u \in Erasures, EraseQuery(u) PROVE EraseInv'
  <2> DEFINE mine == {e \in live : UserOf[e] = u}
             page == {e \in mine : Cardinality({x \in mine : x > e}) < EraseBatch}
  <2>1. /\ ingested' = ingested /\ live' = live /\ promised' = promised
        /\ targets' = [targets EXCEPT ![u] = page]
        /\ erasing' = [erasing EXCEPT ![u] = IF page = {} THEN "done" ELSE "delete"]
    BY <1>8 DEF EraseQuery, engineVars
  <2>2. mine \in SUBSET Nat /\ mine \in SUBSET ingested
    BY ArchiveAssumption DEF TypeOK, LiveInv
  <2>3. IsFiniteSet(mine) /\ EraseBatch \in Nat \ {0}
    BY <2>2, FS_Subset, ArchiveAssumption DEF LiveInv
  <2>4. promised[u] \cap live \subseteq mine
    BY DEF EraseInv
  <2> HIDE DEF mine
  <2>5. Cardinality(page) < EraseBatch => page = mine
    BY <2>2, <2>3, NewestPage
  <2>6. page = {} => mine = {}
    <3>1. page = {} => Cardinality(page) < EraseBatch
      <4>1. Cardinality({}) = 0
        BY FS_EmptySet
      <4> HIDE DEF page
      <4> QED BY <4>1, <2>3
    <3> HIDE DEF page
    <3> QED BY <3>1, <2>5
  <2> HIDE DEF page
  <2>7. /\ targets'[u] = page
        /\ erasing'[u] = IF page = {} THEN "done" ELSE "delete"
        /\ \A v \in Erasures : v # u => erasing'[v] = erasing[v] /\ targets'[v] = targets[v]
    BY <2>1 DEF TypeOK
  <2>8. ASSUME NEW v \in Erasures
        PROVE  /\ promised[v] \subseteq ingested
               /\ \A e \in promised[v] : UserOf[e] = v
               /\ erasing'[v] = "delete" /\ Cardinality(targets'[v]) < EraseBatch
                    => promised[v] \cap live \subseteq targets'[v]
               /\ erasing'[v] = "done" => promised[v] \cap live = {}
    <3>1. CASE v = u
      <4>1. promised[u] \subseteq ingested /\ \A e \in promised[u] : UserOf[e] = u
        BY DEF EraseInv
      <4>2. CASE page = {}
        BY <3>1, <4>1, <4>2, <2>4, <2>6, <2>7
      <4>3. CASE page # {}
        BY <3>1, <4>1, <4>3, <2>4, <2>5, <2>7
      <4> QED BY <4>2, <4>3
    <3>2. CASE v # u
      BY <3>2, <2>7 DEF EraseInv
    <3> QED BY <3>1, <3>2
  <2> QED BY <2>1, <2>8 DEF EraseInv
<1>9. ASSUME NEW u \in Erasures, EraseDelete(u) PROVE EraseInv'
  <2>1. /\ ingested' = ingested /\ promised' = promised /\ live' = live \ targets[u]
        /\ erasing[u] = "delete"
        /\ targets' = [targets EXCEPT ![u] = {}]
        /\ erasing' = [erasing EXCEPT ![u] =
                         IF Cardinality(targets[u]) < EraseBatch THEN "done" ELSE "query"]
    BY <1>9 DEF EraseDelete
  <2>2. /\ erasing'[u] = IF Cardinality(targets[u]) < EraseBatch THEN "done" ELSE "query"
        /\ \A v \in Erasures : v # u => erasing'[v] = erasing[v] /\ targets'[v] = targets[v]
    BY <2>1 DEF TypeOK
  <2> QED BY <2>1, <2>2 DEF EraseInv
<1>10. ASSUME NEW u \in Erasures, EraseFails(u) PROVE EraseInv'
  <2>1. /\ ingested' = ingested /\ promised' = promised /\ live' \subseteq live
        /\ targets' = [targets EXCEPT ![u] = {}]
        /\ erasing' = [erasing EXCEPT ![u] = "failed"]
    BY <1>10 DEF EraseFails
  <2>2. /\ erasing'[u] = "failed"
        /\ \A v \in Erasures : v # u => erasing'[v] = erasing[v] /\ targets'[v] = targets[v]
    BY <2>1 DEF TypeOK
  <2> QED BY <2>1, <2>2 DEF EraseInv
<1> QED BY <1>1, <1>2, <1>3, <1>4, <1>5, <1>6, <1>7, <1>8, <1>9, <1>10 DEF Next

(* When delete_events_bulk reports success, everything of the user that    *)
(* was live when the request came in is gone from the engines, for every   *)
(* page size and whatever is ingested, archived or collected meanwhile.    *)
THEOREM ErasuresComplete == Spec => []ErasureComplete
<1>1. Init => EraseInv
  BY DEF Init, EraseInv
<1>2. EraseInv => ErasureComplete
  BY DEF EraseInv, ErasureComplete
<1> QED BY <1>1, <1>2, NextEraseInv, LiveInvariance, ArchiveTypeCorrect, PTL DEF Spec

-----------------------------------------------------------------------------
(* The refinement of TieredStore.                                          *)

(* Chunks are made of ingested events, wherever they are on their way to   *)
(* the archive; a page of an erasure is of its user, and is held only      *)
(* until it is deleted.                                                    *)
KnownInv ==
  /\ \A c \in plan \cup {current} \cup index \cup Readable : c \subseteq ingested
  /\ \A u \in Erasures :
       /\ \A e \in targets[u] : UserOf[e] = u
       /\ targets[u] # {} => erasing[u] = "delete"

(* What the mapping to TieredStore needs to know of a state.               *)
TierInv == TypeOK /\ LiveInv /\ EraseInv /\ BackedInv /\ ListedInv /\ KnownInv

(* Steps that bring no new chunk and no new page.                          *)
LEMMA KnownFrame ==
  ASSUME KnownInv, ingested \subseteq ingested', UNCHANGED <<erasing, targets>>,
         \A c \in plan' \cup {current'} \cup index' \cup Readable' :
           c \in plan \cup {current} \cup index \cup Readable \/ c = {}
  PROVE  KnownInv'
BY DEF KnownInv

(* Every chunk of a plan is made of events of the snapshot.                *)
LEMMA ChunksWithin ==
  ASSUME NEW S, NEW c \in Chunks(S)
  PROVE  c \subseteq S
BY DEF Chunks, ChunkOf, Group

(* No step archives an event that was never stored, or erases another      *)
(* user's.                                                                 *)
LEMMA NextKnownInv ==
  ASSUME ~TornWrites, TypeOK, LiveInv, ListedInv, KnownInv, [Next]_vars
  PROVE  KnownInv'
<1>1. CASE \E e \in Events : Ingest(e)
  BY <1>1, KnownFrame, SameReads DEF Ingest, cycleVars, archiveVars, eraseVars
<1>2. CASE Gc \/ Tick
  BY <1>2, KnownFrame, SameReads DEF Gc, Tick, cycleVars, archiveVars, eraseVars
<1>3. CASE UNCHANGED vars
  BY <1>3, KnownFrame, SameReads DEF vars, engineVars, cycleVars, archiveVars, eraseVars
<1>4. CASE StartCycle
  <2>1. plan' = Chunks(Eligible) /\ Eligible \subseteq ingested
    BY <1>4 DEF StartCycle, Eligible, LiveInv
  <2>2. \A c \in plan' : c \subseteq ingested
    BY <2>1, ChunksWithin
  <2>3. /\ current' = current /\ index' = index /\ Readable' = Readable
        /\ ingested' = ingested /\ UNCHANGED <<erasing, targets>>
    BY <1>4, SameReads DEF StartCycle, engineVars, archiveVars, eraseVars
  <2> QED BY <2>2, <2>3 DEF KnownInv
<1>5. CASE EndCycle \/ DeleteChunk \/ DeleteFails
  BY <1>5, KnownFrame, SameReads DEF EndCycle, DeleteChunk, DeleteFails, engineVars,
                                     archiveVars, eraseVars
<1>6. CASE Upload \/ UploadFails
  <2>1. Readable' = Readable
    BY <1>6, SameReads DEF Upload, UploadFails
  <2> QED BY <1>6, <2>1, KnownFrame DEF Upload, UploadFails, engineVars, eraseVars
<1>7. CASE Record \/ RecordFails
  <2>1. Readable' \subseteq Readable \cup {current}
    BY <1>7, WholeLineReads, SameReads DEF ListedInv, Record, RecordFails, TearLine
  <2> QED BY <1>7, <2>1, KnownFrame DEF Record, RecordFails, engineVars, eraseVars
<1>8. CASE Crash
  <2>1. Readable' \subseteq Readable \cup {current}
    BY <1>8, WholeLineReads, SameReads DEF ListedInv, Crash, TearLine
  <2>2. /\ index' = Readable' /\ plan' = {} /\ current' = {} /\ ingested' = ingested
        /\ targets' = [u \in Erasures |-> {}]
    BY <1>8 DEF Crash
  <2> QED BY <2>1, <2>2 DEF KnownInv
<1>9. ASSUME NEW u \in Erasures,
             BeginErase(u) \/ EraseQuery(u) \/ EraseDelete(u) \/ EraseFails(u)
      PROVE  KnownInv'
  <2>1. /\ ingested' = ingested /\ plan' = plan /\ current' = current /\ index' = index
        /\ Readable' = Readable
    BY <1>9, SameReads DEF BeginErase, EraseQuery, EraseDelete, EraseFails, engineVars,
                           cycleVars, archiveVars
  <2>2. /\ \A e \in targets'[u] : UserOf[e] = u
        /\ targets'[u] # {} => erasing'[u] = "delete"
    <3>1. CASE BeginErase(u)
      BY <3>1 DEF BeginErase, TypeOK, KnownInv
    <3>2. CASE EraseQuery(u)
      BY <3>2 DEF EraseQuery, TypeOK
    <3>3. CASE EraseDelete(u) \/ EraseFails(u)
      BY <3>3 DEF EraseDelete, EraseFails, TypeOK
    <3> QED BY <1>9, <3>1, <3>2, <3>3
  <2>3. \A v \in Erasures : v # u => erasing'[v] = erasing[v] /\ targets'[v] = targets[v]
    BY <1>9 DEF BeginErase, EraseQuery, EraseDelete, EraseFails, TypeOK
  <2> QED BY <2>1, <2>2, <2>3 DEF KnownInv
<1> QED BY <1>1, <1>2, <1>3, <1>4, <1>5, <1>6, <1>7, <1>8, <1>9 DEF Next, ArchiverStep

(* Everything the mapping needs to know is kept by every step.             *)
LEMMA NextTierInv ==
  ASSUME ~TornWrites, TierInv, [Next]_vars
  PROVE  TierInv'
BY NextType, NextLiveInv, NextEraseInv, NextBackedInv, NextListedInv, NextKnownInv DEF TierInv

(* The initial state is one of TieredStore.                                *)
LEMMA InitTiers == Init => Tiers!TierInit
<1> SUFFICES ASSUME Init PROVE Tiers!TierInit
  OBVIOUS
<1>1. Archived = {}
  BY DEF Init, Archived
<1>2. [u \in Erasures |-> Request(u)] = [u \in Erasures |-> "no"]
  BY DEF Init, Request
<1> QED BY <1>1, <1>2 DEF Init, Tiers!TierInit

(* A request keeps its standing while erasing does.                        *)
LEMMA SameRequests ==
  ASSUME erasing' = erasing
  PROVE  [u \in Erasures |-> Request(u)]' = [u \in Erasures |-> Request(u)]
BY DEF Request

(* The archive stays the same while its three parts do.                    *)
LEMMA SameArchive ==
  ASSUME UNCHANGED archiveVars
  PROVE  Archived' = Archived
BY SameReads DEF archiveVars, Archived

(* What the archive has after a step, it was given.                        *)
LEMMA ArchivedKnown ==
  ASSUME KnownInv'
  PROVE  Archived' \subseteq ingested'
BY DEF KnownInv, Archived

(* The standing of one request changes with erasing.                       *)
LEMMA MoveRequest ==
  ASSUME TypeOK, NEW u \in Erasures, NEW to, NEW r,
         erasing' = [erasing EXCEPT ![u] = to],
         r = IF to \in {"query", "delete"} THEN "open" ELSE to
  PROVE  [v \in Erasures |-> Request(v)]' = [[v \in Erasures |-> Request(v)] EXCEPT ![u] = r]
BY DEF TypeOK, Request

(* A step that changes nothing the mapping shows.                          *)
LEMMA StutterRefines ==
  ASSUME UNCHANGED engineVars, UNCHANGED archiveVars, UNCHANGED <<erasing, promised>>
  PROVE  UNCHANGED Tiers!tierVars
BY SameArchive, SameRequests DEF Tiers!tierVars, engineVars

(* A step that works on the archive alone copies what it adds.             *)
LEMMA CopyRefines ==
  ASSUME TypeOK', KnownInv', Archived \subseteq Archived', UNCHANGED engineVars,
         UNCHANGED <<erasing, promised>>
  PROVE  Tiers!TierNext
<1> DEFINE S == Archived'
<1>1. S \subseteq ingested' /\ S \in SUBSET Events
  BY ArchivedKnown DEF TypeOK
<1>2. Archived' = Archived \cup S
  OBVIOUS
<1>3. Tiers!Copy(S)
  BY <1>1, <1>2, SameRequests DEF Tiers!Copy, engineVars
<1> QED BY <1>1, <1>3 DEF Tiers!TierNext

(* DeleteChunk and DeleteFails evict events that are archived.             *)
LEMMA EvictRefines ==
  ASSUME TypeOK, NEW part \in SUBSET Archived, live' = live \ part,
         UNCHANGED <<now, ingested>>, UNCHANGED archiveVars, UNCHANGED <<erasing, promised>>
  PROVE  Tiers!TierNext
<1> DEFINE S == part \cap live
<1>1. S \in SUBSET Events /\ S \subseteq Archived /\ live' = live \ S
  BY DEF TypeOK
<1> HIDE DEF S
<1>2. Tiers!Evict(S)
  BY <1>1, SameArchive, SameRequests DEF Tiers!Evict
<1> QED BY <1>1, <1>2 DEF Tiers!TierNext

(* A step of an open request deletes events of its user only, and ends in  *)
(* success only when nothing it owes is left.                              *)
LEMMA EraseRefines ==
  ASSUME TypeOK, NEW u \in Erasures, erasing[u] \in {"query", "delete"},
         NEW part, \A e \in part : UserOf[e] = u, live' = live \ part,
         NEW to \in {"query", "delete", "done", "failed"},
         erasing' = [erasing EXCEPT ![u] = to],
         to = "done" => promised[u] \cap live' = {},
         UNCHANGED <<now, ingested, promised>>, UNCHANGED archiveVars
  PROVE  Tiers!TierNext
<1> DEFINE S == part \cap live
           R == [v \in Erasures |-> Request(v)]
           r == IF to \in {"query", "delete"} THEN "open" ELSE to
<1>1. S \in SUBSET Events /\ S \subseteq {e \in live : UserOf[e] = u} /\ live' = live \ S
  BY DEF TypeOK
<1>2. R' = [R EXCEPT ![u] = r]
  BY MoveRequest
<1>3. R[u] = "open"
  BY DEF Request
<1>4. r = "open" => R' = R
  BY <1>2, <1>3
<1>5. r \in {"open", "done", "failed"} /\ (r = "done" => promised[u] \cap live' = {})
  OBVIOUS
<1>6. Archived' = Archived
  BY SameArchive
<1> HIDE DEF S, r, R
<1>7. \/ R' = R
      \/ R' = [R EXCEPT ![u] = "failed"]
      \/ promised[u] \cap live' = {} /\ R' = [R EXCEPT ![u] = "done"]
  BY <1>2, <1>4, <1>5
<1>8. Tiers!Erase(u, S)
  BY <1>1, <1>3, <1>6, <1>7 DEF Tiers!Erase, Tiers!Of, R
<1> QED BY <1>1, <1>8 DEF Tiers!TierNext

(* A crash may leave a manifest that was being written, the part of a      *)
(* chunk that was being deleted, which is archived, and the parts of pages *)
(* that were being deleted, whose requests are open.                       *)
LEMMA CrashRefines ==
  ASSUME TierInv, TypeOK', KnownInv', Archived \subseteq Archived', Crash
  PROVE  Tiers!TierNext
<1> DEFINE R == [v \in Erasures |-> Request(v)]
           C == Archived'
<1>1. PICK part \in SUBSET (IF pc = "delete" THEN current ELSE {}),
           some \in SUBSET UNION {targets[u] : u \in Erasures} :
             live' = live \ (part \cup some)
  BY DEF Crash
<1> DEFINE S == (part \cup some) \cap live
<1>2. part \subseteq Archived
  BY DeletedIsArchived DEF TierInv
<1>3. \A e \in some : \E u \in Erasures : e \in targets[u]
  OBVIOUS
<1>4. \A u \in Erasures : \A e \in targets[u] : UserOf[e] = u /\ R[u] = "open"
  BY DEF TierInv, KnownInv, Request
<1>5. \A e \in S : e \in Archived \/ \E u \in Erasures :
                      R[u] = "open" /\ e \in {x \in live : UserOf[x] = u}
  <2> SUFFICES ASSUME NEW e \in S, e \notin Archived
               PROVE  \E u \in Erasures : R[u] = "open" /\ e \in {x \in live : UserOf[x] = u}
    OBVIOUS
  <2>1. e \in some /\ e \in live
    BY <1>2
  <2>2. PICK u \in Erasures : e \in targets[u]
    BY <2>1, <1>3
  <2>3. UserOf[e] = u /\ R[u] = "open"
    BY <2>2, <1>4
  <2> HIDE DEF R
  <2> QED BY <2>1, <2>3
<1>6. S \in SUBSET Events /\ live' = live \ S
  BY <1>1 DEF TierInv, TypeOK
<1>7. R' = [u \in Erasures |-> IF R[u] = "open" THEN "failed" ELSE R[u]]
  <2>1. \A u \in Erasures : erasing'[u] = IF erasing[u] \in {"query", "delete"} THEN "failed"
                                          ELSE erasing[u]
    BY DEF Crash
  <2>2. \A u \in Erasures : erasing[u] # "open"
    BY DEF TierInv, TypeOK
  <2> QED BY <2>1, <2>2 DEF Request
<1>8. C \in SUBSET Events /\ C \subseteq ingested' /\ Archived' = Archived \cup C
  BY ArchivedKnown DEF TypeOK
<1>9. UNCHANGED <<now, ingested, promised>>
  BY DEF Crash
<1> HIDE DEF S, C, R
<1>10. Tiers!Crash(C, S)
  BY <1>5, <1>6, <1>7, <1>8, <1>9 DEF Tiers!Crash, Tiers!Of, R
<1> QED BY <1>6, <1>8, <1>10 DEF Tiers!TierNext

(* Every step is one of TieredStore through the mapping, or none.          *)
LEMMA NextTiers ==
  ASSUME ~TornWrites, TierInv, [Next]_vars
  PROVE  Tiers!TierNext \/ UNCHANGED Tiers!tierVars
<1>inv. TypeOK' /\ KnownInv' /\ EraseInv'
  BY NextTierInv DEF TierInv
<1>grow. Archived \subseteq Archived'
  <2>1. index \subseteq index' /\ Readable \subseteq Readable'
    BY NextListedInv DEF TierInv
  <2>2. objects \subseteq objects'
    BY DEF Next, ArchiverStep, Ingest, Gc, BeginErase, EraseQuery, EraseDelete, EraseFails, Tick,
           StartCycle, EndCycle, Upload, UploadFails, Record, RecordFails, DeleteChunk,
           DeleteFails, Crash, vars, archiveVars
  <2> QED BY <2>1, <2>2, ArchivedGrows
<1>type. TypeOK
  BY DEF TierInv
<1>1. ASSUME NEW e \in Events, Ingest(e) PROVE Tiers!TierNext
  <2>1. Tiers!Add(e)
    BY <1>1, SameArchive, SameRequests DEF Ingest, Tiers!Add, eraseVars
  <2> QED BY <2>1 DEF Tiers!TierNext
<1>2. CASE Tick
  <2>1. Tiers!Tick
    BY <1>2, SameArchive, SameRequests DEF Tick, Tiers!Tick, eraseVars
  <2> QED BY <2>1 DEF Tiers!TierNext
<1>3. CASE UNCHANGED vars
  BY <1>3, StutterRefines DEF vars, eraseVars
<1>4. CASE StartCycle \/ EndCycle
  BY <1>4, StutterRefines DEF StartCycle, EndCycle, eraseVars
<1>5. CASE Upload \/ UploadFails \/ Record \/ RecordFails
  BY <1>5, <1>inv, <1>grow, CopyRefines DEF Upload, UploadFails, Record, RecordFails, eraseVars
<1>6. CASE DeleteChunk \/ DeleteFails
  <2>1. current \subseteq Archived
    BY <1>6, DeletedIsArchived DEF TierInv, DeleteChunk, DeleteFails
  <2>2. PICK part \in SUBSET current : live' = live \ part
    BY <1>6 DEF DeleteChunk, DeleteFails
  <2> QED BY <1>6, <1>type, <2>1, <2>2, EvictRefines DEF DeleteChunk, DeleteFails, eraseVars
<1>7. CASE Gc
  <2>1. PICK S \in SUBSET {e \in live : At[e] < now - Retention} :
             Retention > 0 /\ live' = live \ S
    BY <1>7 DEF Gc
  <2>2. Tiers!Expire(S)
    BY <1>7, <2>1, SameArchive, SameRequests DEF Gc, Tiers!Expire, eraseVars
  <2>3. S \in SUBSET Events
    BY <1>type DEF TypeOK
  <2> QED BY <2>2, <2>3 DEF Tiers!TierNext
<1>8. CASE Crash
  BY <1>8, <1>inv, <1>grow, CrashRefines
<1>9. ASSUME NEW u \in Erasures, BeginErase(u) PROVE Tiers!TierNext
  <2>1. [v \in Erasures |-> Request(v)]' = [[v \in Erasures |-> Request(v)] EXCEPT ![u] = "open"]
    BY <1>9, <1>type, MoveRequest DEF BeginErase
  <2>2. Request(u) = "no"
    BY <1>9 DEF BeginErase, Request
  <2>3. Tiers!Ask(u)
    BY <1>9, <2>1, <2>2, SameArchive DEF BeginErase, Tiers!Ask, Tiers!Of, engineVars
  <2> QED BY <2>3 DEF Tiers!TierNext
<1>10. ASSUME NEW u \in Erasures, EraseQuery(u) PROVE Tiers!TierNext
  <2>1. PICK to \in {"done", "delete"} : erasing' = [erasing EXCEPT ![u] = to]
    BY <1>10 DEF EraseQuery
  <2>2. /\ erasing[u] = "query" /\ live' = live \ {}
        /\ UNCHANGED <<now, ingested, promised>> /\ UNCHANGED archiveVars
    BY <1>10 DEF EraseQuery, engineVars
  <2>3. to = "done" => promised[u] \cap live' = {}
    BY <1>inv, <1>type, <2>1, <2>2 DEF EraseInv, TypeOK
  <2> QED BY <1>type, <2>1, <2>2, <2>3, EraseRefines
<1>11. ASSUME NEW u \in Erasures, EraseDelete(u) PROVE Tiers!TierNext
  <2>1. PICK to \in {"done", "query"} : erasing' = [erasing EXCEPT ![u] = to]
    BY <1>11 DEF EraseDelete
  <2>2. /\ erasing[u] = "delete" /\ live' = live \ targets[u]
        /\ UNCHANGED <<now, ingested, promised>> /\ UNCHANGED archiveVars
    BY <1>11 DEF EraseDelete
  <2>3. to = "done" => promised[u] \cap live' = {}
    BY <1>inv, <1>type, <2>1, <2>2 DEF EraseInv, TypeOK
  <2>4. \A e \in targets[u] : UserOf[e] = u
    BY DEF TierInv, KnownInv
  <2> QED BY <1>type, <2>1, <2>2, <2>3, <2>4, EraseRefines
<1>12. ASSUME NEW u \in Erasures, EraseFails(u) PROVE Tiers!TierNext
  <2>1. PICK part \in SUBSET targets[u] : live' = live \ part
    BY <1>12 DEF EraseFails
  <2>2. /\ erasing[u] \in {"query", "delete"} /\ erasing' = [erasing EXCEPT ![u] = "failed"]
        /\ UNCHANGED <<now, ingested, promised>> /\ UNCHANGED archiveVars
    BY <1>12 DEF EraseFails
  <2>3. \A e \in part : UserOf[e] = u
    BY DEF TierInv, KnownInv
  <2> QED BY <1>type, <2>1, <2>2, <2>3, EraseRefines
<1> QED BY <1>1, <1>2, <1>3, <1>4, <1>5, <1>6, <1>7, <1>8, <1>9, <1>10, <1>11, <1>12
        DEF Next, ArchiverStep

(* The archiver, garbage collection and the erasure requests implement the *)
(* two-tiered store: archive_old_events, gc_tier and delete_events_bulk,   *)
(* however they interleave, fail or die half way, take an event out of the *)
(* engines for one of the three reasons only, and lose nothing that is     *)
(* archived, if manifest lines are written whole or not at all.            *)
THEOREM ArchiveImplementsTiers ==
  ASSUME ~TornWrites
  PROVE  Spec => ImplementsTiers
<1>1. Init => TierInv
  <2> SUFFICES ASSUME Init PROVE TierInv
    OBVIOUS
  <2>1. TypeOK
    BY ArchiveAssumption DEF Init, TypeOK, NoTail
  <2>2. LiveInv
    BY FS_EmptySet DEF Init, LiveInv
  <2>3. EraseInv /\ KnownInv
    BY DEF Init, EraseInv, KnownInv, Readable, NoTail
  <2>4. BackedInv /\ ListedInv
    BY DEF Init, BackedInv, ManifestBacked, ListedInv, ListedSurvives, Readable, NoTail
  <2> QED BY <2>1, <2>2, <2>3, <2>4 DEF TierInv
<1>2. TierInv /\ [Next]_vars => TierInv'
  BY NextTierInv
<1>3. TierInv /\ [Next]_vars => [Tiers!TierNext]_(Tiers!tierVars)
  BY NextTiers
<1> QED BY <1>1, <1>2, <1>3, InitTiers, PTL DEF Spec, ImplementsTiers, Tiers!TierSpec

====
