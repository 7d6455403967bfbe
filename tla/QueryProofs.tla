---------------------------- MODULE QueryProofs ----------------------------
(***************************************************************************)
(* Theorems about paging through the store, for every set of events and    *)
(* tiers, every page size and any number of readers, while events are      *)
(* stored and removed.                                                     *)
(***************************************************************************)
EXTENDS Query, FiniteSetTheorems, WellFoundedInduction, TLAPS

-----------------------------------------------------------------------------
(* Pages.                                                                  *)

(* The smallest of a set of naturals.                                      *)
LEMMA MinOfNats ==
  ASSUME NEW T, T \subseteq Nat, T # {}
  PROVE  Min(T) \in T /\ \A y \in T : Min(T) <= y
<1>1. PICK x \in T : \A y \in T : ~(<<y, x>> \in OpToRel(<, Nat))
  BY NatLessThanWellFounded, WFMin
<1>2. \A y \in T : x <= y
  <2> SUFFICES ASSUME NEW y \in T PROVE x <= y
    OBVIOUS
  <2>1. ~(y < x)
    BY <1>1 DEF OpToRel
  <2>2. QED
    BY <2>1
<1>3. QED
  BY <1>2 DEF Min

(* The cursor of a page is the oldest timestamp in it.                     *)
LEMMA LastTsOldest ==
  ASSUME NEW page \in SUBSET Events, page # {}
  PROVE  /\ LastTs(page) \in Nat
         /\ \E e \in page : LastTs(page) = At[e]
         /\ \A e \in page : LastTs(page) <= At[e]
<1> DEFINE T == {At[e] : e \in page}
<1>1. T \subseteq Nat /\ T # {}
  BY QueryAssumption
<1>2. Min(T) \in T /\ \A y \in T : Min(T) <= y
  BY <1>1, MinOfNats
<1>3. QED
  BY <1>1, <1>2 DEF LastTs

(* A set of events has a size.                                             *)
LEMMA FiniteCard ==
  ASSUME NEW S \in SUBSET Events
  PROVE  IsFiniteSet(S) /\ Cardinality(S) \in Nat
BY QueryAssumption, FS_Subset, FS_CardinalityType

(* A page of at most n rows is all of S, or has exactly n.                 *)
LEMMA NewestSize ==
  ASSUME NEW S \in SUBSET Events, NEW n \in Nat, NEW P \in Newest(S, n)
  PROVE  /\ P \subseteq S
         /\ Cardinality(S) <= n => P = S
         /\ Cardinality(S) >= n => Cardinality(P) = n
         /\ \A x \in P, y \in S \ P : At[x] >= At[y]
<1>1. Cardinality(S) \in Nat
  BY FiniteCard
<1>2. /\ P \in SUBSET S
      /\ Cardinality(P) = Min({n, Cardinality(S)})
      /\ \A x \in P, y \in S \ P : At[x] >= At[y]
  BY DEF Newest, kSubset
<1>3. Min({n, Cardinality(S)}) = IF n <= Cardinality(S) THEN n ELSE Cardinality(S)
  <2> DEFINE T == {n, Cardinality(S)}
  <2>1. T \subseteq Nat /\ T # {}
    BY <1>1
  <2>2. Min(T) \in T /\ \A y \in T : Min(T) <= y
    BY <2>1, MinOfNats
  <2> HIDE DEF T
  <2>3. Min(T) \in {n, Cardinality(S)} /\ Min(T) <= n /\ Min(T) <= Cardinality(S)
    BY <2>2 DEF T
  <2>4. Min(T) = IF n <= Cardinality(S) THEN n ELSE Cardinality(S)
    BY <1>1, <2>3
  <2>5. QED
    BY <2>4 DEF T
<1>4. Cardinality(S) <= n => Cardinality(P) = Cardinality(S)
  BY <1>1, <1>2, <1>3
<1>5. Cardinality(S) = Cardinality(P) => S = P
  BY <1>2, FiniteCard, FS_Subset
<1>6. Cardinality(S) >= n => Cardinality(P) = n
  BY <1>1, <1>2, <1>3
<1>7. QED
  BY <1>2, <1>4, <1>5, <1>6

(* No two events have the same timestamp.                                  *)
Distinct == \A x, y \in Events : At[x] = At[y] => x = y

(* There are n events in S, all newer than e.                              *)
Crowd(S, n, e) == \E Q \in SUBSET S : Cardinality(Q) = n /\ \A x \in Q : At[x] > At[e]

(* An event that a page of n leaves out is older than the n it has.        *)
LEMMA LeftOutIsOlder ==
  ASSUME Distinct, NEW S \in SUBSET Events, NEW n \in Nat, NEW P \in Newest(S, n),
         NEW e \in Events, e \notin P, e \in S \/ Crowd(S, n, e)
  PROVE  Cardinality(P) = n /\ \A x \in P : At[x] > At[e]
<1>1. /\ P \subseteq S
      /\ Cardinality(S) <= n => P = S
      /\ Cardinality(S) >= n => Cardinality(P) = n
      /\ \A x \in P, y \in S \ P : At[x] >= At[y]
  BY NewestSize
<1>2. Cardinality(S) \in Nat
  BY FiniteCard
<1>3. At \in [Events -> Nat]
  BY QueryAssumption
<1>4. CASE e \in S
  <2>1. Cardinality(P) = n
    BY <1>1, <1>2, <1>4
  <2>2. \A x \in P : At[x] >= At[e] /\ x # e
    BY <1>1, <1>4
  <2>3. \A x \in P : At[x] # At[e]
    BY <1>1, <2>2 DEF Distinct
  <2>4. QED
    BY <1>1, <1>3, <2>1, <2>2, <2>3
<1>5. CASE Crowd(S, n, e)
  <2>1. PICK Q \in SUBSET S : Cardinality(Q) = n /\ \A x \in Q : At[x] > At[e]
    BY <1>5 DEF Crowd
  <2>2. Cardinality(S) >= n
    BY <1>2, <2>1, FiniteCard, FS_Subset
  <2>3. Cardinality(P) = n
    BY <1>1, <2>2
  <2>4. CASE P = Q
    BY <2>1, <2>3, <2>4
  <2>5. CASE P # Q
    <3>1. ~(Q \subseteq P)
      BY <1>1, <2>1, <2>3, <2>5, FiniteCard, FS_Subset
    <3>2. PICK q \in Q : q \notin P
      BY <3>1
    <3>3. \A x \in P : At[x] >= At[q] /\ At[q] > At[e]
      BY <1>1, <2>1, <3>2
    <3>4. QED
      BY <1>1, <1>3, <2>1, <2>3, <3>3
  <2>6. QED
    BY <2>4, <2>5
<1>6. QED
  BY <1>4, <1>5

-----------------------------------------------------------------------------
(* Types.                                                                  *)

(* What an engine is asked for is at least one row.                        *)
LEMMA LimitType == ASSUME NEW r \in Readers PROVE Limit(r) \in Nat \ {0}
BY QueryAssumption DEF Limit

(* What a pager is given: some of the rows read, all of them or PageLimit, *)
(* and never nothing when there is more.                                   *)
LEMMA PageFacts ==
  ASSUME TypeOK, NEW r \in Pagers,
         NEW merged \in Newest(rows[r], Limit(r)), NEW page \in Newest(merged, PageLimit)
  PROVE  /\ merged \subseteq rows[r] /\ page \subseteq merged /\ page \in SUBSET Events
         /\ Cardinality(merged) > PageLimit => page # {}
         /\ ~(Cardinality(merged) > PageLimit) => page = merged
<1>1. Limit(r) \in Nat /\ PageLimit \in Nat \ {0}
  BY LimitType, QueryAssumption DEF Readers
<1>2. rows[r] \in SUBSET Events
  BY DEF TypeOK, Readers
<1>3. merged \subseteq rows[r]
  BY <1>1, <1>2, NewestSize
<1>4. Cardinality(merged) \in Nat
  BY <1>2, <1>3, FiniteCard
<1>5. /\ page \subseteq merged
      /\ Cardinality(merged) <= PageLimit => page = merged
      /\ Cardinality(merged) >= PageLimit => Cardinality(page) = PageLimit
  <2>1. merged \in SUBSET Events
    BY <1>2, <1>3
  <2>2. QED
    BY <1>1, <2>1, NewestSize
<1>6. QED
  BY <1>1, <1>2, <1>3, <1>4, <1>5, FS_EmptySet

(* A page of export_events is part of what the engines returned.           *)
LEMMA ExportFacts ==
  ASSUME TypeOK, NEW r \in Exporters, NEW page \in Newest(rows[r], Limit(r))
  PROVE  page \subseteq rows[r] /\ page \in SUBSET Events
<1>1. Limit(r) \in Nat /\ rows[r] \in SUBSET Events
  BY LimitType DEF TypeOK, Readers
<1>2. QED
  BY <1>1, NewestSize

(* Whatever a page of reader r leaves of what the engines returned, or of  *)
(* what they had no room to return, is older and left for a later page.    *)
Keeps(r, page, more) ==
  Distinct => \A e \in Events :
    e \in rows[r] \/ Crowd(rows[r], Limit(r), e)
      => e \in page \/ (more /\ \A x \in page : At[x] > At[e])

(* A page of query_events keeps what it leaves out for a later page.       *)
LEMMA PageKeeps ==
  ASSUME TypeOK, NEW r \in Pagers,
         NEW merged \in Newest(rows[r], Limit(r)), NEW page \in Newest(merged, PageLimit)
  PROVE  Keeps(r, page, Cardinality(merged) > PageLimit)
<1> SUFFICES ASSUME Distinct, NEW e \in Events, e \in rows[r] \/ Crowd(rows[r], Limit(r), e),
                    e \notin page
             PROVE  Cardinality(merged) > PageLimit /\ \A x \in page : At[x] > At[e]
  BY DEF Keeps
<1>1. /\ merged \subseteq rows[r] /\ page \subseteq merged
      /\ ~(Cardinality(merged) > PageLimit) => page = merged
  BY PageFacts
<1>2. /\ Limit(r) = PageLimit + 1 /\ PageLimit \in Nat
      /\ rows[r] \in SUBSET Events /\ merged \in SUBSET Events
  BY <1>1, QueryAssumption DEF TypeOK, Limit, Readers
<1>3. CASE e \in merged
  <2>1. Cardinality(merged) > PageLimit
    BY <1>1, <1>3
  <2>2. \A x \in page : At[x] > At[e]
    BY <1>2, <1>3, LeftOutIsOlder
  <2>3. QED
    BY <2>1, <2>2
<1>4. CASE e \notin merged
  <2>1. Cardinality(merged) = Limit(r) /\ \A x \in merged : At[x] > At[e]
    BY <1>2, <1>4, LeftOutIsOlder, Limit(r) \in Nat
  <2>2. QED
    BY <1>1, <1>2, <2>1
<1>5. QED
  BY <1>3, <1>4

(* So does a page of export_events.                                        *)
LEMMA ExportKeeps ==
  ASSUME TypeOK, NEW r \in Exporters, NEW page \in Newest(rows[r], Limit(r))
  PROVE  Keeps(r, page, page # {})
<1> SUFFICES ASSUME Distinct, NEW e \in Events, e \in rows[r] \/ Crowd(rows[r], Limit(r), e),
                    e \notin page
             PROVE  page # {} /\ \A x \in page : At[x] > At[e]
  BY DEF Keeps
<1>1. Limit(r) \in Nat \ {0} /\ rows[r] \in SUBSET Events
  BY LimitType DEF TypeOK, Readers
<1>2. Cardinality(page) = Limit(r) /\ \A x \in page : At[x] > At[e]
  BY <1>1, LeftOutIsOlder
<1>3. QED
  BY <1>1, <1>2, FS_EmptySet

(* The steps that hand a page to its reader, seen alike.                   *)
Hands(r, page, more) ==
  /\ step[r] = "read"
  /\ left[r] = {}
  /\ page \in SUBSET Events
  /\ page \subseteq rows[r]
  /\ more => page # {}
  /\ Keeps(r, page, more)
  /\ Deliver(r, page)
  /\ cursor' = [cursor EXCEPT ![r] = IF more THEN LastTs(page) ELSE @]
  /\ step' = [step EXCEPT ![r] = IF more THEN "next" ELSE "done"]

(* Both handlers hand a page to their client in the same way.              *)
LEMMA PagesAreHanded ==
  ASSUME TypeOK, NEW r \in Readers, ReturnPage(r) \/ ExportPage(r)
  PROVE  \E page, more : Hands(r, page, more) /\ more \in BOOLEAN
<1>1. CASE ReturnPage(r)
  <2>1. PICK merged \in Newest(rows[r], Limit(r)) : \E page \in Newest(merged, PageLimit) :
          LET has_more == Cardinality(merged) > PageLimit IN
          /\ Deliver(r, page)
          /\ cursor' = [cursor EXCEPT ![r] = IF has_more THEN LastTs(page) ELSE @]
          /\ step' = [step EXCEPT ![r] = IF has_more THEN "next" ELSE "done"]
    BY <1>1 DEF ReturnPage
  <2>2. PICK page \in Newest(merged, PageLimit) :
          /\ Deliver(r, page)
          /\ cursor' = [cursor EXCEPT ![r] =
                          IF Cardinality(merged) > PageLimit THEN LastTs(page) ELSE @]
          /\ step' = [step EXCEPT ![r] =
                          IF Cardinality(merged) > PageLimit THEN "next" ELSE "done"]
    BY <2>1
  <2>3. r \in Pagers /\ step[r] = "read" /\ left[r] = {}
    BY <1>1 DEF ReturnPage
  <2>4. /\ page \subseteq rows[r] /\ page \in SUBSET Events
        /\ Cardinality(merged) > PageLimit => page # {}
        /\ Keeps(r, page, Cardinality(merged) > PageLimit)
    BY <2>3, PageFacts, PageKeeps
  <2>5. PICK more \in BOOLEAN : more <=> Cardinality(merged) > PageLimit
    OBVIOUS
  <2>6. Hands(r, page, more)
    BY <2>2, <2>3, <2>4, <2>5 DEF Hands, Keeps
  <2>7. QED
    BY <2>6
<1>2. CASE ExportPage(r)
  <2>1. PICK page \in Newest(rows[r], Limit(r)) :
          /\ Deliver(r, page)
          /\ cursor' = [cursor EXCEPT ![r] = IF page # {} THEN LastTs(page) ELSE @]
          /\ step' = [step EXCEPT ![r] = IF page # {} THEN "next" ELSE "done"]
    BY <1>2 DEF ExportPage
  <2>2. r \in Exporters /\ step[r] = "read" /\ left[r] = {}
    BY <1>2 DEF ExportPage
  <2>3. page \subseteq rows[r] /\ page \in SUBSET Events /\ Keeps(r, page, page # {})
    BY <2>2, ExportFacts, ExportKeeps
  <2>4. Hands(r, page, page # {})
    BY <2>1, <2>2, <2>3 DEF Hands
  <2>5. QED
    BY <2>4
<1>3. QED
  BY <1>1, <1>2

(* A cursor is a timestamp.                                                *)
LEMMA CursorType ==
  ASSUME NEW page \in SUBSET Events, page # {}
  PROVE  LastTs(page) \in 0 .. NoCursor
BY LastTsOldest, QueryAssumption

(* Every step of a reader and every change of the store keeps the types.   *)
LEMMA NextType == TypeOK /\ [Next]_vars => TypeOK'
<1> SUFFICES ASSUME TypeOK, [Next]_vars PROVE TypeOK'
  OBVIOUS
<1>1. CASE \E e \in Events : Store(e) \/ Remove(e)
  BY <1>1, QueryAssumption DEF TypeOK, Store, Remove, readVars, history
<1>2. ASSUME NEW r \in Readers, StartQuery(r) \/ ReadFails(r) PROVE TypeOK'
  BY <1>2 DEF TypeOK, StartQuery, ReadFails, storeVars, history
<1>3. ASSUME NEW r \in Readers, NEW t \in Tiers, ReadEngine(r, t) PROVE TypeOK'
  <2>1. PICK P \in Newest(Matching(r, t), Limit(r)) : rows' = [rows EXCEPT ![r] = @ \cup P]
    BY <1>3 DEF ReadEngine
  <2>2. Matching(r, t) \in SUBSET Events
    BY DEF Matching, TypeOK
  <2>3. P \in SUBSET Events
    BY <2>2, LimitType, NewestSize
  <2>4. QED
    BY <1>3, <2>1, <2>3 DEF TypeOK, ReadEngine, storeVars, history
<1>4. ASSUME NEW r \in Readers, ReturnPage(r) \/ ExportPage(r) PROVE TypeOK'
  <2>1. PICK page, more : Hands(r, page, more)
    BY <1>4, PagesAreHanded
  <2>2. more => LastTs(page) \in 0 .. NoCursor
    BY <2>1, CursorType DEF Hands
  <2>3. QED
    BY <2>1, <2>2 DEF TypeOK, Hands, Deliver, storeVars
<1>5. CASE UNCHANGED vars
  BY <1>5 DEF TypeOK, vars, storeVars, readVars, history
<1>6. QED
  BY <1>1, <1>2, <1>3, <1>4, <1>5 DEF Next

(* Type correctness of KdbStore::query, query_events and export_events;    *)
(* in particular a cursor is always a timestamp.                           *)
THEOREM QueryTypeCorrect == Spec => []TypeOK
<1>1. Init => TypeOK
  BY QueryAssumption DEF Init, TypeOK
<1>2. QED
  BY <1>1, NextType, PTL DEF Spec

-----------------------------------------------------------------------------
(* No duplicates.                                                          *)

(* What a reader has got is at or after its cursor, what it is about to    *)
(* get is before it.                                                       *)
CursorDivides ==
  \A r \in Readers :
    /\ step[r] # "done" => \A e \in got[r] : At[e] >= cursor[r]
    /\ \A e \in rows[r] : At[e] < cursor[r]

DupInv == NoDuplicates /\ CursorDivides

(* A page is read below the cursor and moves the cursor below itself.      *)
LEMMA NextDupInv == TypeOK /\ DupInv /\ [Next]_vars => DupInv'
<1> SUFFICES ASSUME TypeOK, DupInv, [Next]_vars PROVE DupInv'
  OBVIOUS
<1> USE DEF DupInv, NoDuplicates, CursorDivides
<1>1. CASE \E e \in Events : Store(e) \/ Remove(e)
  BY <1>1 DEF Store, Remove, readVars, history
<1>2. ASSUME NEW r \in Readers, StartQuery(r) \/ ReadFails(r) PROVE DupInv'
  BY <1>2 DEF TypeOK, StartQuery, ReadFails, storeVars, history
<1>3. ASSUME NEW r \in Readers, NEW t \in Tiers, ReadEngine(r, t) PROVE DupInv'
  <2>1. PICK P \in Newest(Matching(r, t), Limit(r)) : rows' = [rows EXCEPT ![r] = @ \cup P]
    BY <1>3 DEF ReadEngine
  <2>2. Matching(r, t) \in SUBSET Events /\ \A e \in Matching(r, t) : At[e] < cursor[r]
    BY DEF Matching, TypeOK
  <2>3. \A e \in P : At[e] < cursor[r]
    BY <2>2, LimitType, NewestSize
  <2>4. QED
    BY <1>3, <2>1, <2>3 DEF TypeOK, ReadEngine, storeVars, history
<1>4. ASSUME NEW r \in Readers, ReturnPage(r) \/ ExportPage(r) PROVE DupInv'
  <2>1. PICK page, more : Hands(r, page, more)
    BY <1>4, PagesAreHanded
  <2>2. /\ step[r] # "done" /\ page \in SUBSET Events /\ page \subseteq rows[r]
        /\ got' = [got EXCEPT ![r] = @ \cup page]
        /\ twice' = [twice EXCEPT ![r] = @ \cup (got[r] \cap page)]
        /\ rows' = [rows EXCEPT ![r] = {}]
        /\ cursor' = [cursor EXCEPT ![r] = IF more THEN LastTs(page) ELSE @]
        /\ step' = [step EXCEPT ![r] = IF more THEN "next" ELSE "done"]
    BY <2>1 DEF Hands, Deliver
  <2>3. cursor[r] \in Nat /\ got[r] \subseteq Events /\ At \in [Events -> Nat]
    BY QueryAssumption DEF TypeOK
  <2>4. got[r] \cap page = {}
    BY <2>2, <2>3
  <2>5. more => \A e \in got[r] \cup page : At[e] >= LastTs(page)
    <3> SUFFICES ASSUME more, NEW e \in got[r] \cup page PROVE At[e] >= LastTs(page)
      OBVIOUS
    <3>1. page # {}
      BY <2>1 DEF Hands
    <3>2. /\ LastTs(page) \in Nat
          /\ \E x \in page : LastTs(page) = At[x]
          /\ \A x \in page : LastTs(page) <= At[x]
      BY <2>2, <3>1, LastTsOldest
    <3>3. LastTs(page) < cursor[r]
      BY <2>2, <3>2
    <3>4. QED
      BY <2>2, <2>3, <3>2, <3>3
  <2>6. QED
    BY <2>2, <2>4, <2>5 DEF TypeOK
<1>5. CASE UNCHANGED vars
  BY <1>5 DEF vars, storeVars, readVars, history
<1>6. QED
  BY <1>1, <1>2, <1>3, <1>4, <1>5 DEF Next

(* No reader is given an event twice: neither GET /v1/events followed by   *)
(* its cursor nor export_events repeats an event, whatever is stored and   *)
(* removed meanwhile and however timestamps tie.                           *)
THEOREM NothingTwice == Spec => []NoDuplicates
<1>1. Init => DupInv
  BY DEF Init, DupInv, NoDuplicates, CursorDivides
<1>2. DupInv => NoDuplicates
  BY DEF DupInv
<1>3. QED
  BY <1>1, <1>2, NextDupInv, QueryTypeCorrect, PTL DEF Spec

-----------------------------------------------------------------------------
(* Nothing is skipped, when timestamps are distinct.                       *)

(* An event that has been there all the time is delivered, or ahead of the *)
(* cursor; while a page is read, one that is ahead is still to be read,    *)
(* has been read, or has no room in the page.                              *)
ReadsAll ==
  \A r \in Readers : \A e \in steady[r] :
    step[r] = "read" /\ At[e] < cursor[r]
      => TierOf[e] \in left[r] \/ e \in rows[r] \/ Crowd(rows[r], Limit(r), e)

StoreInv ==
  /\ \A e \in live : TierOf[e] \in mounted
  /\ \A e \in live : e \in stored
  /\ \A r \in Readers : steady[r] \subseteq live
  /\ \A r \in Readers : step[r] = "idle" => cursor[r] = NoCursor

SkipInv == StoreInv /\ ReadsAll /\ NothingSkipped

(* A crowd stays one when more rows are read.                              *)
LEMMA CrowdGrows ==
  ASSUME NEW S, NEW T, S \subseteq T, NEW n, NEW e, Crowd(S, n, e)
  PROVE  Crowd(T, n, e)
BY DEF Crowd

(* What a reader could see all the time is still there, in a mounted       *)
(* engine.                                                                 *)
LEMMA NextStoreInv == TypeOK /\ StoreInv /\ [Next]_vars => StoreInv'
<1> SUFFICES ASSUME TypeOK, StoreInv, [Next]_vars PROVE StoreInv'
  OBVIOUS
<1> USE DEF StoreInv
<1>1. CASE \E e \in Events : Store(e) \/ Remove(e)
  BY <1>1 DEF TypeOK, Store, Remove, readVars, history
<1>2. ASSUME NEW r \in Readers, StartQuery(r) PROVE StoreInv'
  BY <1>2 DEF TypeOK, StartQuery, storeVars
<1>3. ASSUME NEW r \in Readers, ReadFails(r) \/ \E t \in Tiers : ReadEngine(r, t)
      PROVE  StoreInv'
  BY <1>3 DEF TypeOK, ReadFails, ReadEngine, storeVars, history
<1>4. ASSUME NEW r \in Readers, ReturnPage(r) \/ ExportPage(r) PROVE StoreInv'
  <2>1. PICK page, more : Hands(r, page, more)
    BY <1>4, PagesAreHanded
  <2>2. QED
    BY <2>1 DEF TypeOK, Hands, Deliver, storeVars
<1>5. CASE UNCHANGED vars
  BY <1>5 DEF vars, storeVars, readVars, history
<1>6. QED
  BY <1>1, <1>2, <1>3, <1>4, <1>5 DEF Next

(* No step of a reader or of the store moves a cursor past an event that   *)
(* was not read.                                                           *)
LEMMA NextSkipInv ==
  ASSUME Distinct, TypeOK, SkipInv, [Next]_vars
  PROVE  SkipInv'
<1> USE DEF SkipInv
<1> SUFFICES ReadsAll' /\ NothingSkipped'
  BY NextStoreInv
<1>1. CASE \E e \in Events : Store(e) \/ Remove(e)
  <2>1. UNCHANGED <<readVars, got>> /\ \A r \in Readers : steady'[r] \subseteq steady[r]
    BY <1>1 DEF TypeOK, Store, Remove, history
  <2>2. QED
    BY <2>1 DEF readVars, ReadsAll, NothingSkipped
<1>2. ASSUME NEW r \in Readers, StartQuery(r) PROVE ReadsAll' /\ NothingSkipped'
  <2>1. /\ steady'[r] \subseteq live /\ left'[r] = mounted /\ step'[r] = "read"
        /\ cursor' = cursor /\ got' = got /\ rows' = rows
        /\ \A q \in Readers \ {r} :
             steady'[q] = steady[q] /\ left'[q] = left[q] /\ step'[q] = step[q]
        /\ \/ steady'[r] = steady[r]
           \/ cursor[r] = NoCursor
    BY <1>2 DEF StartQuery, TypeOK, StoreInv
  <2>2. ReadsAll'
    BY <2>1 DEF ReadsAll, StoreInv
  <2>3. \A e \in steady'[r] : At[e] >= cursor[r] => e \in got[r]
    BY <2>1, QueryAssumption DEF NothingSkipped, TypeOK
  <2>4. NothingSkipped'
    BY <2>1, <2>3 DEF NothingSkipped
  <2>5. QED
    BY <2>2, <2>4
<1>3. ASSUME NEW r \in Readers, ReadFails(r) PROVE ReadsAll' /\ NothingSkipped'
  <2>1. /\ step'[r] \in {"failed", "next"}
        /\ cursor' = cursor /\ got' = got /\ steady' = steady
        /\ \A q \in Readers \ {r} :
             step'[q] = step[q] /\ left'[q] = left[q] /\ rows'[q] = rows[q]
    BY <1>3 DEF ReadFails, TypeOK, history
  <2>2. ReadsAll'
    BY <2>1 DEF ReadsAll
  <2>3. QED
    BY <2>1, <2>2 DEF NothingSkipped
<1>4. ASSUME NEW r \in Readers, NEW t \in Tiers, ReadEngine(r, t)
      PROVE  ReadsAll' /\ NothingSkipped'
  <2>1. PICK P \in Newest(Matching(r, t), Limit(r)) : rows' = [rows EXCEPT ![r] = @ \cup P]
    BY <1>4 DEF ReadEngine
  <2>2. /\ left' = [left EXCEPT ![r] = @ \ {t}] /\ step' = step /\ cursor' = cursor
        /\ got' = got /\ steady' = steady
    BY <1>4 DEF ReadEngine, history
  <2>3. NothingSkipped'
    BY <2>2 DEF NothingSkipped
  <2>4. Matching(r, t) \in SUBSET Events /\ Limit(r) \in Nat
    BY LimitType DEF Matching, TypeOK
  <2>5. /\ rows'[r] = rows[r] \cup P /\ left'[r] = left[r] \ {t}
        /\ \A q \in Readers \ {r} : rows'[q] = rows[q] /\ left'[q] = left[q]
    BY <2>1, <2>2 DEF TypeOK
  <2>6. ASSUME NEW e \in steady[r], step[r] = "read", At[e] < cursor[r]
        PROVE  TierOf[e] \in left'[r] \/ e \in rows'[r] \/ Crowd(rows'[r], Limit(r), e)
    <3>1. CASE TierOf[e] = t
      <4>1. e \in Matching(r, t) /\ e \in Events
        BY <2>6, <3>1 DEF Matching, StoreInv, TypeOK
      <4>2. e \in P \/ (Cardinality(P) = Limit(r) /\ \A x \in P : At[x] > At[e])
        BY <2>4, <4>1, LeftOutIsOlder
      <4>3. QED
        BY <2>5, <4>2 DEF Crowd
    <3>2. CASE TierOf[e] # t
      BY <2>5, <2>6, <3>2, CrowdGrows DEF ReadsAll
    <3>3. QED
      BY <3>1, <3>2
  <2>7. ReadsAll'
    BY <2>2, <2>5, <2>6 DEF ReadsAll
  <2>8. QED
    BY <2>3, <2>7
<1>5. ASSUME NEW r \in Readers, ReturnPage(r) \/ ExportPage(r) PROVE ReadsAll' /\ NothingSkipped'
  <2>1. PICK page, more : Hands(r, page, more)
    BY <1>5, PagesAreHanded
  <2>2. /\ step[r] = "read" /\ left[r] = {} /\ page \in SUBSET Events /\ steady' = steady
        /\ got' = [got EXCEPT ![r] = @ \cup page]
        /\ rows' = [rows EXCEPT ![r] = {}]
        /\ left' = left
        /\ cursor' = [cursor EXCEPT ![r] = IF more THEN LastTs(page) ELSE @]
        /\ step' = [step EXCEPT ![r] = IF more THEN "next" ELSE "done"]
    BY <2>1 DEF Hands, Deliver
  <2>3. /\ step'[r] # "read" /\ got'[r] = got[r] \cup page
        /\ cursor'[r] = IF more THEN LastTs(page) ELSE cursor[r]
        /\ step'[r] = "done" => ~more
        /\ \A q \in Readers \ {r} : /\ step'[q] = step[q] /\ cursor'[q] = cursor[q]
                                    /\ got'[q] = got[q] /\ rows'[q] = rows[q]
    BY <2>2 DEF TypeOK
  <2>4. ReadsAll'
    BY <2>2, <2>3 DEF ReadsAll
  <2>5. ASSUME NEW e \in steady[r], At[e] >= cursor'[r] \/ step'[r] = "done"
        PROVE  e \in got'[r]
    <3>1. e \in Events /\ At[e] \in Nat /\ cursor[r] \in Nat
      BY QueryAssumption DEF StoreInv, TypeOK
    <3>2. CASE At[e] >= cursor[r]
      BY <2>3, <3>2 DEF NothingSkipped
    <3>3. CASE At[e] < cursor[r]
      <4>1. e \in rows[r] \/ Crowd(rows[r], Limit(r), e)
        BY <2>2, <3>3 DEF ReadsAll
      <4>2. e \in page \/ (more /\ \A x \in page : At[x] > At[e])
        BY <2>1, <3>1, <4>1 DEF Hands, Keeps
      <4>3. more => /\ LastTs(page) \in Nat
                    /\ \E x \in page : LastTs(page) = At[x]
        BY <2>1, LastTsOldest DEF Hands
      <4>4. ~(more /\ \A x \in page : At[x] > At[e])
        BY <2>3, <2>5, <3>1, <4>3
      <4>5. QED
        BY <2>3, <4>2, <4>4
    <3>4. QED
      BY <3>1, <3>2, <3>3
  <2>6. NothingSkipped'
    BY <2>2, <2>3, <2>5 DEF NothingSkipped
  <2>7. QED
    BY <2>4, <2>6
<1>6. CASE UNCHANGED vars
  BY <1>6 DEF vars, readVars, history, ReadsAll, NothingSkipped
<1>7. QED
  BY <1>1, <1>2, <1>3, <1>4, <1>5, <1>6 DEF Next

(* Nothing is skipped: an event that query_events or export_events could   *)
(* see all the time has been returned when the cursor has passed it and    *)
(* when the listing is over, whatever else is stored and removed, provided *)
(* that no two events have the same timestamp.                             *)
THEOREM NothingIsSkipped ==
  ASSUME Distinct
  PROVE  Spec => []NothingSkipped
<1>1. Init => SkipInv
  BY DEF Init, SkipInv, StoreInv, ReadsAll, NothingSkipped
<1>2. TypeOK /\ SkipInv /\ [Next]_vars => SkipInv'
  BY NextSkipInv
<1>3. SkipInv => NothingSkipped
  BY DEF SkipInv
<1>4. QED
  BY <1>1, <1>2, <1>3, QueryTypeCorrect, PTL DEF Spec

====
