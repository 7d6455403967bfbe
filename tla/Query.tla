------------------------------- MODULE Query -------------------------------
(***************************************************************************)
(* Reading the store page by page while it changes: KdbStore::query over   *)
(* the engines of all tiers, GET /v1/events with its cursor, and           *)
(* export_events, which pages through the store for its caller.            *)
(*                                                                         *)
(* Events stands for the events that match the filter of the request.      *)
(***************************************************************************)
EXTENDS Integers, FiniteSets, FiniteSetsExt

CONSTANTS
  Events,       \* the matching events
  At,           \* At[e]: the timestamp (ts_ns) of e
  Tiers,        \* the retention tiers
  TierOf,       \* the tier of each event
  Pagers,       \* clients that follow the cursor of GET /v1/events
  Exporters,    \* requests to GET /v1/events/export
  PageLimit,    \* the limit the pagers ask for
  ExportLimit,  \* the page size of export_events (1000 in the code)
  NoCursor      \* the cursor of a first request: above every timestamp

Readers == Pagers \cup Exporters

ASSUME QueryAssumption ==
  /\ IsFiniteSet(Events)
  /\ At \in [Events -> Nat]
  /\ TierOf \in [Events -> Tiers]
  /\ PageLimit \in Nat \ {0}
  /\ ExportLimit \in Nat \ {0}
  /\ NoCursor \in Nat
  /\ \A e \in Events : At[e] < NoCursor
  /\ Pagers \cap Exporters = {}

VARIABLES
  stored,   \* history: the events stored so far
  live,     \* the events the engines return
  mounted,  \* the tiers that have an engine
  step,     \* step[r]: what reader r is doing
  cursor,   \* cursor[r]: the cursor of its next page
  left,     \* left[r]: the engines its query has still to read
  rows,     \* rows[r]: what the engines have returned so far
  got,      \* got[r]: the events delivered to r
  twice,    \* history: the events delivered to r more than once
  steady    \* history: the events that have been live since r started

storeVars == <<stored, live, mounted>>
readVars == <<step, cursor, left, rows>>
history == <<got, twice, steady>>
vars == <<storeVars, readVars, history>>

-----------------------------------------------------------------------------
(* The n newest of S, any of them where timestamps tie: the choices of a   *)
(* sort by timestamp alone followed by truncate(n).                        *)
Newest(S, n) ==
  LET size == Min({n, Cardinality(S)}) IN
  {P \in kSubset(size, S) : \A x \in P, y \in S \ P : At[x] >= At[y]}

(* The limit a reader passes to query: a pager asks for one more event     *)
(* than it returns, to learn whether there are more.                       *)
Limit(r) == IF r \in Exporters THEN ExportLimit ELSE PageLimit + 1

(* Mutant: the cursor is inclusive.                                        *)
MatchingInclusive(r, t) == {e \in live : TierOf[e] = t /\ At[e] <= cursor[r]}

(* What query_recent of one engine sees of the page after the cursor.      *)
Matching(r, t) == {e \in live : TierOf[e] = t /\ At[e] < cursor[r]}

-----------------------------------------------------------------------------

Init ==
  /\ stored = {}
  /\ live = {}
  /\ mounted = {}
  /\ step = [r \in Readers |-> "idle"]
  /\ cursor = [r \in Readers |-> NoCursor]
  /\ left = [r \in Readers |-> {}]
  /\ rows = [r \in Readers |-> {}]
  /\ got = [r \in Readers |-> {}]
  /\ twice = [r \in Readers |-> {}]
  /\ steady = [r \in Readers |-> {}]

(* An event becomes visible, with any timestamp: clients choose it.  The   *)
(* first event of a tier mounts the tier's engine.                         *)
Store(e) ==
  /\ e \notin stored
  /\ stored' = stored \cup {e}
  /\ live' = live \cup {e}
  /\ mounted' = mounted \cup {TierOf[e]}
  /\ UNCHANGED <<readVars, history>>

(* Deletion, garbage collection and archival remove events.                *)
Remove(e) ==
  /\ e \in live
  /\ live' = live \ {e}
  /\ steady' = [r \in Readers |-> steady[r] \ {e}]
  /\ UNCHANGED <<stored, mounted, readVars, got, twice>>

(* query: the engines are listed once, when it starts.                     *)
StartQuery(r) ==
  /\ step[r] \in {"idle", "next"}
  /\ step' = [step EXCEPT ![r] = "read"]
  /\ left' = [left EXCEPT ![r] = mounted]
  /\ steady' = IF step[r] = "idle" THEN [steady EXCEPT ![r] = live] ELSE steady
  /\ UNCHANGED <<storeVars, cursor, rows, got, twice>>

(* One engine after the other returns its newest matching rows.            *)
ReadEngine(r, t) ==
  /\ step[r] = "read"
  /\ t \in left[r]
  /\ \E P \in Newest(Matching(r, t), Limit(r)) : rows' = [rows EXCEPT ![r] = @ \cup P]
  /\ left' = [left EXCEPT ![r] = @ \ {t}]
  /\ UNCHANGED <<storeVars, step, cursor, history>>

(* An engine fails: the page request ends with 500, and the pager may ask  *)
(* for the same page again; an export is over.                             *)
ReadFails(r) ==
  /\ step[r] = "read"
  /\ left[r] # {}
  /\ step' = [step EXCEPT ![r] = IF r \in Exporters THEN "failed" ELSE "next"]
  /\ left' = [left EXCEPT ![r] = {}]
  /\ rows' = [rows EXCEPT ![r] = {}]
  /\ UNCHANGED <<storeVars, cursor, history>>

Deliver(r, page) ==
  /\ got' = [got EXCEPT ![r] = @ \cup page]
  /\ twice' = [twice EXCEPT ![r] = @ \cup (got[r] \cap page)]
  /\ rows' = [rows EXCEPT ![r] = {}]
  /\ UNCHANGED <<storeVars, left, steady>>

(* The oldest timestamp of a page.                                         *)
LastTs(page) == Min({At[e] : e \in page})

(* Mutant: the cursor is that of the extra row, which is not returned.     *)
ReturnPageSkipsExtra(r) ==
  /\ r \in Pagers
  /\ step[r] = "read"
  /\ left[r] = {}
  /\ \E merged \in Newest(rows[r], Limit(r)) : \E page \in Newest(merged, PageLimit) :
       LET has_more == Cardinality(merged) > PageLimit IN
       /\ Deliver(r, page)
       /\ cursor' = [cursor EXCEPT ![r] = IF has_more THEN LastTs(merged) ELSE @]
       /\ step' = [step EXCEPT ![r] = IF has_more THEN "next" ELSE "done"]

(* query_events: of the merged rows, limit + 1 of them at most, limit are  *)
(* returned; the cursor is there only if one was left over.                *)
ReturnPage(r) ==
  /\ r \in Pagers
  /\ step[r] = "read"
  /\ left[r] = {}
  /\ \E merged \in Newest(rows[r], Limit(r)) : \E page \in Newest(merged, PageLimit) :
       LET has_more == Cardinality(merged) > PageLimit IN
       /\ Deliver(r, page)
       /\ cursor' = [cursor EXCEPT ![r] = IF has_more THEN LastTs(page) ELSE @]
       /\ step' = [step EXCEPT ![r] = IF has_more THEN "next" ELSE "done"]

(* export_events: go on from the last timestamp until a page is empty.     *)
ExportPage(r) ==
  /\ r \in Exporters
  /\ step[r] = "read"
  /\ left[r] = {}
  /\ \E page \in Newest(rows[r], Limit(r)) :
       /\ Deliver(r, page)
       /\ cursor' = [cursor EXCEPT ![r] = IF page # {} THEN LastTs(page) ELSE @]
       /\ step' = [step EXCEPT ![r] = IF page # {} THEN "next" ELSE "done"]

Next ==
  \/ \E e \in Events : Store(e) \/ Remove(e)
  \/ \E r \in Readers : \/ StartQuery(r) \/ ReadFails(r)
                        \/ \E t \in Tiers : ReadEngine(r, t)
                        \/ ReturnPage(r) \/ ExportPage(r)

Spec == Init /\ [][Next]_vars

(* A client that asks for the next page as long as there is one, and       *)
(* engines that stop failing at last.                                      *)
Fairness ==
  \A r \in Readers :
    /\ WF_vars(step[r] = "next" /\ StartQuery(r))
    /\ WF_vars(\E t \in Tiers : ReadEngine(r, t))
    /\ WF_vars(ReturnPage(r) \/ ExportPage(r))
    /\ <>[][~ReadFails(r)]_vars

FairSpec == Spec /\ Fairness

-----------------------------------------------------------------------------
(* Properties *)

(* Type correctness of the store's and the readers' state.                 *)
TypeOK ==
  /\ stored \in SUBSET Events
  /\ live \in SUBSET Events
  /\ mounted \in SUBSET Tiers
  /\ step \in [Readers -> {"idle", "read", "next", "done", "failed"}]
  /\ cursor \in [Readers -> 0 .. NoCursor]
  /\ left \in [Readers -> SUBSET Tiers]
  /\ rows \in [Readers -> SUBSET Events]
  /\ got \in [Readers -> SUBSET Events]
  /\ twice \in [Readers -> SUBSET Events]
  /\ steady \in [Readers -> SUBSET Events]

(* No reader is given an event twice, however the store changes between    *)
(* its pages and between the engines of a page.                            *)
NoDuplicates == \A r \in Readers : twice[r] = {}

(* Nothing that was there all the time is skipped: an event that is live   *)
(* since the reader started has been delivered once the cursor has passed  *)
(* it, and in any case when the listing is over.                           *)
NothingSkipped ==
  \A r \in Readers : \A e \in steady[r] :
     At[e] >= cursor[r] \/ step[r] = "done" => e \in got[r]

(* A listing that is followed page by page ends.                           *)
ListingEnds == \A r \in Readers : step[r] = "next" ~> step[r] \in {"done", "failed"}

====
