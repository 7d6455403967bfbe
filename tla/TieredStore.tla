----------------------------- MODULE TieredStore -----------------------------
(***************************************************************************)
(* What becomes of a stored event, with no chunk, manifest, page or cycle  *)
(* in sight.  An event is hot (in an engine), cold (in the archive), both, *)
(* or gone; a user's request to be erased is open until it succeeds or     *)
(* fails.                                                                  *)
(***************************************************************************)
EXTENDS Integers

CONSTANTS Events, At, UserOf, Retention, Erasures

VARIABLES
  now,       \* the clock
  known,     \* the events ever stored
  hot,       \* the events in the engines
  cold,      \* the events the archive can give back
  request,   \* request[u]: where the erasure of u stands
  owed       \* owed[u]: what u had in the engines when it was asked for

tierVars == <<now, known, hot, cold, request, owed>>

Of(u) == {e \in hot : UserOf[e] = u}

TierInit ==
  /\ now = 0
  /\ known = {} /\ hot = {} /\ cold = {}
  /\ request = [u \in Erasures |-> "no"]
  /\ owed = [u \in Erasures |-> {}]

(* An event is stored once.                                                *)
Add(e) ==
  /\ e \notin known
  /\ At[e] <= now
  /\ known' = known \cup {e}
  /\ hot' = hot \cup {e}
  /\ UNCHANGED <<now, cold, request, owed>>

Tick == now' = now + 1 /\ UNCHANGED <<known, hot, cold, request, owed>>

(* The archive takes copies, also of events that have left the engines     *)
(* since the archiver read them, and gives none of them up.                *)
Copy(S) ==
  /\ S \subseteq known
  /\ cold' = cold \cup S
  /\ UNCHANGED <<now, known, hot, request, owed>>

(* An event may leave the engines for one of three reasons: it is cold,    *)
(* ...                                                                     *)
Evict(S) ==
  /\ S \subseteq cold
  /\ hot' = hot \ S
  /\ UNCHANGED <<now, known, cold, request, owed>>

(* ... it has expired ...                                                  *)
Expire(S) ==
  /\ Retention > 0
  /\ \A e \in S : At[e] < now - Retention
  /\ hot' = hot \ S
  /\ UNCHANGED <<now, known, cold, request, owed>>

Ask(u) ==
  /\ request[u] = "no"
  /\ request' = [request EXCEPT ![u] = "open"]
  /\ owed' = [owed EXCEPT ![u] = Of(u)]
  /\ UNCHANGED <<now, known, hot, cold>>

(* ... or its user's request is open, which succeeds only when all that is *)
(* owed has gone.                                                          *)
Erase(u, S) ==
  /\ request[u] = "open"
  /\ S \subseteq Of(u)
  /\ hot' = hot \ S
  /\ \/ UNCHANGED request
     \/ request' = [request EXCEPT ![u] = "failed"]
     \/ owed[u] \cap hot' = {} /\ request' = [request EXCEPT ![u] = "done"]
  /\ UNCHANGED <<now, known, cold, owed>>

(* A crash ends the open requests.  Copies and deletions that were under   *)
(* way may have been made.                                                 *)
Crash(C, S) ==
  /\ C \subseteq known
  /\ cold' = cold \cup C
  /\ \A e \in S : e \in cold \/ \E u \in Erasures : request[u] = "open" /\ e \in Of(u)
  /\ hot' = hot \ S
  /\ request' = [u \in Erasures |-> IF request[u] = "open" THEN "failed" ELSE request[u]]
  /\ UNCHANGED <<now, known, owed>>

TierNext ==
  \/ \E e \in Events : Add(e)
  \/ Tick
  \/ \E S \in SUBSET Events :
       \/ Copy(S) \/ Evict(S) \/ Expire(S)
       \/ \E u \in Erasures : Erase(u, S)
       \/ \E C \in SUBSET Events : Crash(C, S)
  \/ \E u \in Erasures : Ask(u)

TierSpec == TierInit /\ [][TierNext]_tierVars

====
