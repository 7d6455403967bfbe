------------------------------ MODULE EventLog ------------------------------
(***************************************************************************)
(* What the ingestion path promises the clients of keplor about an event,  *)
(* with no channel, batch, shard or task in sight.  Every event has a      *)
(* status, as its client sees it, and a place: nowhere, durable (fsynced,  *)
(* recovered after a crash, not yet queryable) or visible to queries.      *)
(***************************************************************************)
CONSTANT Events

VARIABLES
  status,    \* status[e]: what the client knows
  durable,   \* events on disk that queries do not see yet
  visible    \* events that queries see

logVars == <<status, durable, visible>>

(* "unknown" is an error, a timeout or a lost connection: the event may or *)
(* may not be stored, now or later.                                        *)
Statuses == {"new", "pending", "acked", "accepted", "refused", "unknown"}

LogTypeOK ==
  /\ status \in [Events -> Statuses]
  /\ durable \in SUBSET Events
  /\ visible \in SUBSET Events

LogInit ==
  /\ status = [e \in Events |-> "new"]
  /\ durable = {}
  /\ visible = {}

Become(S, to) == status' = [e \in Events |-> IF e \in S THEN to ELSE status[e]]

(* A client submits the events of one call; a writer that is shutting down *)
(* turns all of them away.                                                 *)
Submit(S) ==
  /\ \A e \in S : status[e] = "new"
  /\ Become(S, "pending") \/ Become(S, "refused")
  /\ UNCHANGED <<durable, visible>>

(* Ok is told of stored events only.                                       *)
Ack(S) ==
  /\ \A e \in S : status[e] = "pending"
  /\ S \subseteq durable \cup visible
  /\ Become(S, "acked")
  /\ UNCHANGED <<durable, visible>>

Accept(e) ==
  /\ status[e] = "pending"
  /\ Become({e}, "accepted")
  /\ UNCHANGED <<durable, visible>>

(* A refusal is final: Persist never stores a refused event.               *)
Refuse(e) ==
  /\ status[e] = "pending"
  /\ e \notin durable \cup visible
  /\ Become({e}, "refused")
  /\ UNCHANGED <<durable, visible>>

Fail(S) ==
  /\ \A e \in S : status[e] = "pending"
  /\ Become(S, "unknown")
  /\ UNCHANGED <<durable, visible>>

(* Submitted events reach the disk, each of them once.                     *)
Persist(S) ==
  /\ \A e \in S : status[e] \notin {"new", "acked", "refused"}
  /\ S \cap (durable \cup visible) = {}
  /\ durable' = durable \cup S
  /\ UNCHANGED <<status, visible>>

Publish(S) ==
  /\ S \subseteq durable
  /\ durable' = durable \ S
  /\ visible' = visible \cup S
  /\ UNCHANGED status

(* A crash leaves every client without an answer and some of the events    *)
(* that were being written on the disk.                                    *)
Crash(S) ==
  /\ \A e \in S : status[e] \notin {"new", "acked", "refused"}
  /\ S \cap (durable \cup visible) = {}
  /\ durable' = durable \cup S
  /\ Become({e \in Events : status[e] = "pending"}, "unknown")
  /\ UNCHANGED visible

LogNext ==
  \/ \E S \in SUBSET Events : Submit(S) \/ Ack(S) \/ Fail(S) \/ Persist(S) \/ Publish(S) \/ Crash(S)
  \/ \E e \in Events : Accept(e) \/ Refuse(e)

LogSpec == LogInit /\ [][LogNext]_logVars

====
