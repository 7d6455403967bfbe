------------------------------ MODULE MCIngest ------------------------------
(* Small instances of Ingest for TLC.                                      *)
EXTENDS Ingest

CONSTANTS a1, a2, a3           \* single events, with a key
CONSTANT  f                    \* a fire-and-forget event
CONSTANTS b1, b2, b3           \* the events of a batch
CONSTANTS k1, k2               \* idempotency keys

(* Two attempts with one key and one with another, in the same shard.      *)
Keyed == {a1, a2, a3}
Batch == <<b1, b2, b3>>
All == Keyed \cup {f} \cup ToSet(Batch)
AllKeyOf == [a \in All |-> CASE a \in {a1, a2} -> k1
                             [] a = a3 -> k2
                             [] OTHER -> NoKey]
KeyedKeyOf == [a \in Keyed |-> AllKeyOf[a]]
OneBatch == {Batch}
SameHash == [k \in Keys |-> 3]

(* Keyed, batched and fire-and-forget requests share the writer, in which  *)
(* every event is on its own, and nothing else.  So the keyed ones run     *)
(* after the other ones were rejected (507), or the other way round.       *)
SplitSpec == (InitAfter(Keyed) \/ InitAfter(All \ Keyed)) /\ [][Next]_vars

====
