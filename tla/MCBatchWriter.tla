---------------------------- MODULE MCBatchWriter ----------------------------
(* Small instances of BatchWriter for TLC.                                 *)
EXTENDS BatchWriter

CONSTANTS e1, e2, e3           \* events
CONSTANTS hot, cold            \* tiers

(* A write_many of two events and a fire-and-forget event.                 *)
MixedEvents == {e1, e2, e3}
MixedRequests == {<<e1, e2>>, <<e3>>}
MixedTierOf == (e1 :> hot) @@ (e2 :> cold) @@ (e3 :> cold)


(* The same events in one tier: a checkpoint is one step.                  *)
OneTierOf == [e \in MixedEvents |-> hot]


(* One write_many of three events: the third waits for the first channel.  *)
ManyRequests == {<<e1, e2, e3>>}

====
