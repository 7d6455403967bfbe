-------------------------- MODULE BatchWriterProofs --------------------------
(***************************************************************************)
(* Proofs about BatchWriter, for every set of events, tiers and requests   *)
(* and every configuration.                                                *)
(***************************************************************************)
EXTENDS BatchWriter, TLAPS

(* pick_shard stays within the shards.                                     *)
LEMMA NextShard ==
  \A i \in Shards : (i + 1) % FlushShards \in Shards
BY ConfigAssumption DEF Shards

(* There is a shard.                                                       *)
LEMMA ZeroIsShard == 0 \in Shards
BY ConfigAssumption DEF Shards

(* The shares of a shard in batch size and capacity are positive.          *)
LEMMA BatchIsNat == PerShardBatch \in Nat \ {0} /\ PerShardCap \in Nat \ {0}
BY ConfigAssumption DEF PerShardBatch, PerShardCap

(* The elements of a sequence over S are in S.                             *)
LEMMA ToSetType ==
  ASSUME NEW S, NEW q \in Seq(S)
  PROVE  ToSet(q) \subseteq S
BY DEF ToSet

-----------------------------------------------------------------------------
(* Type correctness *)

(* What append_only hands to its job is well typed when its batch is.      *)
LEMMA StartFlushType ==
  ASSUME TypeOK,
         NEW s \in Shards, NEW b \in Seq(Events), NEW then \in {"flush", "drain"},
         StartFlush(s, b, then)
  PROVE  /\ buffer' \in [Shards -> Seq(Events)]
         /\ flight' \in [Shards -> SUBSET Events]
         /\ todo' \in [Shards -> SUBSET Tiers]
         /\ job' \in [Shards -> {"none", "run", "ok", "err"}]
         /\ loop' \in [Shards -> {"run", "flush", "drain", "final", "exited", "aborted"}]
<1>1. ToSet(b) \subseteq Events
  BY ToSetType
<1>2. {TierOf[e] : e \in ToSet(b)} \subseteq Tiers
  BY <1>1, EventAssumption
<1>3. buffer' \in [Shards -> Seq(Events)]
  BY DEF StartFlush, TypeOK
<1>4. flight' \in [Shards -> SUBSET Events]
  BY <1>1 DEF StartFlush, TypeOK
<1>5. todo' \in [Shards -> SUBSET Tiers]
  BY <1>2 DEF StartFlush, TypeOK
<1>6. QED
  BY <1>3, <1>4, <1>5 DEF StartFlush, TypeOK

(* Recv moves a prefix of the channel to the buffer, and flushes a full    *)
(* buffer.  The prefix has a length only because the buffer was not full.  *)
LEMMA RecvType ==
  ASSUME TypeOK, QueueBounds, NEW s \in Shards, Recv(s)
  PROVE  /\ chan' \in [Shards -> Seq(Events)]
         /\ buffer' \in [Shards -> Seq(Events)]
         /\ flight' \in [Shards -> SUBSET Events]
         /\ todo' \in [Shards -> SUBSET Tiers]
         /\ job' \in [Shards -> {"none", "run", "ok", "err"}]
         /\ loop' \in [Shards -> {"run", "flush", "drain", "final", "exited", "aborted"}]
         /\ QueueBounds'
<1> DEFINE room == PerShardBatch - Len(buffer[s])
           n == IF Len(chan[s]) < room THEN Len(chan[s]) ELSE room
           b == buffer[s] \o SubSeq(chan[s], 1, n)
           rest == SubSeq(chan[s], n + 1, Len(chan[s]))
<1>1. chan[s] \in Seq(Events) /\ buffer[s] \in Seq(Events)
  BY DEF TypeOK
<1>2. n \in Nat /\ n <= Len(chan[s])
  BY <1>1, BatchIsNat DEF QueueBounds
<1>3. SubSeq(chan[s], 1, n) \in Seq(Events)
  BY <1>1, <1>2
<1>4. rest \in Seq(Events) /\ Len(rest) <= Len(chan[s])
  BY <1>1, <1>2
<1>5. b \in Seq(Events)
  BY <1>1, <1>3
<1>6. chan' \in [Shards -> Seq(Events)] /\ chan' = [chan EXCEPT ![s] = rest]
  BY <1>4 DEF Recv, TypeOK
<1>7. \A z \in Shards : Len(chan'[z]) <= PerShardCap
  BY <1>1, <1>4, <1>6, BatchIsNat DEF QueueBounds, TypeOK
<1>8. CASE Len(b) >= PerShardBatch
  <2>1. StartFlush(s, b, "flush")
    BY <1>8 DEF Recv
  <2>2. \A z \in Shards : Len(buffer'[z]) < PerShardBatch
    BY <2>1, BatchIsNat DEF StartFlush, QueueBounds, TypeOK
  <2>3. QED
    BY <1>5, <1>6, <1>7, <2>1, <2>2, StartFlushType DEF QueueBounds
<1>9. CASE ~(Len(b) >= PerShardBatch)
  <2>1. buffer' = [buffer EXCEPT ![s] = b] /\ UNCHANGED <<loop, flight, todo, job>>
    BY <1>9 DEF Recv, jobVars
  <2>2. \A z \in Shards : Len(buffer'[z]) < PerShardBatch
    BY <1>5, <1>9, <2>1, BatchIsNat DEF QueueBounds, TypeOK
  <2>3. QED
    BY <1>5, <1>6, <1>7, <2>1, <2>2 DEF TypeOK, QueueBounds
<1>10. QED
  BY <1>8, <1>9

(* The part of the inductive invariant that only concerns types and sizes. *)
TypeInv == TypeOK /\ QueueBounds

(* A new writer has empty queues.                                          *)
LEMMA InitTypeInv == Init => TypeInv
<1> SUFFICES ASSUME Init PROVE TypeInv
  OBVIOUS
<1>1. TypeOK
  <2>1. crashes \in 0 .. MaxCrashes
    BY ConfigAssumption DEF Init
  <2>2. chan \in [Shards -> Seq(Events)] /\ buffer \in [Shards -> Seq(Events)]
    BY DEF Init
  <2>3. phase \in [Events -> Phases]
    BY DEF Init, Phases
  <2>4. flight \in [Shards -> SUBSET Events] /\ todo \in [Shards -> SUBSET Tiers]
    BY DEF Init
  <2>5. ckpt \in [Checkpointers -> SUBSET Tiers]
    BY DEF Init
  <2>6. QED
    BY <2>1, <2>2, <2>3, <2>4, <2>5, ZeroIsShard DEF Init, TypeOK
<1>2. \A s \in Shards : Len(chan[s]) = 0 /\ Len(buffer[s]) = 0
  BY DEF Init
<1>3. QED
  BY <1>1, <1>2, BatchIsNat DEF TypeInv, QueueBounds

(* What a shard has queued are events.                                     *)
LEMMA QueuedType ==
  ASSUME TypeOK, NEW s \in Shards
  PROVE  Queued(s) \subseteq Events /\ Held(s) \subseteq Events
BY ToSetType DEF TypeOK, Queued, Held

(* A send into a channel with a free slot.                                 *)
LEMMA EnqueueType ==
  ASSUME TypeInv, NEW s \in Shards, NEW e \in Events,
         \/ Len(chan[s]) < PerShardCap /\ chan' = [chan EXCEPT ![s] = Append(@, e)]
         \/ UNCHANGED chan
  PROVE  /\ chan' \in [Shards -> Seq(Events)]
         /\ \A z \in Shards : Len(chan'[z]) <= PerShardCap
<1>1. chan[s] \in Seq(Events)
  BY DEF TypeInv, TypeOK
<1>2. Append(chan[s], e) \in Seq(Events) /\ Len(Append(chan[s], e)) = Len(chan[s]) + 1
  BY <1>1
<1>3. Len(chan[s]) \in Nat
  BY <1>1
<1>4. CASE Len(chan[s]) < PerShardCap /\ chan' = [chan EXCEPT ![s] = Append(@, e)]
  <2>1. chan' = [chan EXCEPT ![s] = Append(chan[s], e)] /\ chan \in [Shards -> Seq(Events)]
    BY <1>4 DEF TypeInv, TypeOK
  <2>2. chan' \in [Shards -> Seq(Events)]
    BY <1>2, <2>1
  <2>3. ASSUME NEW z \in Shards PROVE Len(chan'[z]) <= PerShardCap
    <3>1. CASE z = s
      BY <1>2, <1>3, <1>4, <2>1, <3>1, BatchIsNat
    <3>2. CASE z # s
      BY <2>1, <3>2 DEF TypeInv, QueueBounds
    <3>3. QED
      BY <3>1, <3>2
  <2>4. QED
    BY <2>2, <2>3
<1>5. CASE UNCHANGED chan
  BY <1>5 DEF TypeInv, TypeOK, QueueBounds
<1>6. QED
  BY <1>4, <1>5

(* Every step of a caller, a loop, a job, the rotator or the owner keeps   *)
(* types and bounds.                                                       *)
LEMMA NextTypeInv == TypeInv /\ [Next]_vars => TypeInv'
<1> SUFFICES ASSUME TypeInv, [Next]_vars PROVE TypeInv'
  OBVIOUS
<1> USE DEF TypeInv, Phases, Unsettled, Settled
<1>1. ASSUME NEW r \in Requests, Begin(r) PROVE TypeInv'
  BY <1>1 DEF Begin, TypeOK, QueueBounds, ownerVars, loopVars, jobVars, storeVars, ghostVars
<1>2. ASSUME NEW r \in Requests, Pick(r) PROVE TypeInv'
  <2>1. PICK i \in DOMAIN r : /\ phase' = [phase EXCEPT ![r[i]] = "sending"]
                              /\ shard' = [shard EXCEPT ![r[i]] = nextTx]
                              /\ nextTx' = (nextTx + 1) % FlushShards
                              /\ UNCHANGED <<ownerVars, loopVars, jobVars, storeVars, ckpt, ghostVars>>
    BY <1>2 DEF Pick
  <2>2. nextTx' \in Shards
    BY <2>1, NextShard DEF TypeOK
  <2>3. phase' \in [Events -> Phases] /\ shard' \in [Events -> Shards]
    BY <2>1 DEF TypeOK
  <2>4. QED
    BY <2>1, <2>2, <2>3 DEF TypeOK, QueueBounds, ownerVars, loopVars, jobVars, storeVars, ghostVars
<1>3. ASSUME NEW r \in Requests, Abandon(r) PROVE TypeInv'
  BY <1>3, ZeroIsShard
     DEF Abandon, TypeOK, QueueBounds, ownerVars, loopVars, jobVars, storeVars, ghostVars
<1>4. ASSUME NEW e \in Events, Send(e) PROVE TypeInv'
  <2>1. shard[e] \in Shards /\ shard' \in [Events -> Shards] /\ phase' \in [Events -> Phases]
    BY <1>4, ZeroIsShard DEF Send, TypeOK
  <2>2. /\ chan' \in [Shards -> Seq(Events)]
        /\ \A s \in Shards : Len(chan'[s]) <= PerShardCap
    BY <1>4, <2>1, EnqueueType DEF Send
  <2>3. QED
    BY <1>4, <2>1, <2>2 DEF Send, TypeOK, QueueBounds, ownerVars, jobVars, storeVars, ghostVars
<1>5. ASSUME NEW e \in Events, TrySend(e) PROVE TypeInv'
  <2>1. nextTx' \in Shards /\ nextTx \in Shards
    BY <1>5, NextShard DEF TrySend, TypeOK
  <2>2. phase' \in [Events -> Phases]
    BY <1>5 DEF TrySend, TypeOK
  <2>3. /\ chan' \in [Shards -> Seq(Events)]
        /\ \A s \in Shards : Len(chan'[s]) <= PerShardCap
    BY <1>5, <2>1, EnqueueType DEF TrySend
  <2>4. QED
    BY <1>5, <2>1, <2>2, <2>3
       DEF TrySend, TypeOK, QueueBounds, ownerVars, jobVars, storeVars, ghostVars
<1>6. ASSUME NEW s \in Shards, Recv(s) PROVE TypeInv'
  BY <1>6, RecvType DEF Recv, TypeOK, callerVars, ownerVars, storeVars, ghostVars
<1>7. ASSUME NEW s \in Shards, Tick(s) PROVE TypeInv'
  <2>1. buffer[s] \in Seq(Events) /\ StartFlush(s, buffer[s], "flush")
    BY <1>7 DEF Tick, TypeOK
  <2>2. QueueBounds'
    BY <1>7, <2>1, BatchIsNat DEF Tick, StartFlush, QueueBounds, TypeOK
  <2>3. QED
    BY <1>7, <2>1, <2>2, StartFlushType DEF Tick, TypeOK, callerVars, ownerVars, storeVars, ghostVars
<1>8. ASSUME NEW s \in Shards, RecvNone(s) PROVE TypeInv'
  <2>1. CASE buffer[s] # <<>>
    <3>1. buffer[s] \in Seq(Events) /\ StartFlush(s, buffer[s], "drain") /\ UNCHANGED ckpt
      BY <1>8, <2>1 DEF RecvNone, TypeOK
    <3>2. QueueBounds'
      BY <1>8, <3>1, BatchIsNat DEF RecvNone, StartFlush, QueueBounds, TypeOK
    <3>3. QED
      BY <1>8, <3>1, <3>2, StartFlushType
         DEF RecvNone, TypeOK, callerVars, ownerVars, storeVars, ghostVars
  <2>2. CASE buffer[s] = <<>>
    BY <1>8, <2>2 DEF RecvNone, TypeOK, QueueBounds, Checkpointers,
                      callerVars, ownerVars, jobVars, storeVars, ghostVars
  <2>3. QED
    BY <2>1, <2>2
<1>9. ASSUME NEW s \in Shards, AppendTier(s) PROVE TypeInv'
  BY <1>9 DEF AppendTier, TypeOK, QueueBounds, callerVars, ownerVars, loopVars, ghostVars
<1>10. ASSUME NEW s \in Shards, AppendFails(s) PROVE TypeInv'
  BY <1>10 DEF AppendFails, TypeOK, QueueBounds, callerVars, ownerVars, loopVars, ghostVars
<1>11. ASSUME NEW s \in Shards, FinishFlush(s) PROVE TypeInv'
  BY <1>11 DEF FinishFlush, Reply, TypeOK, QueueBounds, Checkpointers, ownerVars, storeVars
<1>12. ASSUME NEW s \in Shards, LoopExit(s) PROVE TypeInv'
  BY <1>12 DEF LoopExit, TypeOK, QueueBounds, callerVars, ownerVars, jobVars, storeVars, ghostVars
<1>13. ASSUME NEW c \in Checkpointers, StartCheckpoint(c) PROVE TypeInv'
  BY <1>13 DEF StartCheckpoint, TypeOK, QueueBounds, callerVars, ownerVars, loopVars, jobVars,
               storeVars, ghostVars
<1>14. ASSUME NEW c \in Checkpointers, NEW t \in Tiers, FlushEngine(c, t) PROVE TypeInv'
  BY <1>14 DEF FlushEngine, InTier, TypeOK, QueueBounds, callerVars, ownerVars, loopVars,
               jobVars, ghostVars
<1>15. ASSUME NEW c \in Checkpointers, FlushEngineFails(c) PROVE TypeInv'
  BY <1>15 DEF FlushEngineFails, TypeOK, QueueBounds, callerVars, ownerVars, loopVars, jobVars,
               storeVars, ghostVars
<1>16. CASE Shutdown
  BY <1>16 DEF Shutdown, TypeOK, QueueBounds, callerVars, loopVars, jobVars, storeVars, ghostVars
<1>17. CASE ShutdownReturns
  <2>1. TypeOK'
    <3>1. /\ chan' \in [Shards -> Seq(Events)]
          /\ buffer' \in [Shards -> Seq(Events)]
      BY <1>17 DEF ShutdownReturns, TypeOK
    <3>2. /\ loop' \in [Shards -> {"run", "flush", "drain", "final", "exited", "aborted"}]
          /\ phase' \in [Events -> Phases]
      BY <1>17 DEF ShutdownReturns, Reply, TypeOK
    <3>3. lost' \in SUBSET Events
      BY <1>17, QueuedType DEF ShutdownReturns, TypeOK
    <3>4. QED
      BY <1>17, <3>1, <3>2, <3>3 DEF ShutdownReturns, TypeOK, jobVars, storeVars
  <2>2. QueueBounds'
    BY <1>17, BatchIsNat DEF ShutdownReturns, TypeOK, QueueBounds
  <2>3. QED
    BY <2>1, <2>2
<1>18. CASE ShutdownAgain
  BY <1>18 DEF ShutdownAgain, TypeOK, QueueBounds, callerVars, loopVars, jobVars, storeVars, ghostVars
<1>19. CASE Drop
  BY <1>19 DEF Drop, TypeOK, QueueBounds, callerVars, loopVars, jobVars, storeVars, ghostVars
<1>20. CASE Crash
  <2>1. wal' \in SUBSET Events /\ lost' \in SUBSET Events
    BY <1>20 DEF Crash, TypeOK
  <2>2. crashes' \in 0 .. MaxCrashes
    BY <1>20, ConfigAssumption DEF Crash, TypeOK
  <2>3. phase' \in [Events -> Phases]
    BY <1>20 DEF Crash, TypeOK
  <2>4. TypeOK'
    <3>1. chan' \in [Shards -> Seq(Events)] /\ buffer' \in [Shards -> Seq(Events)]
      BY <1>20 DEF Crash
    <3>2. flight' \in [Shards -> SUBSET Events] /\ todo' \in [Shards -> SUBSET Tiers]
      BY <1>20 DEF Crash
    <3>3. ckpt' \in [Checkpointers -> SUBSET Tiers] /\ shard' \in [Events -> Shards]
      BY <1>20, ZeroIsShard DEF Crash
    <3>4. job' \in [Shards -> {"none", "run", "ok", "err"}]
      BY <1>20 DEF Crash
    <3>5. loop' \in [Shards -> {"run", "flush", "drain", "final", "exited", "aborted"}]
      BY <1>20 DEF Crash
    <3>6. QED
      BY <1>20, <2>1, <2>2, <2>3, <3>1, <3>2, <3>3, <3>4, <3>5, ZeroIsShard DEF Crash, TypeOK
  <2>5. \A s \in Shards : Len(chan'[s]) = 0 /\ Len(buffer'[s]) = 0
    BY <1>20 DEF Crash
  <2>6. QED
    BY <2>4, <2>5, BatchIsNat DEF QueueBounds
<1>21. CASE UNCHANGED vars
  BY <1>21 DEF vars, TypeOK, QueueBounds, callerVars, ownerVars, loopVars, jobVars, storeVars, ghostVars
<1>22. QED
  BY <1>1, <1>2, <1>3, <1>4, <1>5, <1>6, <1>7, <1>8, <1>9, <1>10, <1>11, <1>12, <1>13, <1>14,
     <1>15, <1>16, <1>17, <1>18, <1>19, <1>20, <1>21 DEF Next

(* Types and bounds together are an inductive invariant.                   *)
LEMMA TypeInvariance == Spec => []TypeInv
BY InitTypeInv, NextTypeInv, PTL DEF Spec

(* The writer's state keeps its types in every behaviour.                  *)
THEOREM TypeCorrect == Spec => []TypeOK
<1>1. TypeInv => TypeOK
  BY DEF TypeInv
<1>2. QED
  BY <1>1, TypeInvariance, PTL

(* Back-pressure: no channel of a shard outgrows its share of the          *)
(* configured capacity, and no buffer reaches the batch size between two   *)
(* steps of its append loop.                                               *)
THEOREM QueuesBounded == Spec => []QueueBounds
<1>1. TypeInv => QueueBounds
  BY DEF TypeInv
<1>2. QED
  BY <1>1, TypeInvariance, PTL

-----------------------------------------------------------------------------
(* Acknowledged events are durable *)

(* AckedDurable is not inductive: FinishFlush answers on the word of the   *)
(* job.  What makes the answer true is what the job has done: the events   *)
(* of the tiers it has been through are stored, and it reports "ok" only   *)
(* after the last tier.                                                    *)
JobInv ==
  \A s \in Shards :
    /\ job[s] = "run" => \A e \in flight[s] : TierOf[e] \in todo[s] \/ e \in Stored
    /\ job[s] = "ok" => flight[s] \subseteq Stored

DurableInv == AckedDurable /\ JobInv

(* A fresh job owes every tier of its batch.                               *)
LEMMA StartFlushJob ==
  ASSUME TypeOK, JobInv, NEW s \in Shards, NEW b \in Seq(Events), NEW then,
         StartFlush(s, b, then), UNCHANGED storeVars
  PROVE  JobInv'
<1>1. ToSet(b) \subseteq Events
  BY ToSetType
<1>2. /\ flight' = [flight EXCEPT ![s] = ToSet(b)]
      /\ todo' = [todo EXCEPT ![s] = {TierOf[e] : e \in ToSet(b)}]
      /\ job' = [job EXCEPT ![s] = "run"]
      /\ wal' = wal /\ seg' = seg
  BY DEF StartFlush, storeVars
<1> SUFFICES ASSUME NEW z \in Shards
             PROVE  /\ job'[z] = "run" => \A e \in flight'[z] : TierOf[e] \in todo'[z] \/ e \in Stored'
                    /\ job'[z] = "ok" => flight'[z] \subseteq Stored'
  BY DEF JobInv
<1>3. CASE z = s
  BY <1>2, <1>3 DEF TypeOK
<1>4. CASE z # s
  BY <1>2, <1>4 DEF TypeOK, JobInv, Stored
<1>5. QED
  BY <1>3, <1>4

(* A step that leaves the jobs alone and forgets no stored event keeps     *)
(* JobInv.                                                                 *)
LEMMA JobFrame ==
  ASSUME JobInv, UNCHANGED jobVars, Stored \subseteq Stored'
  PROVE  JobInv'
BY DEF JobInv, jobVars

(* So does, for AckedDurable, a step that tells nobody "ok".               *)
LEMMA AckFrame ==
  ASSUME AckedDurable, Stored \subseteq Stored',
         \A e \in Events : phase'[e] = "ok" => phase[e] = "ok"
  PROVE  AckedDurable'
BY DEF AckedDurable

(* A new writer has told nobody Ok.                                        *)
LEMMA InitDurableInv == Init => DurableInv
BY DEF Init, DurableInv, AckedDurable, JobInv

(* FinishFlush says Ok only for a job that stored its batch; nothing is    *)
(* unstored.                                                               *)
LEMMA NextDurableInv == TypeInv /\ DurableInv /\ [Next]_vars => DurableInv'
<1> SUFFICES ASSUME TypeInv, DurableInv, [Next]_vars PROVE DurableInv'
  OBVIOUS
<1> USE DEF TypeInv, DurableInv
<1>0. ASSUME UNCHANGED storeVars PROVE Stored \subseteq Stored'
  BY <1>0 DEF storeVars, Stored
<1>1. ASSUME NEW r \in Requests, Begin(r) PROVE DurableInv'
  BY <1>0, <1>1, JobFrame, AckFrame DEF Begin, TypeOK
<1>2. ASSUME NEW r \in Requests, Pick(r) PROVE DurableInv'
  BY <1>0, <1>2, JobFrame, AckFrame DEF Pick, TypeOK
<1>3. ASSUME NEW r \in Requests, Abandon(r) PROVE DurableInv'
  BY <1>0, <1>3, JobFrame, AckFrame DEF Abandon, TypeOK
<1>4. ASSUME NEW e \in Events, Send(e) PROVE DurableInv'
  BY <1>0, <1>4, JobFrame, AckFrame DEF Send, TypeOK
<1>5. ASSUME NEW e \in Events, TrySend(e) PROVE DurableInv'
  BY <1>0, <1>5, JobFrame, AckFrame DEF TrySend, TypeOK
<1>6. ASSUME NEW s \in Shards, Recv(s) PROVE DurableInv'
  <2>1. AckedDurable'
    BY <1>0, <1>6, AckFrame DEF Recv, callerVars
  <2> DEFINE room == PerShardBatch - Len(buffer[s])
             n == IF Len(chan[s]) < room THEN Len(chan[s]) ELSE room
             b == buffer[s] \o SubSeq(chan[s], 1, n)
  <2>2. CASE Len(b) >= PerShardBatch
    <3>1. chan[s] \in Seq(Events) /\ buffer[s] \in Seq(Events)
      BY DEF TypeOK
    <3>2. n \in Nat /\ n <= Len(chan[s])
      BY <3>1, BatchIsNat DEF QueueBounds
    <3>3. b \in Seq(Events)
      BY <3>1, <3>2
    <3>4. StartFlush(s, b, "flush") /\ UNCHANGED storeVars
      BY <1>6, <2>2 DEF Recv
    <3>5. QED
      BY <2>1, <3>3, <3>4, StartFlushJob
  <2>3. CASE ~(Len(b) >= PerShardBatch)
    BY <1>0, <1>6, <2>1, <2>3, JobFrame DEF Recv
  <2>4. QED
    BY <2>2, <2>3
<1>7. ASSUME NEW s \in Shards, Tick(s) PROVE DurableInv'
  <2>1. buffer[s] \in Seq(Events) /\ StartFlush(s, buffer[s], "flush") /\ UNCHANGED storeVars
    BY <1>7 DEF Tick, TypeOK
  <2>2. QED
    BY <1>0, <1>7, <2>1, StartFlushJob, AckFrame DEF Tick, callerVars
<1>8. ASSUME NEW s \in Shards, RecvNone(s) PROVE DurableInv'
  <2>1. AckedDurable'
    BY <1>0, <1>8, AckFrame DEF RecvNone, callerVars
  <2>2. CASE buffer[s] # <<>>
    BY <1>8, <2>1, <2>2, StartFlushJob DEF RecvNone, TypeOK
  <2>3. CASE buffer[s] = <<>>
    BY <1>0, <1>8, <2>1, <2>3, JobFrame DEF RecvNone
  <2>4. QED
    BY <2>2, <2>3
<1>9. ASSUME NEW s \in Shards, AppendTier(s) PROVE DurableInv'
  <2>1. PICK t \in todo[s] :
          /\ job[s] = "run"
          /\ wal' = wal \cup (flight[s] \cap InTier(t))
          /\ todo' = [todo EXCEPT ![s] = @ \ {t}]
          /\ job' = [job EXCEPT ![s] = IF todo[s] = {t} THEN "ok" ELSE "run"]
          /\ UNCHANGED <<callerVars, flight, seg>>
    BY <1>9 DEF AppendTier
  <2>2. Stored \subseteq Stored'
    BY <2>1 DEF Stored
  <2>3. AckedDurable'
    BY <2>1, <2>2, AckFrame DEF callerVars
  <2>4. ASSUME NEW z \in Shards
        PROVE  /\ job'[z] = "run" => \A e \in flight'[z] : TierOf[e] \in todo'[z] \/ e \in Stored'
               /\ job'[z] = "ok" => flight'[z] \subseteq Stored'
    <3>1. CASE z = s
      <4>1. \A e \in flight[s] : TierOf[e] \in todo[s] \/ e \in Stored
        BY <2>1 DEF JobInv
      <4>2. \A e \in flight[s] : TierOf[e] \in todo[s] \ {t} \/ e \in Stored'
        BY <2>1, <2>2, <4>1 DEF InTier, Stored, TypeOK
      <4>3. todo'[s] = todo[s] \ {t} /\ flight'[s] = flight[s]
        BY <2>1 DEF TypeOK
      <4>4. job'[s] = "ok" => todo'[s] = {}
        BY <2>1, <4>3 DEF TypeOK
      <4>5. QED
        BY <3>1, <4>2, <4>3, <4>4
    <3>2. CASE z # s
      BY <2>1, <2>2, <3>2 DEF JobInv, TypeOK
    <3>3. QED
      BY <3>1, <3>2
  <2>5. QED
    BY <2>3, <2>4 DEF JobInv
<1>10. ASSUME NEW s \in Shards, AppendFails(s) PROVE DurableInv'
  <2>1. /\ job' = [job EXCEPT ![s] = "err"]
        /\ todo' = [todo EXCEPT ![s] = {}]
        /\ UNCHANGED <<callerVars, flight, seg>>
        /\ Stored \subseteq Stored'
    BY <1>10 DEF AppendFails, Stored
  <2>2. AckedDurable'
    BY <2>1, AckFrame DEF callerVars
  <2>3. JobInv'
    BY <2>1 DEF JobInv, TypeOK
  <2>4. QED
    BY <2>2, <2>3
<1>11. ASSUME NEW s \in Shards, FinishFlush(s) PROVE DurableInv'
  <2>1. /\ job[s] \in {"ok", "err"}
        /\ Reply(IF Closed(s) THEN {} ELSE flight[s], job[s])
        /\ flight' = [flight EXCEPT ![s] = {}]
        /\ job' = [job EXCEPT ![s] = "none"]
        /\ UNCHANGED <<todo, storeVars>>
    BY <1>11 DEF FinishFlush
  <2>2. Stored' = Stored
    BY <2>1 DEF storeVars, Stored
  <2>3. ASSUME NEW e \in Events, phase'[e] = "ok" PROVE e \in Stored'
    <3>1. CASE phase[e] = "ok"
      BY <2>2, <3>1 DEF AckedDurable
    <3>2. CASE phase[e] # "ok"
      <4>1. job[s] = "ok" /\ e \in flight[s]
        BY <2>1, <2>3, <3>2 DEF Reply
      <4>2. QED
        BY <2>2, <4>1 DEF JobInv
    <3>3. QED
      BY <3>1, <3>2
  <2>4. JobInv'
    BY <2>1, <2>2 DEF JobInv, TypeOK
  <2>5. QED
    BY <2>3, <2>4 DEF AckedDurable
<1>12. ASSUME NEW s \in Shards, LoopExit(s) PROVE DurableInv'
  BY <1>0, <1>12, JobFrame, AckFrame DEF LoopExit, callerVars
<1>13. ASSUME NEW c \in Checkpointers, StartCheckpoint(c) PROVE DurableInv'
  BY <1>0, <1>13, JobFrame, AckFrame DEF StartCheckpoint, callerVars
<1>14. ASSUME NEW c \in Checkpointers, NEW t \in Tiers, FlushEngine(c, t) PROVE DurableInv'
  <2>1. Stored \subseteq Stored'
    BY <1>14 DEF FlushEngine, Stored
  <2>2. QED
    BY <1>14, <2>1, JobFrame, AckFrame DEF FlushEngine, callerVars
<1>15. ASSUME NEW c \in Checkpointers, FlushEngineFails(c) PROVE DurableInv'
  BY <1>0, <1>15, JobFrame, AckFrame DEF FlushEngineFails, callerVars
<1>16. CASE Shutdown
  BY <1>0, <1>16, JobFrame, AckFrame DEF Shutdown, callerVars
<1>17. CASE ShutdownReturns
  <2>1. UNCHANGED storeVars /\ UNCHANGED jobVars
    BY <1>17 DEF ShutdownReturns
  <2>2. \A e \in Events : phase'[e] = "ok" => phase[e] = "ok"
    BY <1>17 DEF ShutdownReturns, Reply
  <2>3. QED
    BY <1>0, <2>1, <2>2, JobFrame, AckFrame
<1>18. CASE ShutdownAgain
  BY <1>0, <1>18, JobFrame, AckFrame DEF ShutdownAgain, callerVars
<1>19. CASE Drop
  BY <1>0, <1>19, JobFrame, AckFrame DEF Drop, callerVars
<1>20. CASE Crash
  <2>1. Stored \subseteq Stored'
    BY <1>20 DEF Crash, Stored
  <2>2. \A e \in Events : phase'[e] = "ok" => phase[e] = "ok"
    BY <1>20 DEF Crash
  <2>3. JobInv'
    BY <1>20 DEF Crash, JobInv
  <2>4. QED
    BY <2>1, <2>2, <2>3, AckFrame
<1>21. CASE UNCHANGED vars
  BY <1>0, <1>21, JobFrame, AckFrame DEF vars, callerVars
<1>22. QED
  BY <1>1, <1>2, <1>3, <1>4, <1>5, <1>6, <1>7, <1>8, <1>9, <1>10, <1>11, <1>12, <1>13, <1>14,
     <1>15, <1>16, <1>17, <1>18, <1>19, <1>20, <1>21 DEF Next

(* An event whose caller was told Ok is on disk, in every later state,     *)
(* whatever fails, is rotated, aborted or crashes.                         *)
THEOREM AckedIsDurable == Spec => []AckedDurable
<1>1. Spec => []DurableInv
  BY TypeInvariance, InitDurableInv, NextDurableInv, PTL DEF Spec
<1>2. DurableInv => AckedDurable
  BY DEF DurableInv
<1>3. QED
  BY <1>1, <1>2, PTL

====
