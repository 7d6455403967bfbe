----------------------------- MODULE BatchWriter -----------------------------
(***************************************************************************)
(* The sharded batch writer of keplor-store (batch.rs), together with the  *)
(* part of KdbStore it drives: append_batch_durable, which writes a batch  *)
(* tier by tier, and wal_checkpoint, which rotates WALs into segments.     *)
(*                                                                         *)
(*   callers --round robin--> bounded channels --> per-shard append loops  *)
(*        --> blocking append jobs --> WAL --checkpoints--> segments       *)
(*                                                                         *)
(* An event is a model value.  A call (write, write_many or                *)
(* write_fire_and_forget) is the sequence of the events it submits.        *)
(***************************************************************************)
EXTENDS Integers, Sequences, FiniteSets, SequencesExt

CONSTANTS
  Events,           \* the events submitted during a behaviour
  Requests,         \* the calls: a set of sequences that partition Events
  FireAndForget,    \* the events submitted by write_fire_and_forget
  Tiers,            \* the retention tiers, one engine each
  TierOf,           \* the tier of each event
  FlushShards,      \* config.flush_shards
  ChannelCapacity,  \* config.channel_capacity
  BatchSize,        \* config.batch_size
  BatchFloor,       \* the smallest per-shard batch size (8 in the code)
  Rotator,          \* the background rotator task
  OtherCheckpointers, \* tasks outside the writer that call wal_checkpoint
  HasDeadline,      \* FALSE: the timeout passed to shutdown() never expires
  MaxCrashes        \* bound on the crashes of a behaviour

ASSUME ConfigAssumption ==
  /\ FlushShards \in Nat \ {0}
  /\ ChannelCapacity \in Nat \ {0}
  /\ BatchSize \in Nat \ {0}
  /\ BatchFloor \in Nat \ {0}
  /\ HasDeadline \in BOOLEAN
  /\ MaxCrashes \in Nat

ASSUME EventAssumption ==
  /\ Requests \subseteq Seq(Events)
  /\ FireAndForget \subseteq Events
  /\ TierOf \in [Events -> Tiers]

(* The shards of BatchWriter::new and what each is given of the            *)
(* configured totals.                                                      *)
Shards == 0 .. FlushShards - 1

ASSUME CheckpointerAssumption ==
  /\ Rotator \notin Shards
  /\ OtherCheckpointers \cap Shards = {}

PerShardCap ==
  LET cap == (ChannelCapacity + FlushShards - 1) \div FlushShards
  IN  IF cap < 1 THEN 1 ELSE cap

PerShardBatch ==
  LET size == BatchSize \div FlushShards
  IN  IF size < BatchFloor THEN BatchFloor ELSE size

TotalCapacity == PerShardCap * FlushShards

VARIABLES
  phase,      \* phase[e]: where the caller that submitted e stands
  shard,      \* shard[e]: the shard e is being sent to; 0 before and after
  nextTx,     \* next_tx modulo the number of shards
  shutdown,   \* the shutdown flag
  owner,      \* what the holder of the last Arc<BatchWriter> is doing
  allOk,      \* what shutdown() last returned
  chan,       \* chan[s]: the channel of shard s
  buffer,     \* buffer[s]: the append loop's buffer
  loop,       \* loop[s]: the state of the append loop
  flight,     \* flight[s]: the batch of the blocking append job of s
  todo,       \* todo[s]: the tiers that job has still to append
  job,        \* job[s]: the state of that job
  wal,        \* the events in the engines' WALs, fsynced, not queryable
  seg,        \* the events in segment files, queryable
  ckpt,       \* ckpt[c]: the tiers wal_checkpoint has still to flush for c
  lost,       \* history: accepted events a fault has destroyed
  crashes     \* the crashes so far

callerVars == <<phase, shard, nextTx>>
ownerVars  == <<shutdown, owner, allOk>>
loopVars   == <<chan, buffer, loop>>
jobVars    == <<flight, todo, job>>
storeVars  == <<wal, seg>>
ghostVars  == <<lost, crashes>>
vars == <<callerVars, ownerVars, loopVars, jobVars, storeVars, ckpt, ghostVars>>

Background == {Rotator} \cup OtherCheckpointers
Checkpointers == Shards \cup Background

(* A caller is unsettled while its future has not resolved.  ChannelClosed *)
(* is "shut" when the event could not be sent, "closed" when it was sent   *)
(* and its reply channel went away.                                        *)
Unsettled == {"called", "sending", "waiting"}
Settled   == {"ok", "err", "closed", "shut", "full", "accepted", "abandoned"}
Phases    == {"idle"} \cup Unsettled \cup Settled

Stored == wal \cup seg
InTier(t) == {e \in Events : TierOf[e] = t}

(* The receiver of a channel lives as long as its append loop.             *)
Closed(s) == loop[s] \in {"aborted", "exited"}

(* The requests that have been sent to shard s and not been answered.      *)
Queued(s) == ToSet(chan[s]) \cup ToSet(buffer[s])
Held(s)   == Queued(s) \cup flight[s]

(* Every caller awaiting one of the events in S learns `outcome`.          *)
Reply(S, outcome) ==
  phase' = [e \in Events |->
              IF e \in S /\ phase[e] = "waiting" THEN outcome ELSE phase[e]]

-----------------------------------------------------------------------------
(* Callers *)

Init ==
  /\ phase = [e \in Events |-> "idle"]
  /\ shard = [e \in Events |-> 0]
  /\ nextTx = 0
  /\ shutdown = FALSE
  /\ owner = "serving"
  /\ allOk = TRUE
  /\ chan = [s \in Shards |-> <<>>]
  /\ buffer = [s \in Shards |-> <<>>]
  /\ loop = [s \in Shards |-> "run"]
  /\ flight = [s \in Shards |-> {}]
  /\ todo = [s \in Shards |-> {}]
  /\ job = [s \in Shards |-> "none"]
  /\ wal = {}
  /\ seg = {}
  /\ ckpt = [c \in Checkpointers |-> {}]
  /\ lost = {}
  /\ crashes = 0

(* The entry of write, write_many and write_fire_and_forget: the shutdown  *)
(* flag is read once for the whole call.                                   *)
Begin(r) ==
  /\ owner # "dropped"
  /\ \A e \in ToSet(r) : phase[e] = "idle"
  /\ phase' = [e \in Events |->
                 IF e \in ToSet(r)
                 THEN IF shutdown THEN "shut" ELSE "called"
                 ELSE phase[e]]
  /\ UNCHANGED <<shard, nextTx, ownerVars, loopVars, jobVars, storeVars, ckpt, ghostVars>>

(* Mutant: the round robin does not wrap around.                           *)
PickNoWrap(r) ==
  \E i \in DOMAIN r :
    /\ r[i] \notin FireAndForget
    /\ phase[r[i]] = "called"
    /\ \A j \in 1 .. i - 1 : phase[r[j]] \notin {"called", "sending"}
    /\ phase' = [phase EXCEPT ![r[i]] = "sending"]
    /\ shard' = [shard EXCEPT ![r[i]] = nextTx]
    /\ nextTx' = nextTx + 1
    /\ UNCHANGED <<ownerVars, loopVars, jobVars, storeVars, ckpt, ghostVars>>

(* The next event of a write or write_many call: pick_shard, then send.    *)
(* The send of an event starts when the send before it has completed.      *)
Pick(r) ==
  \E i \in DOMAIN r :
    /\ r[i] \notin FireAndForget
    /\ phase[r[i]] = "called"
    /\ \A j \in 1 .. i - 1 : phase[r[j]] \notin {"called", "sending"}
    /\ phase' = [phase EXCEPT ![r[i]] = "sending"]
    /\ shard' = [shard EXCEPT ![r[i]] = nextTx]
    /\ nextTx' = (nextTx + 1) % FlushShards
    /\ UNCHANGED <<ownerVars, loopVars, jobVars, storeVars, ckpt, ghostVars>>

(* Mutant: an unbounded channel.                                           *)
SendUnbounded(e) ==
  LET s == shard[e] IN
  /\ phase[e] = "sending"
  /\ ~Closed(s)
  /\ chan' = [chan EXCEPT ![s] = Append(@, e)]
  /\ phase' = [phase EXCEPT ![e] = "waiting"]
  /\ shard' = [shard EXCEPT ![e] = 0]
  /\ UNCHANGED <<nextTx, ownerVars, buffer, loop, jobVars, storeVars, ckpt, ghostVars>>

(* send().await resolves: a slot is free, or the receiver is gone.         *)
Send(e) ==
  LET s == shard[e] IN
  /\ phase[e] = "sending"
  /\ \/ /\ ~Closed(s)
        /\ Len(chan[s]) < PerShardCap
        /\ chan' = [chan EXCEPT ![s] = Append(@, e)]
        /\ phase' = [phase EXCEPT ![e] = "waiting"]
     \/ /\ Closed(s)
        /\ phase' = [phase EXCEPT ![e] = "shut"]
        /\ UNCHANGED chan
  /\ shard' = [shard EXCEPT ![e] = 0]
  /\ UNCHANGED <<nextTx, ownerVars, buffer, loop, jobVars, storeVars, ckpt, ghostVars>>

(* Mutant: the event is queued before the capacity is looked at.           *)
TrySendFirst(e) ==
  LET s == nextTx IN
  /\ e \in FireAndForget
  /\ phase[e] = "called"
  /\ ~Closed(s)
  /\ nextTx' = (nextTx + 1) % FlushShards
  /\ chan' = [chan EXCEPT ![s] = Append(@, e)]
  /\ phase' = [phase EXCEPT ![e] = IF Len(chan[s]) < PerShardCap THEN "accepted" ELSE "full"]
  /\ UNCHANGED <<shard, ownerVars, buffer, loop, jobVars, storeVars, ckpt, ghostVars>>

(* write_fire_and_forget after its flag check: try_send never waits.       *)
TrySend(e) ==
  LET s == nextTx IN
  /\ e \in FireAndForget
  /\ phase[e] = "called"
  /\ nextTx' = (nextTx + 1) % FlushShards
  /\ \/ /\ ~Closed(s)
        /\ Len(chan[s]) < PerShardCap
        /\ chan' = [chan EXCEPT ![s] = Append(@, e)]
        /\ phase' = [phase EXCEPT ![e] = "accepted"]
     \/ /\ ~Closed(s)
        /\ Len(chan[s]) >= PerShardCap
        /\ phase' = [phase EXCEPT ![e] = "full"]
        /\ UNCHANGED chan
     \/ /\ Closed(s)
        /\ phase' = [phase EXCEPT ![e] = "shut"]
        /\ UNCHANGED chan
  /\ UNCHANGED <<shard, ownerVars, buffer, loop, jobVars, storeVars, ckpt, ghostVars>>

(* The caller's future is dropped: the pipeline's write timeout, or the    *)
(* client going away.  What has been sent stays in the channel.            *)
Abandon(r) ==
  /\ \E e \in ToSet(r) : phase[e] \in Unsettled
  /\ \A e \in ToSet(r) : e \notin FireAndForget
  /\ phase' = [e \in Events |->
                 IF e \in ToSet(r) /\ phase[e] \in Unsettled
                 THEN "abandoned" ELSE phase[e]]
  /\ shard' = [e \in Events |-> IF e \in ToSet(r) THEN 0 ELSE shard[e]]
  /\ UNCHANGED <<nextTx, ownerVars, loopVars, jobVars, storeVars, ckpt, ghostVars>>

-----------------------------------------------------------------------------
(* The append loop of a shard *)

(* Mutant: the batch is copied out of the buffer, not taken.               *)
StartFlushCopy(s, b, then) ==
  /\ buffer' = [buffer EXCEPT ![s] = b]
  /\ flight' = [flight EXCEPT ![s] = ToSet(b)]
  /\ todo' = [todo EXCEPT ![s] = {TierOf[e] : e \in ToSet(b)}]
  /\ job' = [job EXCEPT ![s] = "run"]
  /\ loop' = [loop EXCEPT ![s] = then]

(* append_only takes the whole buffer b and hands it to a blocking job.    *)
StartFlush(s, b, then) ==
  /\ buffer' = [buffer EXCEPT ![s] = <<>>]
  /\ flight' = [flight EXCEPT ![s] = ToSet(b)]
  /\ todo' = [todo EXCEPT ![s] = {TierOf[e] : e \in ToSet(b)}]
  /\ job' = [job EXCEPT ![s] = "run"]
  /\ loop' = [loop EXCEPT ![s] = then]

(* recv() yields a request: the loop drains what else is queued, up to a   *)
(* full batch, and flushes a full batch at once.                           *)
Recv(s) ==
  LET room == PerShardBatch - Len(buffer[s])
      n    == IF Len(chan[s]) < room THEN Len(chan[s]) ELSE room
      b    == buffer[s] \o SubSeq(chan[s], 1, n)
  IN
  /\ loop[s] = "run"
  /\ chan[s] # <<>>
  /\ chan' = [chan EXCEPT ![s] = SubSeq(@, n + 1, Len(@))]
  /\ IF Len(b) >= PerShardBatch
     THEN StartFlush(s, b, "flush")
     ELSE /\ buffer' = [buffer EXCEPT ![s] = b]
          /\ UNCHANGED <<loop, jobVars>>
  /\ UNCHANGED <<callerVars, ownerVars, storeVars, ckpt, ghostVars>>

(* Mutant: the tick flushes full batches only.                             *)
TickWhenFull(s) ==
  /\ loop[s] = "run"
  /\ chan[s] = <<>>
  /\ owner # "dropped"
  /\ Len(buffer[s]) >= PerShardBatch
  /\ StartFlush(s, buffer[s], "flush")
  /\ UNCHANGED <<callerVars, chan, ownerVars, storeVars, ckpt, ghostVars>>

(* The interval ticks.  The select is biased: the tick is taken only when  *)
(* the channel is empty and open.                                          *)
Tick(s) ==
  /\ loop[s] = "run"
  /\ chan[s] = <<>>
  /\ owner # "dropped"
  /\ buffer[s] # <<>>
  /\ StartFlush(s, buffer[s], "flush")
  /\ UNCHANGED <<callerVars, chan, ownerVars, storeVars, ckpt, ghostVars>>

(* Mutant: the loop breaks on None without flushing its buffer.            *)
RecvNoneNoFlush(s) ==
  /\ loop[s] = "run"
  /\ chan[s] = <<>>
  /\ owner = "dropped"
  /\ buffer' = [buffer EXCEPT ![s] = <<>>]
  /\ loop' = [loop EXCEPT ![s] = "final"]
  /\ ckpt' = [ckpt EXCEPT ![s] = Tiers]
  /\ UNCHANGED <<callerVars, chan, ownerVars, jobVars, storeVars, ghostVars>>

(* Mutant: the loop goes on polling a closed and empty channel.            *)
RecvNoneSpins(s) ==
  /\ loop[s] = "run"
  /\ chan[s] = <<>>
  /\ owner = "dropped"
  /\ buffer[s] # <<>>
  /\ StartFlush(s, buffer[s], "flush")
  /\ UNCHANGED <<callerVars, chan, ownerVars, storeVars, ckpt, ghostVars>>

(* recv() yields None: flush what is buffered, then one last checkpoint.   *)
RecvNone(s) ==
  /\ loop[s] = "run"
  /\ chan[s] = <<>>
  /\ owner = "dropped"
  /\ IF buffer[s] # <<>>
     THEN StartFlush(s, buffer[s], "drain") /\ UNCHANGED ckpt
     ELSE /\ loop' = [loop EXCEPT ![s] = "final"]
          /\ ckpt' = [ckpt EXCEPT ![s] = Tiers]
          /\ UNCHANGED <<buffer, jobVars>>
  /\ UNCHANGED <<callerVars, chan, ownerVars, storeVars, ghostVars>>

(* Mutant: the batch counts as stored once its first tier is.              *)
AppendOneTier(s) ==
  \E t \in todo[s] :
    /\ job[s] = "run"
    /\ wal' = wal \cup (flight[s] \cap InTier(t))
    /\ todo' = [todo EXCEPT ![s] = {}]
    /\ job' = [job EXCEPT ![s] = "ok"]
    /\ UNCHANGED <<callerVars, ownerVars, loopVars, flight, seg, ckpt, ghostVars>>

(* append_batch_durable: one engine after the other, in the order of a     *)
(* hash map.  The engine's append returns once its WAL is fsynced.         *)
AppendTier(s) ==
  \E t \in todo[s] :
    /\ job[s] = "run"
    /\ wal' = wal \cup (flight[s] \cap InTier(t))
    /\ todo' = [todo EXCEPT ![s] = @ \ {t}]
    /\ job' = [job EXCEPT ![s] = IF todo[s] = {t} THEN "ok" ELSE "run"]
    /\ UNCHANGED <<callerVars, ownerVars, loopVars, flight, seg, ckpt, ghostVars>>

(* An engine fails: the tiers before it stay appended, those after it are  *)
(* not tried, and any part of this one may have reached its WAL.           *)
AppendFails(s) ==
  \E t \in todo[s] : \E part \in SUBSET (flight[s] \cap InTier(t)) :
    /\ job[s] = "run"
    /\ wal' = wal \cup part
    /\ todo' = [todo EXCEPT ![s] = {}]
    /\ job' = [job EXCEPT ![s] = "err"]
    /\ UNCHANGED <<callerVars, ownerVars, loopVars, flight, seg, ckpt, ghostVars>>

(* Mutant: only a successful batch is answered.                            *)
FinishFlushOkOnly(s) ==
  /\ job[s] \in {"ok", "err"}
  /\ Reply(IF Closed(s) \/ job[s] = "err" THEN {} ELSE flight[s], job[s])
  /\ lost' = lost \cup {e \in flight[s] : phase[e] = "accepted" /\ e \notin Stored}
  /\ flight' = [flight EXCEPT ![s] = {}]
  /\ job' = [job EXCEPT ![s] = "none"]
  /\ loop' = [loop EXCEPT ![s] = CASE @ = "flush" -> "run"
                                   [] @ = "drain" -> "final"
                                   [] OTHER -> @]
  /\ ckpt' = IF loop[s] = "drain" THEN [ckpt EXCEPT ![s] = Tiers] ELSE ckpt
  /\ UNCHANGED <<shard, nextTx, ownerVars, chan, buffer, todo, storeVars, crashes>>

(* The job has returned: append_only answers every caller of the batch     *)
(* with the one result.  The job of an aborted loop answers nobody.        *)
FinishFlush(s) ==
  /\ job[s] \in {"ok", "err"}
  /\ Reply(IF Closed(s) THEN {} ELSE flight[s], job[s])
  /\ lost' = lost \cup {e \in flight[s] : phase[e] = "accepted" /\ e \notin Stored}
  /\ flight' = [flight EXCEPT ![s] = {}]
  /\ job' = [job EXCEPT ![s] = "none"]
  /\ loop' = [loop EXCEPT ![s] = CASE @ = "flush" -> "run"
                                   [] @ = "drain" -> "final"
                                   [] OTHER -> @]
  /\ ckpt' = IF loop[s] = "drain" THEN [ckpt EXCEPT ![s] = Tiers] ELSE ckpt
  /\ UNCHANGED <<shard, nextTx, ownerVars, chan, buffer, todo, storeVars, crashes>>

(* The loop returns when its last checkpoint, successful or not, is over.  *)
LoopExit(s) ==
  /\ loop[s] = "final"
  /\ ckpt[s] = {}
  /\ loop' = [loop EXCEPT ![s] = "exited"]
  /\ UNCHANGED <<callerVars, ownerVars, chan, buffer, jobVars, storeVars, ckpt, ghostVars>>

-----------------------------------------------------------------------------
(* wal_checkpoint *)

(* Mutant: the rotator stops when shutdown() is called.                    *)
StartCheckpointWhileServing(c) ==
  /\ c \in Background
  /\ c = Rotator => ~shutdown /\ owner # "dropped"
  /\ ckpt[c] = {}
  /\ ckpt' = [ckpt EXCEPT ![c] = Tiers]
  /\ UNCHANGED <<callerVars, ownerVars, loopVars, jobVars, storeVars, ghostVars>>

(* The rotator lives until the writer is dropped.                          *)
StartCheckpoint(c) ==
  /\ c \in Background
  /\ c = Rotator => owner # "dropped"
  /\ ckpt[c] = {}
  /\ ckpt' = [ckpt EXCEPT ![c] = Tiers]
  /\ UNCHANGED <<callerVars, ownerVars, loopVars, jobVars, storeVars, ghostVars>>

(* Mutant: the flush of one engine truncates the WAL of every tier.        *)
FlushEngineTruncates(c, t) ==
  /\ t \in ckpt[c]
  /\ seg' = seg \cup (wal \cap InTier(t))
  /\ wal' = {}
  /\ ckpt' = [ckpt EXCEPT ![c] = @ \ {t}]
  /\ UNCHANGED <<callerVars, ownerVars, loopVars, jobVars, ghostVars>>

FlushEngine(c, t) ==
  /\ t \in ckpt[c]
  /\ seg' = seg \cup (wal \cap InTier(t))
  /\ wal' = wal \ InTier(t)
  /\ ckpt' = [ckpt EXCEPT ![c] = @ \ {t}]
  /\ UNCHANGED <<callerVars, ownerVars, loopVars, jobVars, ghostVars>>

(* The first engine that fails ends the pass for the engines after it.     *)
FlushEngineFails(c) ==
  /\ ckpt[c] # {}
  /\ ckpt' = [ckpt EXCEPT ![c] = {}]
  /\ UNCHANGED <<callerVars, ownerVars, loopVars, jobVars, storeVars, ghostVars>>

-----------------------------------------------------------------------------
(* Shutdown, drop and crash *)

(* shutdown() raises the flag and starts joining the append loops.         *)
Shutdown ==
  /\ owner = "serving"
  /\ shutdown' = TRUE
  /\ owner' = "joining"
  /\ UNCHANGED <<callerVars, allOk, loopVars, jobVars, storeVars, ckpt, ghostVars>>

(* shutdown() joins the handles in order.  It waits for the first loop     *)
(* that is still running until the deadline, leaves that one detached, and *)
(* aborts the ones behind it.  An aborted loop drops its channel and its   *)
(* buffer, with the reply channels in them; its blocking job runs on.      *)
ShutdownReturns ==
  LET running == {s \in Shards : loop[s] # "exited"}
      victims == {s \in running : \E r \in running : r < s}
      dropped == UNION {Held(s) : s \in victims}
      unsaved == UNION {Queued(s) : s \in victims}
  IN
  /\ owner = "joining"
  /\ running # {} => HasDeadline
  /\ owner' = "returned"
  /\ allOk' = (running = {})
  /\ loop' = [s \in Shards |-> IF s \in victims THEN "aborted" ELSE loop[s]]
  /\ chan' = [s \in Shards |-> IF s \in victims THEN <<>> ELSE chan[s]]
  /\ buffer' = [s \in Shards |-> IF s \in victims THEN <<>> ELSE buffer[s]]
  /\ Reply(dropped, "closed")
  /\ lost' = lost \cup {e \in unsaved : phase[e] = "accepted"}
  /\ UNCHANGED <<shard, nextTx, shutdown, jobVars, storeVars, ckpt, crashes>>

(* Once its handles are taken, shutdown() has nothing to join.             *)
ShutdownAgain ==
  /\ owner = "returned"
  /\ allOk' = TRUE
  /\ UNCHANGED <<callerVars, shutdown, owner, loopVars, jobVars, storeVars, ckpt, ghostVars>>

(* The last Arc goes away.  A call in progress, shutdown() included,       *)
(* borrows the writer and so keeps it alive.                               *)
Drop ==
  /\ owner \in {"serving", "returned"}
  /\ \A e \in Events : phase[e] \notin Unsettled
  /\ owner' = "dropped"
  /\ UNCHANGED <<callerVars, shutdown, allOk, loopVars, jobVars, storeVars, ckpt, ghostVars>>

(* The process dies, or exits with detached loops behind it, and restarts. *)
(* What the WALs and the segments hold survives; of a batch that is being  *)
(* appended, any part may.                                                 *)
Crash ==
  LET torn == UNION {{e \in flight[s] : job[s] = "run" /\ TierOf[e] \in todo[s]} : s \in Shards}
  IN
  /\ crashes < MaxCrashes
  /\ \E part \in SUBSET torn :
       /\ wal' = wal \cup part
       /\ lost' = lost \cup {e \in Events : phase[e] = "accepted" /\ e \notin Stored \cup part}
  /\ crashes' = crashes + 1
  /\ phase' = [e \in Events |-> IF phase[e] \in Unsettled THEN "abandoned" ELSE phase[e]]
  /\ nextTx' = 0
  /\ shutdown' = FALSE
  /\ owner' = "serving"
  /\ allOk' = TRUE
  /\ chan' = [s \in Shards |-> <<>>]
  /\ buffer' = [s \in Shards |-> <<>>]
  /\ loop' = [s \in Shards |-> "run"]
  /\ flight' = [s \in Shards |-> {}]
  /\ todo' = [s \in Shards |-> {}]
  /\ job' = [s \in Shards |-> "none"]
  /\ ckpt' = [c \in Checkpointers |-> {}]
  /\ shard' = [e \in Events |-> 0]
  /\ UNCHANGED seg

-----------------------------------------------------------------------------

Next ==
  \/ \E r \in Requests : Begin(r) \/ Pick(r) \/ Abandon(r)
  \/ \E e \in Events : Send(e) \/ TrySend(e)
  \/ \E s \in Shards : \/ Recv(s) \/ Tick(s) \/ RecvNone(s)
                       \/ AppendTier(s) \/ AppendFails(s) \/ FinishFlush(s)
                       \/ LoopExit(s)
  \/ \E c \in Checkpointers : \/ StartCheckpoint(c) \/ FlushEngineFails(c)
                              \/ \E t \in Tiers : FlushEngine(c, t)
  \/ Shutdown \/ ShutdownReturns \/ ShutdownAgain \/ Drop \/ Crash

Spec == Init /\ [][Next]_vars

(* A runtime that keeps polling its tasks: every caller, loop and job that *)
(* can step does.  A rotator pass that keeps being started reaches each    *)
(* engine and flushes it at last: no engine, nor one ahead of it in the    *)
(* pass, fails for ever.  Nothing forces a caller to call, a client to     *)
(* leave or the process to stop.                                           *)
Fairness ==
  /\ \A r \in Requests : WF_vars(Pick(r))
  /\ \A e \in Events : WF_vars(Send(e)) /\ WF_vars(TrySend(e))
  /\ \A s \in Shards :
       /\ WF_vars(Recv(s)) /\ WF_vars(Tick(s)) /\ WF_vars(RecvNone(s))
       /\ WF_vars(AppendTier(s) \/ AppendFails(s)) /\ WF_vars(FinishFlush(s))
       /\ WF_vars(LoopExit(s))
  /\ WF_vars(StartCheckpoint(Rotator))
  /\ \A c \in Checkpointers :
       WF_vars(FlushEngineFails(c) \/ \E t \in Tiers : FlushEngine(c, t))
  /\ \A t \in Tiers : SF_vars(FlushEngine(Rotator, t))
  /\ WF_vars(ShutdownReturns)

FairSpec == Spec /\ Fairness

-----------------------------------------------------------------------------
(* Properties *)

(* Type correctness of the writer's state.                                 *)
TypeOK ==
  /\ phase \in [Events -> Phases]
  /\ shard \in [Events -> Shards]
  /\ nextTx \in Shards
  /\ shutdown \in BOOLEAN
  /\ owner \in {"serving", "joining", "returned", "dropped"}
  /\ allOk \in BOOLEAN
  /\ chan \in [Shards -> Seq(Events)]
  /\ buffer \in [Shards -> Seq(Events)]
  /\ loop \in [Shards -> {"run", "flush", "drain", "final", "exited", "aborted"}]
  /\ flight \in [Shards -> SUBSET Events]
  /\ todo \in [Shards -> SUBSET Tiers]
  /\ job \in [Shards -> {"none", "run", "ok", "err"}]
  /\ wal \in SUBSET Events
  /\ seg \in SUBSET Events
  /\ ckpt \in [Checkpointers -> SUBSET Tiers]
  /\ lost \in SUBSET Events
  /\ crashes \in 0 .. MaxCrashes

(* An event whose write() or write_many() slot returned Ok is on disk and  *)
(* stays there, through rotations, failed flushes of other batches, the    *)
(* abort of its loop and crashes.                                          *)
AckedDurable == \A e \in Events : phase[e] = "ok" => e \in Stored

(* A caller that awaits a flush confirmation is never forgotten: its       *)
(* request is held by a loop that will answer it or drop the reply channel.*)
WaiterHeld ==
  \A e \in Events : phase[e] = "waiting" => \E s \in Shards : e \in Held(s) /\ ~Closed(s)

(* An event accepted by write_fire_and_forget is queued, being appended,   *)
(* or stored, unless a failed append, the abort at the shutdown deadline   *)
(* or a crash destroyed it.                                                *)
NoSilentLoss ==
  \A e \in Events : phase[e] = "accepted" =>
     e \in Stored \cup lost \cup UNION {Held(s) : s \in Shards}

(* The slots, between the channels and the segments, that hold event e.    *)
Places(e) ==
  (UNION {{<<"chan", s, i>> : i \in {j \in DOMAIN chan[s] : chan[s][j] = e}} : s \in Shards})
    \cup (UNION {{<<"buffer", s, i>> : i \in {j \in DOMAIN buffer[s] : buffer[s][j] = e}}
                   : s \in Shards})
    \cup {<<"job", s>> : s \in {z \in Shards : job[z] = "run" /\ e \in flight[z]
                                                 /\ TierOf[e] \in todo[z]}}
    \cup {<<"wal">> : x \in {e} \cap wal}
    \cup {<<"segment">> : x \in {e} \cap seg}

(* No event is appended or rotated twice: at any time at most one slot     *)
(* between the channels and the segment files holds it.                    *)
AtMostOnce == \A e \in Events : \A p, q \in Places(e) : p = q

(* An event refused with ChannelFull (503, "retry"), or because the writer *)
(* is shut, was not taken: it is nowhere in the writer and never reaches   *)
(* the disk, so a retry of it cannot store it twice.                       *)
RefusedNotTaken ==
  \A e \in Events :
     phase[e] \in {"idle", "called", "sending", "full", "shut"} => Places(e) = {}

(* A channel never exceeds its share of the capacity, and a buffer that    *)
(* reaches the batch size is flushed before anything else happens.         *)
QueueBounds ==
  \A s \in Shards : Len(chan[s]) <= PerShardCap /\ Len(buffer[s]) < PerShardBatch

(* Back-pressure: what a shard holds in memory is bounded by its channel   *)
(* plus one batch, and the channels together by the configured capacity    *)
(* rounded up to a multiple of the shards.                                 *)
BoundedBacklog ==
  /\ QueueBounds
  /\ ChannelCapacity <= TotalCapacity /\ TotalCapacity < ChannelCapacity + FlushShards
  /\ \A s \in Shards : /\ Cardinality(flight[s]) <= PerShardBatch
                       /\ flight[s] = {} \/ Closed(s) \/ buffer[s] = <<>>

(* Every write() and write_many() resolves: with the batch's result, or    *)
(* with ChannelClosed when its loop is gone.                               *)
EveryCallSettles ==
  \A e \in Events : phase[e] = "called" ~> phase[e] \in Settled

(* What is durable becomes queryable as long as the rotator runs.          *)
EventuallyVisible ==
  \A e \in Events : e \in wal ~> (e \in seg \/ owner = "dropped")

(* A dropped writer drains: its detached append loops empty their channels *)
(* and buffers and exit.                                                   *)
DropDrains ==
  \A s \in Shards : (owner = "dropped") ~> (Closed(s) \/ owner = "serving")

-----------------------------------------------------------------------------
(* The writer implements the abstract event log *)

StatusOf(p) ==
  CASE p = "idle" -> "new"
    [] p \in Unsettled -> "pending"
    [] p = "ok" -> "acked"
    [] p = "accepted" -> "accepted"
    [] p \in {"full", "shut"} -> "refused"
    [] OTHER -> "unknown"

Log == INSTANCE EventLog WITH
         status  <- [e \in Events |-> StatusOf(phase[e])],
         durable <- wal,
         visible <- seg

(* Every step of the batch writer is a step of the abstract event log:     *)
(* Ok is told of stored events only, a refused event is never stored, an   *)
(* event reaches the disk at most once, and neither a rotation, a failed   *)
(* flush, a shutdown nor a crash loses a stored event or turns a visible   *)
(* one invisible.                                                          *)
ImplementsLog == Log!LogSpec

====
