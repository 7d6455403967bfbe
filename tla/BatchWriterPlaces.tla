-------------------------- MODULE BatchWriterPlaces --------------------------
(***************************************************************************)
(* Where an event is: proofs about BatchWriter that follow every event     *)
(* from its caller through one channel, one buffer and one append job to   *)
(* the WAL and the segments, and the refinement of EventLog that rests on  *)
(* them.                                                                   *)
(***************************************************************************)
EXTENDS BatchWriterProofs, FiniteSetTheorems, FunctionTheorems, SequenceTheorems

(* No element occurs twice in the sequence q.                              *)
Distinct(q) == \A i, j \in DOMAIN q : q[i] = q[j] => i = j

(* The phases of an event that no channel has taken.                       *)
Untaken == {"idle", "called", "sending", "full", "shut"}

(* The channel, the buffer and the job of a shard hold different events.   *)
LocalInv(s) ==
  /\ Distinct(chan[s])
  /\ Distinct(buffer[s])
  /\ ToSet(chan[s]) \cap ToSet(buffer[s]) = {}
  /\ Queued(s) \cap flight[s] = {}

HolderInv ==
  /\ \A s \in Shards : LocalInv(s)
  /\ \A s, z \in Shards : s # z => Held(s) \cap Held(z) = {}

(* What is stored is queued nowhere, and no job still owes it.             *)
StoreInv ==
  /\ wal \cap seg = {}
  /\ \A s \in Shards : Queued(s) \cap Stored = {}
  /\ \A s \in Shards : job[s] = "run" =>
       \A e \in flight[s] : TierOf[e] \in todo[s] => e \notin Stored

UntakenInv ==
  \A e \in Events : phase[e] \in Untaken =>
    e \notin Stored /\ \A s \in Shards : e \notin Held(s)

(* A loop that does not wait for a job has none, its buffer is empty when  *)
(* it does not receive, and its channel once nobody can send.              *)
LoopInv ==
  \A s \in Shards :
    /\ loop[s] \in {"run", "final", "exited"} => job[s] = "none"
    /\ job[s] = "none" => flight[s] = {}
    /\ loop[s] # "run" => buffer[s] = <<>>
    /\ Closed(s) => chan[s] = <<>>
    /\ loop[s] \in {"drain", "final", "exited"} => owner = "dropped" /\ chan[s] = <<>>

DropInv == owner = "dropped" => \A e \in Events : phase[e] \notin Unsettled

(* The inductive invariant.                                                *)
PlaceInv == HolderInv /\ StoreInv /\ UntakenInv /\ LoopInv /\ DropInv

-----------------------------------------------------------------------------
(* Sequences *)

(* The empty sequence holds nothing.                                       *)
LEMMA EmptyToSet == ToSet(<<>>) = {} /\ Distinct(<<>>)
BY DEF ToSet, Distinct

(* An event appended to a channel that does not hold it.                   *)
LEMMA AppendToSet ==
  ASSUME NEW S, NEW q \in Seq(S), NEW x \in S
  PROVE  /\ ToSet(Append(q, x)) = ToSet(q) \cup {x}
         /\ Distinct(q) /\ x \notin ToSet(q) => Distinct(Append(q, x))
<1> DEFINE a == Append(q, x)
<1>1. /\ a \in Seq(S) /\ Len(a) = Len(q) + 1 /\ Len(q) \in Nat
      /\ DOMAIN a = 1 .. Len(q) + 1 /\ DOMAIN q = 1 .. Len(q)
      /\ a[Len(q) + 1] = x /\ \A i \in 1 .. Len(q) : a[i] = q[i]
  OBVIOUS
<1> HIDE DEF a
<1>2. ToSet(a) = ToSet(q) \cup {x}
  <2>1. ASSUME NEW y \in ToSet(a) PROVE y \in ToSet(q) \cup {x}
    BY <1>1, <2>1 DEF ToSet
  <2>2. ToSet(q) \subseteq ToSet(a)
    BY <1>1 DEF ToSet
  <2>3. Len(q) + 1 \in DOMAIN a
    BY <1>1
  <2>4. x \in ToSet(a)
    BY <1>1, <2>3 DEF ToSet
  <2>5. QED
    BY <2>1, <2>2, <2>4
<1>3. Distinct(q) /\ x \notin ToSet(q) => Distinct(a)
  BY <1>1 DEF Distinct, ToSet
<1>4. QED
  BY <1>2, <1>3 DEF a

(* d and r are the buffer b and the channel c once the first n requests    *)
(* of c have been moved to the end of b.                                   *)
PrefixMoved(b, c, n, d, r) ==
  /\ Len(d) = Len(b) + n
  /\ \A i \in 1 .. Len(b) : d[i] = b[i]
  /\ \A i \in Len(b) + 1 .. Len(b) + n : d[i] = c[i - Len(b)]
  /\ Len(r) = Len(c) - n
  /\ \A i \in 1 .. Len(c) - n : r[i] = c[n + i]

(* The positions of what Recv makes of a buffer b and a channel c when it  *)
(* moves the first n requests of c.                                        *)
LEMMA PrefixPositions ==
  ASSUME NEW S, NEW b \in Seq(S), NEW c \in Seq(S), NEW n \in 0 .. Len(c)
  PROVE  LET d == b \o SubSeq(c, 1, n)
             r == SubSeq(c, n + 1, Len(c))
         IN  /\ d \in Seq(S) /\ r \in Seq(S)
             /\ PrefixMoved(b, c, n, d, r)
<1> DEFINE p == SubSeq(c, 1, n)
           d == b \o p
           r == SubSeq(c, n + 1, Len(c))
<1>1. /\ Len(b) \in Nat /\ Len(c) \in Nat /\ n \in Nat /\ n <= Len(c)
      /\ DOMAIN b = 1 .. Len(b) /\ DOMAIN c = 1 .. Len(c)
  OBVIOUS
<1>2. /\ p \in Seq(S) /\ Len(p) = n /\ \A i \in 1 .. n : p[i] = c[i]
  BY <1>1
<1>3. /\ r \in Seq(S) /\ Len(r) = Len(c) - n /\ \A i \in 1 .. Len(c) - n : r[i] = c[n + i]
  <2>1. r \in Seq(S) /\ Len(r) = Len(c) - n
    <3>1. n + 1 \in Int /\ Len(c) \in Int /\ \A i \in n + 1 .. Len(c) : c[i] \in S
      BY <1>1
    <3>2. r \in Seq(S) /\ Len(r) = IF n + 1 <= Len(c) THEN Len(c) - (n + 1) + 1 ELSE 0
      BY <3>1, SubSeqProperties
    <3>3. (IF n + 1 <= Len(c) THEN Len(c) - (n + 1) + 1 ELSE 0) = Len(c) - n
      <4>1. \A m, k \in Nat : m <= k => (IF m + 1 <= k THEN k - (m + 1) + 1 ELSE 0) = k - m
        OBVIOUS
      <4>2. QED
        BY <1>1, <4>1
    <3>4. QED
      BY <3>2, <3>3
  <2>2. ASSUME NEW i \in 1 .. Len(c) - n PROVE r[i] = c[n + i]
    <3>1. r[i] = c[(n + 1) + i - 1]
      BY <1>1
    <3>2. (n + 1) + i - 1 = n + i
      BY <1>1
    <3>3. QED
      BY <3>1, <3>2
  <2>3. QED
    BY <2>1, <2>2
<1> HIDE DEF p, r
<1>4. /\ d \in Seq(S) /\ Len(d) = Len(b) + n
      /\ \A i \in 1 .. Len(b) : d[i] = b[i]
      /\ \A i \in Len(b) + 1 .. Len(b) + n : d[i] = p[i - Len(b)]
  BY <1>1, <1>2
<1> HIDE DEF d
<1>5. \A i \in Len(b) + 1 .. Len(b) + n : d[i] = c[i - Len(b)]
  BY <1>1, <1>2, <1>4
<1>6. d \in Seq(S) /\ r \in Seq(S) /\ PrefixMoved(b, c, n, d, r)
  BY <1>3, <1>4, <1>5 DEF PrefixMoved
<1>7. QED
  BY <1>6 DEF p, d, r

(* Recv moves a prefix of the channel c behind the buffer b: nothing is    *)
(* dropped and nothing is doubled.                                         *)
LEMMA MovePrefix ==
  ASSUME NEW S, NEW b \in Seq(S), NEW c \in Seq(S), NEW n \in 0 .. Len(c),
         Distinct(b), Distinct(c), ToSet(c) \cap ToSet(b) = {},
         NEW d \in Seq(S), NEW r \in Seq(S), PrefixMoved(b, c, n, d, r)
  PROVE  /\ Distinct(d) /\ Distinct(r)
         /\ ToSet(d) \cap ToSet(r) = {}
         /\ ToSet(d) \cup ToSet(r) = ToSet(b) \cup ToSet(c)
<1>1. /\ Len(b) \in Nat /\ Len(c) \in Nat /\ n \in Nat /\ n <= Len(c)
      /\ DOMAIN b = 1 .. Len(b) /\ DOMAIN c = 1 .. Len(c)
  OBVIOUS
<1>3. \A i \in 1 .. Len(c) - n : r[i] = c[n + i]
  BY DEF PrefixMoved
<1>4. \A i \in 1 .. Len(b) : d[i] = b[i]
  BY DEF PrefixMoved
<1>5. DOMAIN d = 1 .. Len(b) + n /\ DOMAIN r = 1 .. Len(c) - n
  BY DEF PrefixMoved
<1>6. \A i \in Len(b) + 1 .. Len(b) + n :
        d[i] = c[i - Len(b)] /\ i - Len(b) \in 1 .. n /\ i - Len(b) \in DOMAIN c
  BY <1>1 DEF PrefixMoved
<1>7. Distinct(r)
  <2> SUFFICES ASSUME NEW i \in 1 .. Len(c) - n, NEW j \in 1 .. Len(c) - n, r[i] = r[j]
               PROVE  i = j
    BY <1>5 DEF Distinct
  <2>1. n + i \in DOMAIN c /\ n + j \in DOMAIN c /\ c[n + i] = c[n + j]
    BY <1>1, <1>3
  <2>2. n + i = n + j
    BY <2>1 DEF Distinct
  <2>3. QED
    BY <1>1, <2>2
<1>8. \A i \in 1 .. Len(b), j \in DOMAIN c : b[i] # c[j]
  BY <1>1 DEF ToSet
<1>d. \A i \in DOMAIN d : i \in 1 .. Len(b) \/ i \in Len(b) + 1 .. Len(b) + n
  BY <1>1, <1>5
<1>9. Distinct(d)
  <2> SUFFICES ASSUME NEW i \in DOMAIN d, NEW j \in DOMAIN d, d[i] = d[j] PROVE i = j
    BY DEF Distinct
  <2>1. CASE i \in 1 .. Len(b) /\ j \in 1 .. Len(b)
    BY <1>1, <1>4, <2>1 DEF Distinct
  <2>2. CASE i \in 1 .. Len(b) /\ j \in Len(b) + 1 .. Len(b) + n
    BY <1>1, <1>4, <1>6, <1>8, <2>2
  <2>3. CASE i \in Len(b) + 1 .. Len(b) + n /\ j \in 1 .. Len(b)
    BY <1>1, <1>4, <1>6, <1>8, <2>3
  <2>4. CASE i \in Len(b) + 1 .. Len(b) + n /\ j \in Len(b) + 1 .. Len(b) + n
    <3>1. i - Len(b) \in 1 .. n /\ j - Len(b) \in 1 .. n /\ c[i - Len(b)] = c[j - Len(b)]
      BY <1>1, <1>6, <2>4
    <3>2. i - Len(b) = j - Len(b)
      BY <1>1, <3>1 DEF Distinct
    <3>3. QED
      BY <1>1, <1>5, <3>2
  <2>5. QED
    BY <1>d, <2>1, <2>2, <2>3, <2>4
<1>10. ToSet(d) \cap ToSet(r) = {}
  <2> SUFFICES ASSUME NEW i \in DOMAIN d, NEW j \in DOMAIN r PROVE d[i] # r[j]
    BY DEF ToSet
  <2>1. r[j] = c[n + j] /\ n + j \in DOMAIN c /\ n + j > n
    BY <1>1, <1>3, <1>5
  <2>2. CASE i \in 1 .. Len(b)
    BY <1>1, <1>4, <1>8, <2>1, <2>2
  <2>3. CASE i \in Len(b) + 1 .. Len(b) + n
    <3>1. d[i] = c[i - Len(b)] /\ i - Len(b) \in 1 .. n
      BY <1>1, <1>6, <2>3
    <3>2. i - Len(b) # n + j
      BY <1>1, <2>1, <3>1
    <3>3. QED
      BY <1>1, <2>1, <3>1, <3>2 DEF Distinct
  <2>4. QED
    BY <1>d, <2>2, <2>3
<1>11. ToSet(d) \cup ToSet(r) = ToSet(b) \cup ToSet(c)
  <2>1. ToSet(d) \subseteq ToSet(b) \cup ToSet(c)
    <3> SUFFICES ASSUME NEW i \in DOMAIN d PROVE d[i] \in ToSet(b) \cup ToSet(c)
      BY DEF ToSet
    <3>1. CASE i \in 1 .. Len(b)
      BY <1>1, <1>4, <3>1 DEF ToSet
    <3>2. CASE i \in Len(b) + 1 .. Len(b) + n
      BY <1>1, <1>6, <3>2 DEF ToSet
    <3>3. QED
      BY <1>d, <3>1, <3>2
  <2>2. ToSet(r) \subseteq ToSet(c)
    <3> SUFFICES ASSUME NEW i \in 1 .. Len(c) - n PROVE r[i] \in ToSet(c)
      BY <1>5 DEF ToSet
    <3>1. n + i \in DOMAIN c /\ r[i] = c[n + i]
      BY <1>1, <1>3
    <3>2. QED
      BY <3>1 DEF ToSet
  <2>3. ToSet(b) \subseteq ToSet(d)
    BY <1>1, <1>4, <1>5 DEF ToSet
  <2>4. ASSUME NEW j \in DOMAIN c PROVE c[j] \in ToSet(d) \cup ToSet(r)
    <3>1. CASE j <= n
      <4>1. Len(b) + j \in Len(b) + 1 .. Len(b) + n /\ (Len(b) + j) - Len(b) = j
        BY <1>1, <3>1
      <4>2. d[Len(b) + j] = c[j] /\ Len(b) + j \in DOMAIN d
        BY <1>1, <1>5, <1>6, <4>1
      <4>3. QED
        BY <4>2 DEF ToSet
    <3>2. CASE j > n
      <4>1. j - n \in 1 .. Len(c) - n /\ n + (j - n) = j
        BY <1>1, <3>2
      <4>2. r[j - n] = c[j] /\ j - n \in DOMAIN r
        BY <1>3, <1>5, <4>1
      <4>3. QED
        BY <4>2 DEF ToSet
    <3>3. QED
      BY <1>1, <3>1, <3>2
  <2>5. QED
    BY <2>1, <2>2, <2>3, <2>4 DEF ToSet
<1>12. QED
  BY <1>7, <1>9, <1>10, <1>11

(* A sequence holds no more elements than it has positions.                *)
LEMMA ToSetCardinality ==
  ASSUME NEW S, NEW q \in Seq(S)
  PROVE  IsFiniteSet(ToSet(q)) /\ Cardinality(ToSet(q)) <= Len(q)
<1>1. /\ Len(q) \in Nat /\ DOMAIN q = 1 .. Len(q)
      /\ IsFiniteSet(1 .. Len(q)) /\ Cardinality(1 .. Len(q)) = Len(q)
  <2>1. Len(q) \in Nat /\ DOMAIN q = 1 .. Len(q)
    OBVIOUS
  <2>2. IsFiniteSet(1 .. Len(q)) /\ Cardinality(1 .. Len(q)) = Len(q)
    BY <2>1, FS_Interval
  <2>3. QED
    BY <2>1, <2>2
<1>2. ToSet(q) = {q[i] : i \in 1 .. Len(q)}
  BY <1>1 DEF ToSet
<1> DEFINE f == [i \in 1 .. Len(q) |-> q[i]]
<1>3. f \in Surjection(1 .. Len(q), ToSet(q))
  BY <1>2 DEF Surjection
<1>4. QED
  BY <1>1, <1>3, FS_Surjection
-----------------------------------------------------------------------------
(* What the steps of an append loop do to the places of its events *)

(* The other shards are left alone.                                        *)
OthersSame(s) ==
  \A z \in Shards \ {s} :
    /\ chan'[z] = chan[z] /\ buffer'[z] = buffer[z] /\ loop'[z] = loop[z]
    /\ flight'[z] = flight[z] /\ todo'[z] = todo[z] /\ job'[z] = job[z]

(* The loop of s hands events it had queued to a new job.                  *)
Dispatch(s) ==
  /\ OthersSame(s)
  /\ Distinct(chan'[s])
  /\ buffer'[s] = <<>>
  /\ ToSet(chan'[s]) \cap flight'[s] = {}
  /\ ToSet(chan'[s]) \cup flight'[s] = Queued(s)
  /\ flight[s] = {}
  /\ job'[s] = "run"

(* The loop of s moves events from its channel to its buffer.              *)
Drain(s) ==
  /\ OthersSame(s)
  /\ Distinct(chan'[s]) /\ Distinct(buffer'[s])
  /\ ToSet(chan'[s]) \cap ToSet(buffer'[s]) = {}
  /\ ToSet(chan'[s]) \cup ToSet(buffer'[s]) = Queued(s)
  /\ loop[s] = "run"
  /\ UNCHANGED <<loop, flight, todo, job>>

(* What StartFlush leaves alone.                                           *)
LEMMA StartFlushOthers ==
  ASSUME TypeOK, NEW s \in Shards, NEW b, NEW then,
         StartFlush(s, b, then), \A z \in Shards \ {s} : chan'[z] = chan[z]
  PROVE  /\ OthersSame(s)
         /\ buffer'[s] = <<>> /\ flight'[s] = ToSet(b)
         /\ job'[s] = "run" /\ loop'[s] = then
BY DEF StartFlush, OthersSame, TypeOK

(* The tick, or the end of the channel, flushes the whole buffer.          *)
LEMMA FlushDispatches ==
  ASSUME TypeInv, PlaceInv, NEW s \in Shards, NEW then,
         loop[s] = "run", chan[s] = <<>>, UNCHANGED chan, StartFlush(s, buffer[s], then)
  PROVE  Dispatch(s) /\ chan'[s] = <<>> /\ loop'[s] = then
<1>1. /\ OthersSame(s) /\ buffer'[s] = <<>> /\ flight'[s] = ToSet(buffer[s])
      /\ job'[s] = "run" /\ loop'[s] = then
  BY StartFlushOthers DEF TypeInv
<1>2. chan'[s] = <<>> /\ Queued(s) = ToSet(buffer[s]) /\ flight[s] = {}
  BY EmptyToSet DEF Queued, PlaceInv, LoopInv
<1>3. QED
  BY <1>1, <1>2, EmptyToSet DEF Dispatch

(* Recv drains the channel, and dispatches a full batch.                   *)
LEMMA RecvMoves ==
  ASSUME TypeInv, PlaceInv, NEW s \in Shards, Recv(s)
  PROVE  \/ Drain(s)
         \/ /\ Dispatch(s) /\ loop'[s] = "flush"
            /\ IsFiniteSet(flight'[s]) /\ Cardinality(flight'[s]) <= PerShardBatch
<1> DEFINE room == PerShardBatch - Len(buffer[s])
           n == IF Len(chan[s]) < room THEN Len(chan[s]) ELSE room
           b == buffer[s] \o SubSeq(chan[s], 1, n)
           rest == SubSeq(chan[s], n + 1, Len(chan[s]))
<1>1. chan[s] \in Seq(Events) /\ buffer[s] \in Seq(Events)
  BY DEF TypeInv, TypeOK
<1>2. n \in 0 .. Len(chan[s]) /\ n <= room /\ room \in Nat
  <2>1. Len(buffer[s]) < PerShardBatch
    BY DEF TypeInv, QueueBounds
  <2>2. Len(buffer[s]) \in Nat /\ Len(chan[s]) \in Nat
    BY <1>1
  <2>3. room \in Nat
    BY <2>1, <2>2, BatchIsNat
  <2> HIDE DEF room
  <2>4. QED
    BY <2>2, <2>3
<1>3. /\ Distinct(buffer[s]) /\ Distinct(chan[s]) /\ ToSet(chan[s]) \cap ToSet(buffer[s]) = {}
      /\ flight[s] = {} /\ loop[s] = "run"
  BY DEF PlaceInv, HolderInv, LocalInv, LoopInv, Recv
<1>4. /\ chan' = [chan EXCEPT ![s] = rest]
      /\ IF Len(b) >= PerShardBatch
         THEN StartFlush(s, b, "flush")
         ELSE buffer' = [buffer EXCEPT ![s] = b] /\ UNCHANGED <<loop, flight, todo, job>>
  BY DEF Recv, jobVars
<1> HIDE DEF n
<1>5. /\ b \in Seq(Events) /\ rest \in Seq(Events) /\ Len(b) = Len(buffer[s]) + n
      /\ Distinct(b) /\ Distinct(rest) /\ ToSet(b) \cap ToSet(rest) = {}
      /\ ToSet(b) \cup ToSet(rest) = ToSet(buffer[s]) \cup ToSet(chan[s])
  <2>1. n \in 0 .. Len(chan[s])
    BY <1>2
  <2>2. /\ b \in Seq(Events) /\ rest \in Seq(Events)
        /\ PrefixMoved(buffer[s], chan[s], n, b, rest)
    BY <1>1, <2>1, PrefixPositions
  <2> HIDE DEF b, rest
  <2>3. /\ Distinct(b) /\ Distinct(rest) /\ ToSet(b) \cap ToSet(rest) = {}
        /\ ToSet(b) \cup ToSet(rest) = ToSet(buffer[s]) \cup ToSet(chan[s])
    BY <1>1, <1>3, <2>1, <2>2, MovePrefix
  <2>4. QED
    BY <2>2, <2>3 DEF PrefixMoved
<1> HIDE DEF b, rest
<1>6. Len(b) <= PerShardBatch
  BY <1>1, <1>2, <1>5, BatchIsNat
<1>7. chan'[s] = rest /\ \A z \in Shards \ {s} : chan'[z] = chan[z]
  BY <1>4 DEF TypeInv, TypeOK
<1>8. CASE Len(b) >= PerShardBatch
  <2>1. StartFlush(s, b, "flush")
    BY <1>4, <1>8
  <2>2. /\ OthersSame(s) /\ buffer'[s] = <<>> /\ flight'[s] = ToSet(b)
        /\ job'[s] = "run" /\ loop'[s] = "flush"
    BY <1>7, <2>1, StartFlushOthers DEF TypeInv
  <2>3. Dispatch(s)
    BY <1>3, <1>5, <1>7, <2>2 DEF Dispatch, Queued
  <2>4. IsFiniteSet(ToSet(b)) /\ Cardinality(ToSet(b)) <= Len(b)
    BY <1>5, ToSetCardinality
  <2>5. Cardinality(ToSet(b)) \in Nat /\ Len(b) \in Nat
    BY <1>5, <2>4, FS_CardinalityType
  <2>6. Cardinality(ToSet(b)) <= PerShardBatch
    BY <1>6, <2>4, <2>5, BatchIsNat
  <2>7. QED
    BY <2>2, <2>3, <2>4, <2>6
<1>9. CASE ~(Len(b) >= PerShardBatch)
  <2>1. buffer' = [buffer EXCEPT ![s] = b] /\ UNCHANGED <<loop, flight, todo, job>>
    BY <1>4, <1>9
  <2>2. buffer'[s] = b /\ \A z \in Shards \ {s} : buffer'[z] = buffer[z]
    BY <2>1 DEF TypeInv, TypeOK
  <2>3. OthersSame(s)
    BY <1>7, <2>1, <2>2 DEF OthersSame
  <2>4. QED
    BY <1>3, <1>5, <1>7, <2>1, <2>2, <2>3 DEF Drain, Queued
<1>10. QED
  BY <1>8, <1>9

(* What a shard that is left alone holds.                                  *)
LEMMA OthersHeld ==
  ASSUME NEW s \in Shards, OthersSame(s), NEW z \in Shards, z # s
  PROVE  Queued(z)' = Queued(z) /\ Held(z)' = Held(z) /\ (LocalInv(z) => LocalInv(z)')
BY DEF OthersSame, Queued, Held, LocalInv

(* What s holds after a dispatch or a drain.                               *)
LEMMA DispatchHeld ==
  ASSUME NEW s \in Shards, Dispatch(s)
  PROVE  /\ Held(s)' = Held(s) /\ Queued(s)' \subseteq Queued(s)
         /\ flight'[s] \subseteq Queued(s) /\ LocalInv(s)'
<1>1. Queued(s)' = ToSet(chan'[s])
  BY EmptyToSet DEF Dispatch, Queued
<1>2. QED
  BY <1>1, EmptyToSet DEF Dispatch, Held, LocalInv

(* A drain step moves no event out of the shard.                           *)
LEMMA DrainHeld ==
  ASSUME NEW s \in Shards, Drain(s), LocalInv(s)
  PROVE  /\ Held(s)' = Held(s) /\ Queued(s)' = Queued(s) /\ LocalInv(s)'
<1>1. Queued(s)' = Queued(s)
  BY DEF Drain, Queued
<1>2. QED
  BY <1>1 DEF Drain, Held, LocalInv
-----------------------------------------------------------------------------
(* Every event is in one place *)

(* A shard that ends up with some of what it had keeps the holders apart.  *)
LEMMA HolderMove ==
  ASSUME HolderInv, NEW s \in Shards, OthersSame(s), LocalInv(s)', Held(s)' \subseteq Held(s)
  PROVE  HolderInv'
<1>1. \A z \in Shards : LocalInv(z)' /\ Held(z)' \subseteq Held(z)
  BY OthersHeld DEF HolderInv
<1>2. QED
  BY <1>1 DEF HolderInv

(* A step that moves no event between queues, jobs and disk, and takes     *)
(* none.                                                                   *)
LEMMA QuietFrame ==
  ASSUME PlaceInv, UNCHANGED <<loopVars, jobVars, storeVars>>,
         owner = "dropped" => owner' = "dropped", DropInv',
         \A e \in Events : phase'[e] \in Untaken => phase[e] \in Untaken
  PROVE  PlaceInv'
<1>1. \A s \in Shards : /\ Queued(s)' = Queued(s) /\ Held(s)' = Held(s)
                        /\ (LocalInv(s) => LocalInv(s)') /\ (Closed(s)' <=> Closed(s))
  BY DEF loopVars, jobVars, Queued, Held, LocalInv, Closed
<1>2. HolderInv'
  BY <1>1 DEF PlaceInv, HolderInv
<1>3. Stored' = Stored /\ wal' = wal /\ seg' = seg
  BY DEF storeVars, Stored
<1>4. StoreInv'
  BY <1>1, <1>3 DEF PlaceInv, StoreInv, jobVars
<1>5. UntakenInv'
  BY <1>1, <1>3 DEF PlaceInv, UntakenInv
<1>6. LoopInv'
  BY <1>1 DEF PlaceInv, LoopInv, loopVars, jobVars
<1>7. QED
  BY <1>2, <1>4, <1>5, <1>6 DEF PlaceInv

(* A send into the channel of an open shard.                               *)
LEMMA EnqueuePlaces ==
  ASSUME TypeInv, PlaceInv, NEW s \in Shards, NEW e \in Events, NEW p \in {"waiting", "accepted"},
         phase[e] \in {"called", "sending"}, ~Closed(s),
         chan' = [chan EXCEPT ![s] = Append(@, e)],
         phase' = [phase EXCEPT ![e] = p],
         UNCHANGED <<owner, buffer, loop, jobVars, storeVars>>
  PROVE  PlaceInv'
<1>1. owner # "dropped" /\ e \notin Stored /\ \A z \in Shards : e \notin Held(z)
  BY DEF PlaceInv, DropInv, UntakenInv, Untaken, Unsettled
<1>2. chan[s] \in Seq(Events) /\ chan'[s] = Append(chan[s], e)
  BY DEF TypeInv, TypeOK
<1>3. \A z \in Shards : z # s => chan'[z] = chan[z]
  BY DEF TypeInv, TypeOK
<1>4. OthersSame(s)
  BY <1>3 DEF OthersSame, jobVars
<1>5. Queued(s)' = Queued(s) \cup {e} /\ Held(s)' = Held(s) \cup {e}
  BY <1>2, AppendToSet DEF Queued, Held, jobVars
<1>6. LocalInv(s)'
  <2>1. LocalInv(s) /\ e \notin ToSet(chan[s]) /\ e \notin ToSet(buffer[s]) /\ e \notin flight[s]
    BY <1>1 DEF PlaceInv, HolderInv, Held, Queued
  <2>2. Distinct(chan'[s]) /\ ToSet(chan'[s]) = ToSet(chan[s]) \cup {e}
    BY <1>2, <2>1, AppendToSet DEF LocalInv
  <2>3. buffer' = buffer /\ flight' = flight
    BY DEF jobVars
  <2>4. QED
    BY <1>5, <2>1, <2>2, <2>3 DEF LocalInv
<1>7. HolderInv'
  <2>1. \A z \in Shards : z # s => Held(z)' = Held(z) /\ LocalInv(z)'
    BY <1>4, OthersHeld DEF PlaceInv, HolderInv
  <2>2. \A z \in Shards : LocalInv(z)'
    BY <1>6, <2>1
  <2>3. \A x, z \in Shards : x # z => Held(x)' \cap Held(z)' = {}
    BY <1>1, <1>5, <2>1 DEF PlaceInv, HolderInv
  <2>4. QED
    BY <2>2, <2>3 DEF HolderInv
<1>8. Stored' = Stored /\ wal' = wal /\ seg' = seg
  BY DEF storeVars, Stored
<1>9. StoreInv'
  <2>1. \A z \in Shards : Queued(z)' \cap Stored = {}
    BY <1>1, <1>4, <1>5, OthersHeld DEF PlaceInv, StoreInv
  <2>2. QED
    BY <1>8, <2>1 DEF PlaceInv, StoreInv, jobVars
<1>10. UntakenInv'
  <2> SUFFICES ASSUME NEW x \in Events, phase'[x] \in Untaken
               PROVE  x \notin Stored' /\ \A z \in Shards : x \notin Held(z)'
    BY DEF UntakenInv
  <2>1. x # e /\ phase'[x] = phase[x]
    BY DEF TypeInv, TypeOK, Untaken
  <2>2. x \notin Stored /\ \A z \in Shards : x \notin Held(z)
    BY <2>1 DEF PlaceInv, UntakenInv
  <2>3. QED
    BY <1>4, <1>5, <1>8, <2>1, <2>2, OthersHeld
<1>11. LoopInv'
  <2>1. loop[s] \notin {"drain", "final", "exited"}
    BY <1>1 DEF PlaceInv, LoopInv
  <2>2. \A z \in Shards : Closed(z)' <=> Closed(z)
    BY DEF Closed
  <2>3. QED
    BY <1>3, <2>1, <2>2 DEF PlaceInv, LoopInv, jobVars
<1>12. DropInv'
  BY <1>1 DEF DropInv
<1>13. QED
  BY <1>7, <1>9, <1>10, <1>11, <1>12 DEF PlaceInv

(* A new job: its batch was queued, so no part of it is stored.            *)
LEMMA DispatchPlaces ==
  ASSUME TypeInv, PlaceInv, NEW s \in Shards, Dispatch(s), UNCHANGED <<callerVars, owner, storeVars>>,
         \/ loop'[s] = "flush"
         \/ loop'[s] = "drain" /\ owner = "dropped" /\ chan'[s] = <<>>
  PROVE  PlaceInv'
<1>1. /\ Held(s)' = Held(s) /\ Queued(s)' \subseteq Queued(s)
      /\ flight'[s] \subseteq Queued(s) /\ LocalInv(s)'
  BY DispatchHeld
<1>2. OthersSame(s)
  BY DEF Dispatch
<1>3. \A z \in Shards : z # s => Queued(z)' = Queued(z) /\ Held(z)' = Held(z)
  BY <1>2, OthersHeld
<1>4. HolderInv'
  BY <1>1, <1>2, HolderMove DEF PlaceInv
<1>5. Stored' = Stored /\ wal' = wal /\ seg' = seg /\ phase' = phase
  BY DEF storeVars, Stored, callerVars
<1>6. StoreInv'
  <2>1. \A z \in Shards : Queued(z)' \cap Stored = {}
    BY <1>1, <1>3 DEF PlaceInv, StoreInv
  <2>2. \A e \in flight'[s] : e \notin Stored
    BY <1>1 DEF PlaceInv, StoreInv
  <2>3. ASSUME NEW z \in Shards, job'[z] = "run", NEW e \in flight'[z], TierOf[e] \in todo'[z]
        PROVE  e \notin Stored
    BY <1>2, <2>2, <2>3 DEF PlaceInv, StoreInv, OthersSame
  <2>4. QED
    BY <1>5, <2>1, <2>3 DEF PlaceInv, StoreInv
<1>7. UntakenInv'
  BY <1>1, <1>3, <1>5 DEF PlaceInv, UntakenInv
<1>8. LoopInv'
  <2>1. /\ job'[s] = "run" /\ buffer'[s] = <<>>
    BY DEF Dispatch
  <2>2. /\ \A z \in Shards : z # s => (Closed(z)' <=> Closed(z))
        /\ ~Closed(s)'
    BY <1>2 DEF OthersSame, Closed
  <2>3. QED
    BY <1>2, <2>1, <2>2 DEF PlaceInv, LoopInv, OthersSame
<1>9. DropInv'
  BY <1>5 DEF PlaceInv, DropInv
<1>10. QED
  BY <1>4, <1>6, <1>7, <1>8, <1>9 DEF PlaceInv

(* A drain moves requests between the queues of one shard.                 *)
LEMMA DrainPlaces ==
  ASSUME TypeInv, PlaceInv, NEW s \in Shards, Drain(s), UNCHANGED <<callerVars, owner, storeVars>>
  PROVE  PlaceInv'
<1>1. /\ Held(s)' = Held(s) /\ Queued(s)' = Queued(s) /\ LocalInv(s)'
  BY DrainHeld DEF PlaceInv, HolderInv
<1>2. OthersSame(s) /\ UNCHANGED <<loop, flight, todo, job>> /\ loop[s] = "run"
  BY DEF Drain
<1>3. \A z \in Shards : Queued(z)' = Queued(z) /\ Held(z)' = Held(z)
  BY <1>1, <1>2, OthersHeld
<1>4. HolderInv'
  BY <1>1, <1>2, HolderMove DEF PlaceInv
<1>5. Stored' = Stored /\ wal' = wal /\ seg' = seg /\ phase' = phase
  BY DEF storeVars, Stored, callerVars
<1>6. StoreInv'
  BY <1>2, <1>3, <1>5 DEF PlaceInv, StoreInv
<1>7. UntakenInv'
  BY <1>3, <1>5 DEF PlaceInv, UntakenInv
<1>8. LoopInv'
  <2>1. \A z \in Shards : Closed(z)' <=> Closed(z)
    BY <1>2 DEF Closed
  <2>2. ~Closed(s)
    BY <1>2 DEF Closed
  <2>3. QED
    BY <1>2, <2>1, <2>2 DEF PlaceInv, LoopInv, OthersSame
<1>9. DropInv'
  BY <1>5 DEF PlaceInv, DropInv
<1>10. QED
  BY <1>4, <1>6, <1>7, <1>8, <1>9 DEF PlaceInv

(* A job adds a part P of its batch, owed until then, to a WAL.            *)
LEMMA AppendPlaces ==
  ASSUME TypeInv, PlaceInv, NEW s \in Shards, NEW P \in SUBSET flight[s],
         job[s] = "run", \A e \in P : TierOf[e] \in todo[s],
         wal' = wal \cup P, job'[s] # "none",
         job'[s] = "run" => todo'[s] \subseteq todo[s] /\ \A e \in P : TierOf[e] \notin todo'[s],
         \A z \in Shards : z # s => todo'[z] = todo[z] /\ job'[z] = job[z],
         UNCHANGED <<callerVars, owner, loopVars, flight, seg>>
  PROVE  PlaceInv'
<1>1. \A e \in P : e \notin Stored
  BY DEF PlaceInv, StoreInv
<1>2. \A z \in Shards : /\ Queued(z)' = Queued(z) /\ Held(z)' = Held(z)
                        /\ (LocalInv(z) => LocalInv(z)') /\ (Closed(z)' <=> Closed(z))
  BY DEF loopVars, Queued, Held, LocalInv, Closed
<1>3. HolderInv'
  BY <1>2 DEF PlaceInv, HolderInv
<1>4. Stored' = Stored \cup P /\ seg' = seg /\ phase' = phase
  BY DEF Stored, callerVars
<1>5. \A z \in Shards : Queued(z) \cap P = {}
  <2>1. Queued(s) \cap P = {}
    BY DEF PlaceInv, HolderInv, LocalInv
  <2>2. ASSUME NEW z \in Shards, z # s PROVE Queued(z) \cap P = {}
    BY <2>2 DEF PlaceInv, HolderInv, Held
  <2>3. QED
    BY <2>1, <2>2
<1>6. StoreInv'
  <2>1. wal' \cap seg' = {}
    BY <1>1, <1>4 DEF PlaceInv, StoreInv, Stored
  <2>2. \A z \in Shards : Queued(z)' \cap Stored' = {}
    BY <1>2, <1>4, <1>5 DEF PlaceInv, StoreInv
  <2>3. ASSUME NEW z \in Shards, job'[z] = "run", NEW e \in flight'[z], TierOf[e] \in todo'[z]
        PROVE  e \notin Stored'
    <3>1. CASE z = s
      BY <1>4, <2>3, <3>1 DEF PlaceInv, StoreInv
    <3>2. CASE z # s
      <4>1. e \notin P
        BY <2>3, <3>2 DEF PlaceInv, HolderInv, Held
      <4>2. QED
        BY <1>4, <2>3, <3>2, <4>1 DEF PlaceInv, StoreInv
    <3>3. QED
      BY <3>1, <3>2
  <2>4. QED
    BY <2>1, <2>2, <2>3 DEF StoreInv
<1>7. UntakenInv'
  BY <1>2, <1>4 DEF PlaceInv, UntakenInv, Held
<1>8. LoopInv'
  BY <1>2 DEF PlaceInv, LoopInv, loopVars
<1>9. DropInv'
  BY <1>4 DEF PlaceInv, DropInv
<1>10. QED
  BY <1>3, <1>6, <1>7, <1>8, <1>9 DEF PlaceInv

(* Appending a tier moves its events from the batch to the disk.           *)
LEMMA AppendTierPlaces ==
  ASSUME TypeInv, PlaceInv, NEW s \in Shards, AppendTier(s)
  PROVE  PlaceInv'
<1>1. PICK t \in todo[s] :
        /\ job[s] = "run"
        /\ wal' = wal \cup (flight[s] \cap InTier(t))
        /\ todo' = [todo EXCEPT ![s] = @ \ {t}]
        /\ job' = [job EXCEPT ![s] = IF todo[s] = {t} THEN "ok" ELSE "run"]
        /\ UNCHANGED <<callerVars, ownerVars, loopVars, flight, seg>>
  BY DEF AppendTier
<1>2. /\ job'[s] \in {"ok", "run"} /\ todo'[s] = todo[s] \ {t}
      /\ \A z \in Shards : z # s => todo'[z] = todo[z] /\ job'[z] = job[z]
  BY <1>1 DEF TypeInv, TypeOK
<1> DEFINE P == flight[s] \cap InTier(t)
<1>3. /\ P \in SUBSET flight[s] /\ wal' = wal \cup P
      /\ \A e \in P : TierOf[e] \in todo[s] /\ TierOf[e] \notin todo'[s]
  BY <1>1, <1>2 DEF InTier
<1>4. UNCHANGED <<callerVars, owner, loopVars, flight, seg>> /\ job'[s] # "none"
  BY <1>1, <1>2 DEF ownerVars
<1> HIDE DEF P
<1>5. QED
  BY <1>1, <1>2, <1>3, <1>4, AppendPlaces

(* A failed append has put some of the tier's events on the disk.          *)
LEMMA AppendFailsPlaces ==
  ASSUME TypeInv, PlaceInv, NEW s \in Shards, AppendFails(s)
  PROVE  PlaceInv'
<1>1. PICK t \in todo[s], part \in SUBSET flight[s] :
        /\ part \subseteq InTier(t)
        /\ job[s] = "run"
        /\ wal' = wal \cup part
        /\ todo' = [todo EXCEPT ![s] = {}]
        /\ job' = [job EXCEPT ![s] = "err"]
        /\ UNCHANGED <<callerVars, ownerVars, loopVars, flight, seg>>
  BY DEF AppendFails
<1>2. /\ job'[s] = "err"
      /\ \A z \in Shards : z # s => todo'[z] = todo[z] /\ job'[z] = job[z]
  BY <1>1 DEF TypeInv, TypeOK
<1>3. part \in SUBSET flight[s] /\ \A e \in part : TierOf[e] \in todo[s]
  BY <1>1 DEF InTier
<1>4. UNCHANGED <<callerVars, owner, loopVars, flight, seg>>
  BY <1>1 DEF ownerVars
<1>5. QED
  BY <1>1, <1>2, <1>3, <1>4, AppendPlaces

(* An answered batch leaves the shard.                                     *)
LEMMA FinishFlushPlaces ==
  ASSUME TypeInv, PlaceInv, NEW s \in Shards, FinishFlush(s)
  PROVE  PlaceInv'
<1>1. /\ job[s] \in {"ok", "err"}
      /\ flight'[s] = {} /\ job'[s] = "none"
      /\ loop'[s] = (CASE loop[s] = "flush" -> "run"
                       [] loop[s] = "drain" -> "final"
                       [] OTHER -> loop[s])
      /\ OthersSame(s)
      /\ UNCHANGED <<owner, chan, buffer, todo, wal, seg>>
  BY DEF FinishFlush, TypeInv, TypeOK, OthersSame, ownerVars, storeVars
<1>2. \A e \in Events : phase'[e] = phase[e] \/ phase'[e] \in {"ok", "err"}
  BY <1>1 DEF FinishFlush, Reply
<1>3. Queued(s)' = Queued(s) /\ Held(s)' = Queued(s)
  BY <1>1 DEF Queued, Held
<1>4. LocalInv(s)'
  BY <1>1, <1>3 DEF PlaceInv, HolderInv, LocalInv
<1>5. \A z \in Shards : z # s => Queued(z)' = Queued(z) /\ Held(z)' = Held(z)
  BY <1>1, OthersHeld
<1>6. HolderInv'
  BY <1>1, <1>3, <1>4, HolderMove DEF PlaceInv, Held
<1>7. Stored' = Stored
  BY <1>1 DEF Stored
<1>8. StoreInv'
  BY <1>1, <1>3, <1>5, <1>7 DEF PlaceInv, StoreInv, OthersSame
<1>9. UntakenInv'
  <2>1. \A e \in Events : phase'[e] \in Untaken => phase[e] \in Untaken
    BY <1>2 DEF Untaken
  <2>2. \A z \in Shards : Held(z)' \subseteq Held(z)
    BY <1>3, <1>5 DEF Held
  <2>3. QED
    BY <1>7, <2>1, <2>2 DEF PlaceInv, UntakenInv
<1>10. LoopInv'
  <2>1. \A z \in Shards : Closed(z)' <=> Closed(z)
    BY <1>1 DEF Closed, OthersSame
  <2>2. loop[s] \notin {"run", "final", "exited"}
    BY <1>1 DEF PlaceInv, LoopInv
  <2>3. QED
    BY <1>1, <2>1, <2>2 DEF PlaceInv, LoopInv, OthersSame
<1>11. DropInv'
  BY <1>1, <1>2 DEF PlaceInv, DropInv, Unsettled
<1>12. QED
  BY <1>6, <1>8, <1>9, <1>10, <1>11 DEF PlaceInv

(* A loop that exits moves no event.                                       *)
LEMMA LoopExitPlaces ==
  ASSUME TypeInv, PlaceInv, NEW s \in Shards, LoopExit(s)
  PROVE  PlaceInv'
<1>1. /\ loop[s] = "final" /\ loop' = [loop EXCEPT ![s] = "exited"]
      /\ UNCHANGED <<callerVars, owner, chan, buffer, jobVars, storeVars>>
  BY DEF LoopExit, ownerVars
<1>2. \A z \in Shards : /\ Queued(z)' = Queued(z) /\ Held(z)' = Held(z)
                        /\ (LocalInv(z) => LocalInv(z)')
  BY <1>1 DEF jobVars, Queued, Held, LocalInv
<1>3. HolderInv'
  BY <1>2 DEF PlaceInv, HolderInv
<1>4. Stored' = Stored /\ wal' = wal /\ seg' = seg /\ phase' = phase
  BY <1>1 DEF storeVars, Stored, callerVars
<1>5. StoreInv' /\ UntakenInv' /\ DropInv'
  BY <1>1, <1>2, <1>4 DEF PlaceInv, StoreInv, UntakenInv, DropInv, jobVars
<1>6. LoopInv'
  <2>1. loop'[s] = "exited" /\ \A z \in Shards : z # s => loop'[z] = loop[z]
    BY <1>1 DEF TypeInv, TypeOK
  <2>2. QED
    BY <1>1, <2>1 DEF PlaceInv, LoopInv, Closed, jobVars
<1>7. QED
  BY <1>3, <1>5, <1>6 DEF PlaceInv

(* A rotation moves the WAL of a tier to its segments.                     *)
LEMMA FlushEnginePlaces ==
  ASSUME TypeInv, PlaceInv, NEW c \in Checkpointers, NEW t \in Tiers, FlushEngine(c, t)
  PROVE  PlaceInv'
<1>1. /\ seg' = seg \cup (wal \cap InTier(t)) /\ wal' = wal \ InTier(t)
      /\ UNCHANGED <<callerVars, owner, loopVars, jobVars>>
  BY DEF FlushEngine, ownerVars
<1>2. \A z \in Shards : /\ Queued(z)' = Queued(z) /\ Held(z)' = Held(z)
                        /\ (LocalInv(z) => LocalInv(z)') /\ (Closed(z)' <=> Closed(z))
  BY <1>1 DEF loopVars, jobVars, Queued, Held, LocalInv, Closed
<1>3. Stored' = Stored /\ phase' = phase
  BY <1>1 DEF Stored, callerVars
<1>4. wal' \cap seg' = {}
  BY <1>1 DEF PlaceInv, StoreInv
<1>5. HolderInv'
  BY <1>2 DEF PlaceInv, HolderInv
<1>6. StoreInv' /\ UntakenInv' /\ DropInv'
  BY <1>1, <1>2, <1>3, <1>4 DEF PlaceInv, StoreInv, UntakenInv, DropInv, jobVars
<1>7. LoopInv'
  BY <1>1, <1>2 DEF PlaceInv, LoopInv, loopVars, jobVars
<1>8. QED
  BY <1>5, <1>6, <1>7 DEF PlaceInv

(* An aborted loop drops its queues; its job keeps its batch.              *)
LEMMA ShutdownReturnsPlaces ==
  ASSUME TypeInv, PlaceInv, ShutdownReturns
  PROVE  PlaceInv'
<1> DEFINE running == {s \in Shards : loop[s] # "exited"}
           victims == {s \in running : \E r \in running : r < s}
<1>1. /\ owner = "joining" /\ owner' = "returned"
      /\ loop' = [s \in Shards |-> IF s \in victims THEN "aborted" ELSE loop[s]]
      /\ chan' = [s \in Shards |-> IF s \in victims THEN <<>> ELSE chan[s]]
      /\ buffer' = [s \in Shards |-> IF s \in victims THEN <<>> ELSE buffer[s]]
      /\ UNCHANGED <<flight, todo, job, wal, seg>>
  BY DEF ShutdownReturns, jobVars, storeVars
<1>2. \A e \in Events : phase'[e] = phase[e] \/ phase'[e] = "closed"
  BY DEF ShutdownReturns, Reply
<1> HIDE DEF victims
<1>3. ASSUME NEW s \in Shards
      PROVE  /\ \/ /\ s \in victims /\ loop'[s] = "aborted"
                   /\ chan'[s] = <<>> /\ buffer'[s] = <<>>
                \/ /\ s \notin victims /\ loop'[s] = loop[s]
                   /\ chan'[s] = chan[s] /\ buffer'[s] = buffer[s]
             /\ flight'[s] = flight[s]
  BY <1>1
<1>4. ASSUME NEW s \in Shards
      PROVE  LocalInv(s)' /\ Queued(s)' \subseteq Queued(s) /\ Held(s)' \subseteq Held(s)
  <2>1. LocalInv(s)
    BY DEF PlaceInv, HolderInv
  <2>2. CASE s \in victims
    <3>1. chan'[s] = <<>> /\ buffer'[s] = <<>> /\ flight'[s] = flight[s]
      BY <1>3, <2>2
    <3>2. QED
      BY <3>1, EmptyToSet DEF LocalInv, Queued, Held
  <2>3. CASE s \notin victims
    <3>1. chan'[s] = chan[s] /\ buffer'[s] = buffer[s] /\ flight'[s] = flight[s]
      BY <1>3, <2>3
    <3>2. QED
      BY <2>1, <3>1 DEF LocalInv, Queued, Held
  <2>4. QED
    BY <2>2, <2>3
<1>5. HolderInv'
  BY <1>4 DEF PlaceInv, HolderInv
<1>6. Stored' = Stored
  BY <1>1 DEF Stored
<1>7. StoreInv'
  BY <1>1, <1>4, <1>6 DEF PlaceInv, StoreInv
<1>8. UntakenInv'
  <2>1. \A e \in Events : phase'[e] \in Untaken => phase[e] \in Untaken
    BY <1>2 DEF Untaken
  <2>2. QED
    BY <1>4, <1>6, <2>1 DEF PlaceInv, UntakenInv
<1>9. LoopInv'
  BY <1>1, <1>3 DEF PlaceInv, LoopInv, Closed
<1>10. DropInv'
  BY <1>1 DEF DropInv
<1>11. QED
  BY <1>5, <1>7, <1>8, <1>9, <1>10 DEF PlaceInv

(* Of a batch that was being appended only owed events can surface.        *)
LEMMA CrashPlaces ==
  ASSUME TypeInv, PlaceInv, Crash
  PROVE  PlaceInv'
<1>1. PICK part \in SUBSET (UNION {{e \in flight[s] : job[s] = "run" /\ TierOf[e] \in todo[s]}
                                   : s \in Shards}) :
        wal' = wal \cup part
  BY DEF Crash
<1>2. \A e \in part : e \notin Stored /\ \E s \in Shards : e \in Held(s)
  BY <1>1 DEF PlaceInv, StoreInv, Held
<1>3. /\ seg' = seg /\ owner' = "serving"
      /\ \A e \in Events : phase'[e] = phase[e] \/ phase'[e] = "abandoned"
  BY DEF Crash
<1>4. ASSUME NEW s \in Shards
      PROVE  /\ chan'[s] = <<>> /\ buffer'[s] = <<>> /\ flight'[s] = {}
             /\ loop'[s] = "run" /\ job'[s] = "none"
  BY DEF Crash
<1>5. \A s \in Shards : Queued(s)' = {} /\ Held(s)' = {} /\ LocalInv(s)'
  BY <1>4, EmptyToSet DEF Queued, Held, LocalInv
<1>6. HolderInv'
  BY <1>5 DEF HolderInv
<1>7. Stored' = Stored \cup part
  BY <1>1, <1>3 DEF Stored
<1>8. StoreInv'
  <2>1. wal' \cap seg' = {}
    BY <1>1, <1>2, <1>3 DEF PlaceInv, StoreInv, Stored
  <2>2. QED
    BY <1>4, <1>5, <2>1 DEF StoreInv
<1>9. UntakenInv'
  <2>1. \A e \in Events : phase'[e] \in Untaken => phase[e] \in Untaken
    BY <1>3 DEF Untaken
  <2>2. QED
    BY <1>2, <1>5, <1>7, <2>1 DEF PlaceInv, UntakenInv
<1>10. LoopInv'
  BY <1>4 DEF LoopInv, Closed
<1>11. DropInv'
  BY <1>3 DEF DropInv
<1>12. QED
  BY <1>6, <1>8, <1>9, <1>10, <1>11 DEF PlaceInv

(* A new writer holds nothing.                                             *)
LEMMA InitPlaceInv == Init => PlaceInv
<1> SUFFICES ASSUME Init PROVE PlaceInv
  OBVIOUS
<1>1. \A s \in Shards : /\ chan[s] = <<>> /\ buffer[s] = <<>> /\ flight[s] = {}
                        /\ loop[s] = "run" /\ job[s] = "none"
  BY DEF Init
<1>2. \A s \in Shards : Queued(s) = {} /\ Held(s) = {} /\ LocalInv(s)
  BY <1>1, EmptyToSet DEF Queued, Held, LocalInv
<1>3. wal = {} /\ seg = {} /\ owner = "serving"
  BY DEF Init
<1>4. HolderInv /\ StoreInv /\ UntakenInv
  BY <1>1, <1>2, <1>3 DEF HolderInv, StoreInv, UntakenInv, Stored
<1>5. LoopInv /\ DropInv
  BY <1>1, <1>3 DEF LoopInv, DropInv, Closed
<1>6. QED
  BY <1>4, <1>5 DEF PlaceInv

(* Every step keeps every event in one place.                              *)
LEMMA NextPlaceInv == TypeInv /\ PlaceInv /\ [Next]_vars => PlaceInv'
<1> SUFFICES ASSUME TypeInv, PlaceInv, [Next]_vars PROVE PlaceInv'
  OBVIOUS
<1>0. DropInv
  BY DEF PlaceInv
<1>1. ASSUME NEW r \in Requests, Begin(r) PROVE PlaceInv'
  <2>1. \A e \in Events : phase'[e] \in Untaken => phase[e] \in Untaken
    BY <1>1 DEF Begin, Untaken
  <2>2. UNCHANGED <<loopVars, jobVars, storeVars>> /\ owner' = owner /\ DropInv'
    BY <1>1 DEF Begin, DropInv, ownerVars
  <2>3. QED
    BY <2>1, <2>2, QuietFrame
<1>2. ASSUME NEW r \in Requests, Pick(r) PROVE PlaceInv'
  <2>1. PICK i \in DOMAIN r : /\ phase[r[i]] = "called"
                              /\ phase' = [phase EXCEPT ![r[i]] = "sending"]
                              /\ UNCHANGED <<ownerVars, loopVars, jobVars, storeVars>>
    BY <1>2 DEF Pick
  <2>2. r[i] \in Events
    BY EventAssumption
  <2>3. \A e \in Events : phase'[e] \in Untaken => phase[e] \in Untaken
    BY <2>1 DEF TypeInv, TypeOK, Untaken
  <2>4. owner # "dropped" /\ owner' = owner
    BY <1>0, <2>1, <2>2 DEF DropInv, Unsettled, ownerVars
  <2>5. QED
    BY <2>1, <2>3, <2>4, QuietFrame DEF DropInv
<1>3. ASSUME NEW r \in Requests, Abandon(r) PROVE PlaceInv'
  <2>1. \A e \in Events : phase'[e] = phase[e] \/ phase'[e] = "abandoned"
    BY <1>3 DEF Abandon
  <2>2. UNCHANGED <<loopVars, jobVars, storeVars>> /\ owner' = owner
    BY <1>3 DEF Abandon, ownerVars
  <2>3. DropInv' /\ \A e \in Events : phase'[e] \in Untaken => phase[e] \in Untaken
    BY <1>0, <2>1, <2>2 DEF DropInv, Unsettled, Untaken
  <2>4. QED
    BY <2>2, <2>3, QuietFrame
<1>4. ASSUME NEW e \in Events, NEW p \in {"full", "shut"}, phase[e] \in {"called", "sending"},
             phase' = [phase EXCEPT ![e] = p],
             UNCHANGED <<ownerVars, loopVars, jobVars, storeVars>>
      PROVE  PlaceInv'
  <2>1. owner' = owner
    BY <1>4 DEF ownerVars
  <2>2. DropInv' /\ \A x \in Events : phase'[x] \in Untaken => phase[x] \in Untaken
    BY <1>0, <1>4, <2>1 DEF DropInv, Unsettled, Untaken, TypeInv, TypeOK
  <2>3. QED
    BY <1>4, <2>1, <2>2, QuietFrame
<1>5. ASSUME NEW e \in Events, Send(e) PROVE PlaceInv'
  <2>1. /\ shard[e] \in Shards /\ phase[e] = "sending"
        /\ UNCHANGED <<ownerVars, buffer, loop, jobVars, storeVars>>
    BY <1>5 DEF Send, TypeInv, TypeOK
  <2>2. CASE Closed(shard[e])
    BY <1>4, <1>5, <2>1, <2>2 DEF Send, loopVars
  <2>3. CASE ~Closed(shard[e])
    <3>1. /\ chan' = [chan EXCEPT ![shard[e]] = Append(@, e)]
          /\ phase' = [phase EXCEPT ![e] = "waiting"]
      BY <1>5, <2>3 DEF Send
    <3>2. QED
      BY <2>1, <2>3, <3>1, EnqueuePlaces DEF ownerVars
  <2>4. QED
    BY <2>2, <2>3
<1>6. ASSUME NEW e \in Events, TrySend(e) PROVE PlaceInv'
  <2>1. /\ nextTx \in Shards /\ phase[e] = "called"
        /\ UNCHANGED <<ownerVars, buffer, loop, jobVars, storeVars>>
    BY <1>6 DEF TrySend, TypeInv, TypeOK
  <2>2. CASE UNCHANGED chan /\ \E p \in {"full", "shut"} : phase' = [phase EXCEPT ![e] = p]
    BY <1>4, <2>1, <2>2 DEF loopVars
  <2>3. CASE /\ ~Closed(nextTx)
             /\ chan' = [chan EXCEPT ![nextTx] = Append(@, e)]
             /\ phase' = [phase EXCEPT ![e] = "accepted"]
    BY <2>1, <2>3, EnqueuePlaces DEF ownerVars
  <2>4. QED
    BY <1>6, <2>2, <2>3 DEF TrySend
<1>7. ASSUME NEW s \in Shards, Recv(s) PROVE PlaceInv'
  <2>1. UNCHANGED <<callerVars, owner, storeVars>>
    BY <1>7 DEF Recv, ownerVars
  <2>2. QED
    BY <1>7, <2>1, RecvMoves, DrainPlaces, DispatchPlaces
<1>8. ASSUME NEW s \in Shards, Tick(s) PROVE PlaceInv'
  <2>1. /\ UNCHANGED <<callerVars, owner, storeVars>> /\ loop[s] = "run" /\ chan[s] = <<>>
        /\ UNCHANGED chan /\ StartFlush(s, buffer[s], "flush")
    BY <1>8 DEF Tick, ownerVars
  <2>2. Dispatch(s) /\ loop'[s] = "flush"
    BY <2>1, FlushDispatches
  <2>3. QED
    BY <2>1, <2>2, DispatchPlaces
<1>9. ASSUME NEW s \in Shards, RecvNone(s) PROVE PlaceInv'
  <2>1. /\ UNCHANGED <<callerVars, owner, storeVars, chan>>
        /\ owner = "dropped" /\ loop[s] = "run" /\ chan[s] = <<>>
    BY <1>9 DEF RecvNone, ownerVars
  <2>2. CASE buffer[s] # <<>>
    <3>1. StartFlush(s, buffer[s], "drain")
      BY <1>9, <2>2 DEF RecvNone
    <3>2. Dispatch(s) /\ loop'[s] = "drain" /\ chan'[s] = <<>>
      BY <2>1, <3>1, FlushDispatches
    <3>3. QED
      BY <2>1, <3>2, DispatchPlaces
  <2>3. CASE buffer[s] = <<>>
    <3>1. loop' = [loop EXCEPT ![s] = "final"] /\ UNCHANGED <<buffer, jobVars>>
      BY <1>9, <2>3 DEF RecvNone
    <3>2. \A z \in Shards : /\ Queued(z)' = Queued(z) /\ Held(z)' = Held(z)
                            /\ (LocalInv(z) => LocalInv(z)')
      BY <2>1, <3>1 DEF jobVars, Queued, Held, LocalInv
    <3>3. Stored' = Stored /\ wal' = wal /\ seg' = seg /\ phase' = phase
      BY <2>1 DEF storeVars, Stored, callerVars
    <3>4. HolderInv' /\ StoreInv' /\ UntakenInv' /\ DropInv'
      BY <2>1, <3>1, <3>2, <3>3
         DEF PlaceInv, HolderInv, StoreInv, UntakenInv, DropInv, jobVars
    <3>5. loop'[s] = "final" /\ \A z \in Shards : z # s => loop'[z] = loop[z]
      BY <3>1 DEF TypeInv, TypeOK
    <3>6. LoopInv'
      BY <2>1, <2>3, <3>1, <3>5 DEF PlaceInv, LoopInv, Closed, jobVars
    <3>7. QED
      BY <3>4, <3>6 DEF PlaceInv
  <2>4. QED
    BY <2>2, <2>3
<1>10. ASSUME NEW c \in Checkpointers, StartCheckpoint(c) \/ FlushEngineFails(c) PROVE PlaceInv'
  <2>1. UNCHANGED <<callerVars, ownerVars, loopVars, jobVars, storeVars>>
    BY <1>10 DEF StartCheckpoint, FlushEngineFails
  <2>2. QED
    BY <1>0, <2>1, QuietFrame DEF DropInv, callerVars, ownerVars
<1>11. CASE Shutdown \/ ShutdownAgain \/ Drop
  <2>1. /\ UNCHANGED <<callerVars, loopVars, jobVars, storeVars>>
        /\ owner = "dropped" => owner' = "dropped"
    BY <1>11 DEF Shutdown, ShutdownAgain, Drop
  <2>2. phase' = phase
    BY <2>1 DEF callerVars
  <2>3. DropInv'
    BY <1>0, <1>11, <2>2 DEF Shutdown, ShutdownAgain, Drop, DropInv
  <2>4. QED
    BY <2>1, <2>2, <2>3, QuietFrame
<1>12. CASE UNCHANGED vars
  BY <1>0, <1>12, QuietFrame DEF DropInv, vars, callerVars, ownerVars
<1>13. QED
  BY <1>1, <1>2, <1>3, <1>5, <1>6, <1>7, <1>8, <1>9, <1>10, <1>11, <1>12,
     AppendTierPlaces, AppendFailsPlaces, FinishFlushPlaces, LoopExitPlaces, FlushEnginePlaces,
     ShutdownReturnsPlaces, CrashPlaces DEF Next

(* Every reachable state keeps each event in the places PlaceInv allows.   *)
LEMMA PlaceInvariance == Spec => []PlaceInv
BY TypeInvariance, InitPlaceInv, NextPlaceInv, PTL DEF Spec

-----------------------------------------------------------------------------
(* Refusals and duplicates *)

(* The five kinds of places.                                               *)
LEMMA PlacesCases ==
  ASSUME TypeInv, NEW e \in Events, NEW p \in Places(e)
  PROVE  \/ \E s \in Shards : \E i \in DOMAIN chan[s] : p = <<"chan", s, i>> /\ chan[s][i] = e
         \/ \E s \in Shards : \E i \in DOMAIN buffer[s] : p = <<"buffer", s, i>> /\ buffer[s][i] = e
         \/ \E s \in Shards : /\ p = <<"job", s>> /\ job[s] = "run" /\ e \in flight[s]
                              /\ TierOf[e] \in todo[s]
         \/ p = <<"wal">> /\ e \in wal
         \/ p = <<"segment">> /\ e \in seg
<1> DEFINE C == UNION {{<<"chan", s, i>> : i \in {j \in DOMAIN chan[s] : chan[s][j] = e}}
                        : s \in Shards}
           B == UNION {{<<"buffer", s, i>> : i \in {j \in DOMAIN buffer[s] : buffer[s][j] = e}}
                        : s \in Shards}
           J == {<<"job", s>> : s \in {z \in Shards : job[z] = "run" /\ e \in flight[z]
                                                        /\ TierOf[e] \in todo[z]}}
           W == {<<"wal">> : x \in {e} \cap wal}
           G == {<<"segment">> : x \in {e} \cap seg}
<1>1. p \in C \/ p \in B \/ p \in J \/ p \in W \/ p \in G
  <2>1. p \in C \cup B \cup J \cup W \cup G
    BY DEF Places
  <2> HIDE DEF C, B, J, W, G
  <2>2. QED
    BY <2>1
<1>2. ASSUME p \in C
      PROVE  \E s \in Shards : \E i \in DOMAIN chan[s] : p = <<"chan", s, i>> /\ chan[s][i] = e
  BY <1>2
<1>3. ASSUME p \in B
      PROVE  \E s \in Shards : \E i \in DOMAIN buffer[s] : p = <<"buffer", s, i>> /\ buffer[s][i] = e
  BY <1>3
<1>4. ASSUME p \in J
      PROVE  \E s \in Shards : /\ p = <<"job", s>> /\ job[s] = "run" /\ e \in flight[s]
                               /\ TierOf[e] \in todo[s]
  BY <1>4
<1>5. ASSUME p \in W PROVE p = <<"wal">> /\ e \in wal
  BY <1>5
<1>6. ASSUME p \in G PROVE p = <<"segment">> /\ e \in seg
  BY <1>6
<1> HIDE DEF C, B, J, W, G
<1>7. QED
  BY <1>1, <1>2, <1>3, <1>4, <1>5, <1>6

(* A place is in a queue, in a job or on the disk.                         *)
LEMMA PlaceIsHeld ==
  ASSUME TypeInv, NEW e \in Events, NEW p \in Places(e)
  PROVE  e \in Stored \/ \E s \in Shards : e \in Held(s)
BY PlacesCases DEF Stored, Held, Queued, ToSet

(* An event that its caller was told to retry, or that was never sent, is  *)
(* in no queue, in no job, and neither in a WAL nor in a segment.          *)
THEOREM RefusedIsNotTaken == Spec => []RefusedNotTaken
<1>1. TypeInv /\ PlaceInv => RefusedNotTaken
  <2> SUFFICES ASSUME TypeInv, PlaceInv, NEW e \in Events, phase[e] \in Untaken, NEW p \in Places(e)
               PROVE  FALSE
    BY DEF RefusedNotTaken, Untaken
  <2>1. QED
    BY PlaceIsHeld DEF PlaceInv, UntakenInv
<1>2. QED
  BY <1>1, TypeInvariance, PlaceInvariance, PTL

(* Between the channels and the segments, at most one slot holds an event: *)
(* neither a drain, a flush, a retryable failure, a rotation, an abort nor *)
(* a crash doubles it.                                                     *)
THEOREM StoredAtMostOnce == Spec => []AtMostOnce
<1>1. TypeInv /\ PlaceInv => AtMostOnce
  <2> SUFFICES ASSUME TypeInv, PlaceInv, NEW e \in Events, NEW p \in Places(e), NEW q \in Places(e)
               PROVE  p = q
    BY DEF AtMostOnce
  <2> DEFINE InChan(x, s) == \E i \in DOMAIN chan[s] : x = <<"chan", s, i>> /\ chan[s][i] = e
             InBuffer(x, s) == \E i \in DOMAIN buffer[s] : x = <<"buffer", s, i>> /\ buffer[s][i] = e
             InJob(x, s) == x = <<"job", s>> /\ job[s] = "run" /\ e \in flight[s] /\ TierOf[e] \in todo[s]
             OnDisk(x) == (x = <<"wal">> /\ e \in wal) \/ (x = <<"segment">> /\ e \in seg)
             InShard(x, s) == InChan(x, s) \/ InBuffer(x, s) \/ InJob(x, s)
  <2>1. \A x \in {p, q} : OnDisk(x) \/ \E s \in Shards : InShard(x, s)
    BY PlacesCases
  <2>2. \A x, s : /\ InChan(x, s) => e \in ToSet(chan[s])
                  /\ InBuffer(x, s) => e \in ToSet(buffer[s])
    BY DEF ToSet
  <2>3. \A x, s : InShard(x, s) => e \in Held(s)
    BY <2>2 DEF Held, Queued
  <2>4. \A x \in {p, q}, s \in Shards : InShard(x, s) => e \notin Stored
    BY <2>2 DEF PlaceInv, StoreInv, Queued
  <2>5. CASE OnDisk(p)
    <3>1. e \in Stored
      BY <2>5 DEF Stored
    <3>2. OnDisk(q)
      BY <2>1, <2>4, <3>1
    <3>3. QED
      BY <2>5, <3>2 DEF PlaceInv, StoreInv
  <2>6. CASE ~OnDisk(p)
    <3>1. PICK s \in Shards : InShard(p, s)
      BY <2>1, <2>6
    <3>2. e \notin Stored
      BY <2>4, <3>1
    <3>3. ~OnDisk(q)
      BY <3>2 DEF Stored
    <3>4. PICK z \in Shards : InShard(q, z)
      BY <2>1, <3>3
    <3>5. s = z
      BY <2>3, <3>1, <3>4 DEF PlaceInv, HolderInv
    <3>6. LocalInv(s)
      BY DEF PlaceInv, HolderInv
    <3>7. CASE InChan(p, s)
      <4>1. e \in ToSet(chan[s]) /\ e \notin ToSet(buffer[s]) /\ e \notin flight[s]
        BY <2>2, <3>6, <3>7 DEF LocalInv, Queued
      <4>2. InChan(q, s)
        BY <2>2, <3>4, <3>5, <4>1
      <4>3. QED
        BY <3>6, <3>7, <4>2 DEF LocalInv, Distinct
    <3>8. CASE InBuffer(p, s)
      <4>1. e \notin ToSet(chan[s]) /\ e \in ToSet(buffer[s]) /\ e \notin flight[s]
        BY <2>2, <3>6, <3>8 DEF LocalInv, Queued
      <4>2. InBuffer(q, s)
        BY <2>2, <3>4, <3>5, <4>1
      <4>3. QED
        BY <3>6, <3>8, <4>2 DEF LocalInv, Distinct
    <3>9. CASE InJob(p, s)
      <4>1. e \notin ToSet(chan[s]) /\ e \notin ToSet(buffer[s])
        BY <3>6, <3>9 DEF LocalInv, Queued
      <4>2. InJob(q, s)
        BY <2>2, <3>4, <3>5, <4>1
      <4>3. QED
        BY <3>9, <4>2
    <3>10. QED
      BY <3>1, <3>7, <3>8, <3>9
  <2>7. QED
    BY <2>5, <2>6
<1>2. QED
  BY <1>1, TypeInvariance, PlaceInvariance, PTL

-----------------------------------------------------------------------------
(* Callers are answered, accepted events are kept *)

(* A step that takes nothing out of the open shards and makes no new       *)
(* waiter.                                                                 *)
LEMMA WaiterFrame ==
  ASSUME WaiterHeld, \A e \in Events : phase'[e] = "waiting" => phase[e] = "waiting",
         \A s \in Shards : ~Closed(s) => ~Closed(s)' /\ Held(s) \subseteq Held(s)'
  PROVE  WaiterHeld'
BY DEF WaiterHeld

(* An accepted event stays somewhere when what the shards hold and what is *)
(* stored or known to be lost only grows.                                  *)
LEMMA LossFrame ==
  ASSUME NoSilentLoss, \A e \in Events : phase'[e] = "accepted" => phase[e] = "accepted",
         Stored \subseteq Stored', lost \subseteq lost',
         \A s \in Shards : Held(s) \subseteq Held(s)'
  PROVE  NoSilentLoss'
<1> SUFFICES ASSUME NEW e \in Events, phase'[e] = "accepted"
             PROVE  e \in Stored' \cup lost' \/ \E s \in Shards : e \in Held(s)'
  BY DEF NoSilentLoss
<1>1. e \in Stored \cup lost \/ \E s \in Shards : e \in Held(s)
  BY DEF NoSilentLoss
<1>2. QED
  BY <1>1

(* The same, together, for a step that leaves the shards alone.            *)
KeptInv == WaiterHeld /\ NoSilentLoss

(* A step that leaves the shards' events alone and makes no caller wait    *)
(* keeps KeptInv.                                                          *)
LEMMA KeptFrame ==
  ASSUME KeptInv, UNCHANGED <<chan, buffer, loop, flight, lost>>, Stored \subseteq Stored',
         \A e \in Events : phase'[e] \in {"waiting", "accepted"} => phase'[e] = phase[e]
  PROVE  KeptInv'
<1>1. \A s \in Shards : Held(s)' = Held(s) /\ (Closed(s)' <=> Closed(s))
  BY DEF Held, Queued, Closed
<1>2. WaiterHeld'
  BY <1>1, WaiterFrame DEF KeptInv
<1>3. NoSilentLoss'
  BY <1>1, LossFrame DEF KeptInv
<1>4. QED
  BY <1>2, <1>3 DEF KeptInv

(* A request that is sent is held by the open shard it is sent to.         *)
LEMMA EnqueueKept ==
  ASSUME TypeInv, KeptInv, NEW s \in Shards, NEW e \in Events, NEW p \in {"waiting", "accepted"},
         ~Closed(s),
         chan' = [chan EXCEPT ![s] = Append(@, e)],
         phase' = [phase EXCEPT ![e] = p],
         UNCHANGED <<buffer, loop, jobVars, storeVars, lost>>
  PROVE  KeptInv'
<1>1. chan[s] \in Seq(Events) /\ chan'[s] = Append(chan[s], e)
  BY DEF TypeInv, TypeOK
<1>2. \A z \in Shards : z # s => chan'[z] = chan[z]
  BY DEF TypeInv, TypeOK
<1>3. Held(s)' = Held(s) \cup {e}
  BY <1>1, AppendToSet DEF Held, Queued, jobVars
<1>4. \A z \in Shards : Held(z) \subseteq Held(z)' /\ (Closed(z)' <=> Closed(z))
  BY <1>2, <1>3 DEF Held, Queued, Closed, jobVars
<1>5. Stored' = Stored /\ lost' = lost
  BY DEF Stored, storeVars
<1>6. \A x \in Events : x # e => phase'[x] = phase[x]
  BY DEF TypeInv, TypeOK
<1>7. WaiterHeld'
  BY <1>3, <1>4, <1>6 DEF KeptInv, WaiterHeld
<1>8. NoSilentLoss'
  <2> SUFFICES ASSUME NEW x \in Events, phase'[x] = "accepted"
               PROVE  x \in Stored' \cup lost' \/ \E z \in Shards : x \in Held(z)'
    BY DEF NoSilentLoss
  <2>1. CASE x = e
    BY <1>3, <2>1
  <2>2. CASE x # e
    <3>1. x \in Stored \cup lost \/ \E z \in Shards : x \in Held(z)
      BY <1>6, <2>2 DEF KeptInv, NoSilentLoss
    <3>2. QED
      BY <1>4, <1>5, <3>1
  <2>3. QED
    BY <2>1, <2>2
<1>9. QED
  BY <1>7, <1>8 DEF KeptInv

(* The loop's own steps keep what it holds.                                *)
LEMMA LoopKept ==
  ASSUME KeptInv, NEW s \in Shards, OthersSame(s), Held(s)' = Held(s), ~Closed(s)',
         UNCHANGED <<callerVars, storeVars, lost>>
  PROVE  KeptInv'
<1>1. \A z \in Shards : Held(z)' = Held(z) /\ (~Closed(z) => ~Closed(z)')
  BY OthersHeld DEF OthersSame, Closed
<1>2. phase' = phase /\ Stored' = Stored
  BY DEF callerVars, storeVars, Stored
<1>3. WaiterHeld'
  BY <1>1, <1>2, WaiterFrame DEF KeptInv
<1>4. NoSilentLoss'
  BY <1>1, <1>2, LossFrame DEF KeptInv
<1>5. QED
  BY <1>3, <1>4 DEF KeptInv

(* FinishFlush answers every waiter of the batch, and what it does not     *)
(* store of the accepted events it counts as lost.                         *)
LEMMA FinishFlushKept ==
  ASSUME TypeInv, KeptInv, NEW s \in Shards, FinishFlush(s)
  PROVE  KeptInv'
<1>1. /\ job[s] \in {"ok", "err"}
      /\ Reply(IF Closed(s) THEN {} ELSE flight[s], job[s])
      /\ lost' = lost \cup {e \in flight[s] : phase[e] = "accepted" /\ e \notin Stored}
      /\ flight' = [flight EXCEPT ![s] = {}]
      /\ UNCHANGED <<chan, buffer, storeVars>>
  BY DEF FinishFlush
<1>2. \A z \in Shards : Closed(z)' <=> Closed(z)
  BY DEF FinishFlush, Closed, TypeInv, TypeOK
<1>3. \A z \in Shards : Held(z) \subseteq Held(z)' \cup (IF z = s THEN flight[s] ELSE {})
  BY <1>1 DEF Held, Queued, TypeInv, TypeOK
<1>4. Stored' = Stored
  BY <1>1 DEF Stored, storeVars
<1>5. WaiterHeld'
  <2> SUFFICES ASSUME NEW e \in Events, phase'[e] = "waiting"
               PROVE  \E z \in Shards : e \in Held(z)' /\ ~Closed(z)'
    BY DEF WaiterHeld
  <2>1. phase[e] = "waiting" /\ (Closed(s) \/ e \notin flight[s])
    BY <1>1 DEF Reply
  <2>2. PICK z \in Shards : e \in Held(z) /\ ~Closed(z)
    BY <2>1 DEF KeptInv, WaiterHeld
  <2>3. e \in Held(z)'
    BY <1>3, <2>1, <2>2
  <2>4. QED
    BY <1>2, <2>2, <2>3
<1>6. NoSilentLoss'
  <2> SUFFICES ASSUME NEW e \in Events, phase'[e] = "accepted"
               PROVE  e \in Stored' \cup lost' \/ \E z \in Shards : e \in Held(z)'
    BY DEF NoSilentLoss
  <2>1. phase[e] = "accepted"
    BY <1>1 DEF Reply
  <2>2. e \in Stored \cup lost \/ \E z \in Shards : e \in Held(z)
    BY <2>1 DEF KeptInv, NoSilentLoss
  <2>3. CASE e \in flight[s] \/ e \in Stored \cup lost
    BY <1>1, <1>4, <2>1, <2>3
  <2>4. CASE ~(e \in flight[s] \/ e \in Stored \cup lost)
    BY <1>3, <2>2, <2>4
  <2>5. QED
    BY <2>3, <2>4
<1>7. QED
  BY <1>5, <1>6 DEF KeptInv

(* An abort answers the waiters of the loops it kills.                     *)
LEMMA ShutdownReturnsKept ==
  ASSUME TypeInv, KeptInv, ShutdownReturns
  PROVE  KeptInv'
<1> DEFINE running == {s \in Shards : loop[s] # "exited"}
           victims == {s \in running : \E r \in running : r < s}
           dropped == UNION {Held(s) : s \in victims}
           unsaved == UNION {Queued(s) : s \in victims}
<1>1. /\ loop' = [s \in Shards |-> IF s \in victims THEN "aborted" ELSE loop[s]]
      /\ chan' = [s \in Shards |-> IF s \in victims THEN <<>> ELSE chan[s]]
      /\ buffer' = [s \in Shards |-> IF s \in victims THEN <<>> ELSE buffer[s]]
      /\ UNCHANGED <<flight, wal, seg>>
      /\ Reply(dropped, "closed")
      /\ lost' = lost \cup {e \in unsaved : phase[e] = "accepted"}
  BY DEF ShutdownReturns, jobVars, storeVars
<1>2. victims \subseteq Shards
  OBVIOUS
<1> HIDE DEF victims
<1>3. \A s \in victims : Held(s) \subseteq dropped /\ Queued(s) \subseteq unsaved
  OBVIOUS
<1> HIDE DEF dropped, unsaved
<1>4. ASSUME NEW s \in Shards, s \notin victims
      PROVE  Held(s)' = Held(s) /\ (Closed(s)' <=> Closed(s))
  BY <1>1, <1>4 DEF Held, Queued, Closed
<1>5. \A s \in Shards : Held(s) \subseteq Held(s)' \cup (IF s \in victims THEN Queued(s) ELSE {})
  BY <1>1, <1>4 DEF Held
<1>6. Stored' = Stored
  BY <1>1 DEF Stored
<1>7. WaiterHeld'
  <2> SUFFICES ASSUME NEW e \in Events, phase'[e] = "waiting"
               PROVE  \E z \in Shards : e \in Held(z)' /\ ~Closed(z)'
    BY DEF WaiterHeld
  <2>1. phase[e] = "waiting" /\ e \notin dropped
    BY <1>1 DEF Reply
  <2>2. PICK z \in Shards : e \in Held(z) /\ ~Closed(z)
    BY <2>1 DEF KeptInv, WaiterHeld
  <2>3. z \notin victims
    BY <1>3, <2>1, <2>2
  <2>4. QED
    BY <1>4, <2>2, <2>3
<1>8. NoSilentLoss'
  <2> SUFFICES ASSUME NEW e \in Events, phase'[e] = "accepted"
               PROVE  e \in Stored' \cup lost' \/ \E z \in Shards : e \in Held(z)'
    BY DEF NoSilentLoss
  <2>1. phase[e] = "accepted"
    BY <1>1 DEF Reply
  <2>2. e \in Stored \cup lost \/ \E z \in Shards : e \in Held(z)
    BY <2>1 DEF KeptInv, NoSilentLoss
  <2>3. CASE e \in unsaved \/ e \in Stored \cup lost
    BY <1>1, <1>6, <2>1, <2>3
  <2>4. CASE ~(e \in unsaved \/ e \in Stored \cup lost)
    BY <1>3, <1>5, <2>2, <2>4
  <2>5. QED
    BY <2>3, <2>4
<1>9. QED
  BY <1>7, <1>8 DEF KeptInv

(* A crash leaves no waiter, and counts what it destroys.                  *)
LEMMA CrashKept ==
  ASSUME Crash PROVE KeptInv'
<1>1. WaiterHeld'
  BY DEF Crash, WaiterHeld, Unsettled
<1>2. NoSilentLoss'
  <2>1. PICK part :
          /\ wal' = wal \cup part
          /\ lost' = lost \cup {e \in Events : phase[e] = "accepted" /\ e \notin Stored \cup part}
    BY DEF Crash
  <2>2. Stored' = Stored \cup part
    BY <2>1 DEF Crash, Stored
  <2>3. \A e \in Events : phase'[e] = "accepted" => phase[e] = "accepted"
    BY DEF Crash
  <2>4. QED
    BY <2>1, <2>2, <2>3 DEF NoSilentLoss
<1>3. QED
  BY <1>1, <1>2 DEF KeptInv

(* A new writer has no callers.                                            *)
LEMMA InitKept == Init => KeptInv
BY DEF Init, KeptInv, WaiterHeld, NoSilentLoss

(* No step forgets a waiter or an accepted event.  LoopExit needs the      *)
(* places: the loop that closes its channel holds nothing any more.        *)
LEMMA NextKept == TypeInv /\ PlaceInv /\ KeptInv /\ [Next]_vars => KeptInv'
<1> SUFFICES ASSUME TypeInv, PlaceInv, KeptInv, [Next]_vars PROVE KeptInv'
  OBVIOUS
<1>0. ASSUME UNCHANGED storeVars PROVE Stored \subseteq Stored'
  BY <1>0 DEF storeVars, Stored
<1>1. ASSUME NEW r \in Requests, Begin(r) PROVE KeptInv'
  BY <1>0, <1>1, KeptFrame DEF Begin, loopVars, jobVars, ghostVars
<1>2. ASSUME NEW r \in Requests, Pick(r) PROVE KeptInv'
  <2>1. PICK i \in DOMAIN r : /\ phase' = [phase EXCEPT ![r[i]] = "sending"]
                              /\ UNCHANGED <<loopVars, jobVars, storeVars, ghostVars>>
    BY <1>2 DEF Pick
  <2>2. \A e \in Events : phase'[e] \in {"waiting", "accepted"} => phase'[e] = phase[e]
    BY <2>1 DEF TypeInv, TypeOK
  <2>3. QED
    BY <1>0, <2>1, <2>2, KeptFrame DEF loopVars, jobVars, ghostVars
<1>3. ASSUME NEW r \in Requests, Abandon(r) PROVE KeptInv'
  BY <1>0, <1>3, KeptFrame DEF Abandon, loopVars, jobVars, ghostVars
<1>4. ASSUME NEW e \in Events, NEW p \in {"full", "shut"},
             phase' = [phase EXCEPT ![e] = p],
             UNCHANGED <<chan, buffer, loop, jobVars, storeVars, ghostVars>>
      PROVE  KeptInv'
  <2>1. \A x \in Events : phase'[x] \in {"waiting", "accepted"} => phase'[x] = phase[x]
    BY <1>4 DEF TypeInv, TypeOK
  <2>2. QED
    BY <1>0, <1>4, <2>1, KeptFrame DEF jobVars, ghostVars
<1>5. ASSUME NEW e \in Events, Send(e) PROVE KeptInv'
  <2>1. shard[e] \in Shards /\ UNCHANGED <<buffer, loop, jobVars, storeVars, ghostVars>>
    BY <1>5 DEF Send, TypeInv, TypeOK
  <2>2. CASE Closed(shard[e])
    BY <1>4, <1>5, <2>1, <2>2 DEF Send
  <2>3. CASE ~Closed(shard[e])
    <3>1. /\ chan' = [chan EXCEPT ![shard[e]] = Append(@, e)]
          /\ phase' = [phase EXCEPT ![e] = "waiting"]
      BY <1>5, <2>3 DEF Send
    <3>2. QED
      BY <2>1, <2>3, <3>1, EnqueueKept DEF ghostVars
  <2>4. QED
    BY <2>2, <2>3
<1>6. ASSUME NEW e \in Events, TrySend(e) PROVE KeptInv'
  <2>1. nextTx \in Shards /\ UNCHANGED <<buffer, loop, jobVars, storeVars, ghostVars>>
    BY <1>6 DEF TrySend, TypeInv, TypeOK
  <2>2. CASE UNCHANGED chan /\ \E p \in {"full", "shut"} : phase' = [phase EXCEPT ![e] = p]
    BY <1>4, <2>1, <2>2
  <2>3. CASE /\ ~Closed(nextTx)
             /\ chan' = [chan EXCEPT ![nextTx] = Append(@, e)]
             /\ phase' = [phase EXCEPT ![e] = "accepted"]
    BY <2>1, <2>3, EnqueueKept DEF ghostVars
  <2>4. QED
    BY <1>6, <2>2, <2>3 DEF TrySend
<1>7. ASSUME NEW s \in Shards, Recv(s) PROVE KeptInv'
  <2>1. UNCHANGED <<callerVars, storeVars, lost>>
    BY <1>7 DEF Recv, ghostVars
  <2>2. CASE Drain(s)
    <3>1. OthersSame(s) /\ ~Closed(s)'
      BY <2>2 DEF Drain, Closed
    <3>2. Held(s)' = Held(s)
      BY <2>2, DrainHeld DEF PlaceInv, HolderInv
    <3>3. QED
      BY <2>1, <3>1, <3>2, LoopKept
  <2>3. CASE Dispatch(s) /\ loop'[s] = "flush"
    <3>1. OthersSame(s) /\ ~Closed(s)'
      BY <2>3 DEF Dispatch, Closed
    <3>2. QED
      BY <2>1, <2>3, <3>1, DispatchHeld, LoopKept
  <2>4. QED
    BY <1>7, <2>2, <2>3, RecvMoves
<1>8. ASSUME NEW s \in Shards, Tick(s) PROVE KeptInv'
  <2>1. /\ UNCHANGED <<callerVars, storeVars, lost, chan>>
        /\ loop[s] = "run" /\ chan[s] = <<>> /\ StartFlush(s, buffer[s], "flush")
    BY <1>8 DEF Tick, ghostVars
  <2>2. Dispatch(s) /\ loop'[s] = "flush"
    BY <2>1, FlushDispatches
  <2>3. OthersSame(s) /\ ~Closed(s)'
    BY <2>2 DEF Dispatch, Closed
  <2>4. QED
    BY <2>1, <2>2, <2>3, DispatchHeld, LoopKept
<1>9. ASSUME NEW s \in Shards, RecvNone(s) PROVE KeptInv'
  <2>1. /\ UNCHANGED <<callerVars, storeVars, lost, chan>>
        /\ loop[s] = "run" /\ chan[s] = <<>>
    BY <1>9 DEF RecvNone, ghostVars
  <2>2. CASE buffer[s] # <<>>
    <3>1. StartFlush(s, buffer[s], "drain")
      BY <1>9, <2>2 DEF RecvNone
    <3>2. Dispatch(s) /\ loop'[s] = "drain"
      BY <2>1, <3>1, FlushDispatches
    <3>3. OthersSame(s) /\ ~Closed(s)'
      BY <3>2 DEF Dispatch, Closed
    <3>4. QED
      BY <2>1, <3>2, <3>3, DispatchHeld, LoopKept
  <2>3. CASE buffer[s] = <<>>
    <3>1. loop' = [loop EXCEPT ![s] = "final"] /\ UNCHANGED <<buffer, jobVars>>
      BY <1>9, <2>3 DEF RecvNone
    <3>2. OthersSame(s) /\ Held(s)' = Held(s) /\ ~Closed(s)'
      BY <2>1, <3>1 DEF OthersSame, Held, Queued, Closed, jobVars, TypeInv, TypeOK
    <3>3. QED
      BY <2>1, <3>2, LoopKept
  <2>4. QED
    BY <2>2, <2>3
<1>10. ASSUME NEW s \in Shards, AppendTier(s) \/ AppendFails(s) PROVE KeptInv'
  <2>1. UNCHANGED <<callerVars, loopVars, flight, ghostVars>> /\ Stored \subseteq Stored'
    BY <1>10 DEF AppendTier, AppendFails, Stored
  <2>2. QED
    BY <2>1, KeptFrame DEF callerVars, loopVars, ghostVars
<1>11. ASSUME NEW s \in Shards, LoopExit(s) PROVE KeptInv'
  <2>1. /\ loop[s] = "final" /\ loop' = [loop EXCEPT ![s] = "exited"]
        /\ UNCHANGED <<callerVars, chan, buffer, jobVars, storeVars, lost>>
    BY <1>11 DEF LoopExit, ghostVars
  <2>2. owner = "dropped"
    BY <2>1 DEF PlaceInv, LoopInv
  <2>3. \A e \in Events : phase[e] # "waiting" /\ phase' = phase
    BY <2>1, <2>2 DEF PlaceInv, DropInv, Unsettled, callerVars
  <2>4. WaiterHeld'
    BY <2>3 DEF WaiterHeld
  <2>5. \A z \in Shards : Held(z)' = Held(z)
    BY <2>1 DEF Held, Queued, jobVars
  <2>6. NoSilentLoss'
    BY <1>0, <2>1, <2>3, <2>5, LossFrame DEF KeptInv
  <2>7. QED
    BY <2>4, <2>6 DEF KeptInv
<1>12. ASSUME NEW c \in Checkpointers, NEW t \in Tiers, FlushEngine(c, t) PROVE KeptInv'
  <2>1. UNCHANGED <<callerVars, loopVars, jobVars, ghostVars>> /\ Stored \subseteq Stored'
    BY <1>12 DEF FlushEngine, Stored
  <2>2. QED
    BY <2>1, KeptFrame DEF callerVars, loopVars, jobVars, ghostVars
<1>13. ASSUME UNCHANGED <<callerVars, loopVars, jobVars, storeVars, ghostVars>> PROVE KeptInv'
  BY <1>0, <1>13, KeptFrame DEF callerVars, loopVars, jobVars, ghostVars
<1>14. ASSUME NEW c \in Checkpointers, StartCheckpoint(c) \/ FlushEngineFails(c) PROVE KeptInv'
  BY <1>13, <1>14 DEF StartCheckpoint, FlushEngineFails
<1>15. CASE Shutdown \/ ShutdownAgain \/ Drop
  BY <1>13, <1>15 DEF Shutdown, ShutdownAgain, Drop
<1>16. CASE UNCHANGED vars
  BY <1>13, <1>16 DEF vars
<1>17. QED
  BY <1>1, <1>2, <1>3, <1>5, <1>6, <1>7, <1>8, <1>9, <1>10, <1>11, <1>12, <1>14, <1>15, <1>16,
     FinishFlushKept, ShutdownReturnsKept, CrashKept DEF Next

(* Every reachable state keeps what is waited for held, and loses nothing  *)
(* silently.                                                               *)
LEMMA KeptInvariance == Spec => []KeptInv
BY TypeInvariance, PlaceInvariance, InitKept, NextKept, PTL DEF Spec

(* A caller that awaits a confirmation is never forgotten: an open append  *)
(* loop holds its request, and answers it or drops its reply channel.      *)
THEOREM WaitersAreHeld == Spec => []WaiterHeld
<1>1. KeptInv => WaiterHeld
  BY DEF KeptInv
<1>2. QED
  BY <1>1, KeptInvariance, PTL

(* An event accepted by write_fire_and_forget is lost only to a failed     *)
(* append, the abort at the shutdown deadline or a crash.                  *)
THEOREM NothingSilentlyLost == Spec => []NoSilentLoss
<1>1. KeptInv => NoSilentLoss
  BY DEF KeptInv
<1>2. QED
  BY <1>1, KeptInvariance, PTL

-----------------------------------------------------------------------------
(* Back-pressure *)

(* A batch is no larger than the shard's share of the batch size.          *)
BatchInv ==
  \A s \in Shards : IsFiniteSet(flight[s]) /\ Cardinality(flight[s]) <= PerShardBatch

(* A step that leaves the batches in flight alone keeps BatchInv.          *)
LEMMA BatchFrame ==
  ASSUME BatchInv, UNCHANGED flight PROVE BatchInv'
BY DEF BatchInv

(* A buffer that is flushed is not yet full.                               *)
LEMMA FlushBatch ==
  ASSUME TypeInv, BatchInv, NEW s \in Shards, NEW then, StartFlush(s, buffer[s], then)
  PROVE  BatchInv'
<1>1. flight' = [flight EXCEPT ![s] = ToSet(buffer[s])]
  BY DEF StartFlush
<1>2. buffer[s] \in Seq(Events) /\ Len(buffer[s]) < PerShardBatch
  BY DEF TypeInv, TypeOK, QueueBounds
<1>3. IsFiniteSet(ToSet(buffer[s])) /\ Cardinality(ToSet(buffer[s])) <= Len(buffer[s])
  BY <1>2, ToSetCardinality
<1>4. Cardinality(ToSet(buffer[s])) \in Nat /\ Len(buffer[s]) \in Nat
  BY <1>2, <1>3, FS_CardinalityType
<1>5. Cardinality(ToSet(buffer[s])) <= PerShardBatch
  BY <1>2, <1>3, <1>4, BatchIsNat
<1>6. QED
  BY <1>1, <1>3, <1>5 DEF BatchInv, TypeInv, TypeOK

(* An empty batch is within every bound.                                   *)
LEMMA EmptyBatch == IsFiniteSet({}) /\ Cardinality({}) <= PerShardBatch
BY FS_EmptySet, BatchIsNat

(* Every step of the writer keeps the batches within their bounds.         *)
LEMMA NextBatchInv == TypeInv /\ PlaceInv /\ BatchInv /\ [Next]_vars => BatchInv'
<1> SUFFICES ASSUME TypeInv, PlaceInv, BatchInv, [Next]_vars PROVE BatchInv'
  OBVIOUS
<1>1. ASSUME NEW r \in Requests, Begin(r) \/ Pick(r) \/ Abandon(r) PROVE BatchInv'
  BY <1>1, BatchFrame DEF Begin, Pick, Abandon, jobVars
<1>2. ASSUME NEW e \in Events, Send(e) \/ TrySend(e) PROVE BatchInv'
  BY <1>2, BatchFrame DEF Send, TrySend, jobVars
<1>3. ASSUME NEW s \in Shards, Recv(s) PROVE BatchInv'
  <2>1. CASE Drain(s)
    BY <2>1, BatchFrame DEF Drain
  <2>2. CASE /\ Dispatch(s) /\ IsFiniteSet(flight'[s])
             /\ Cardinality(flight'[s]) <= PerShardBatch
    BY <2>2 DEF Dispatch, OthersSame, BatchInv
  <2>3. QED
    BY <1>3, <2>1, <2>2, RecvMoves
<1>4. ASSUME NEW s \in Shards, Tick(s) PROVE BatchInv'
  BY <1>4, FlushBatch DEF Tick
<1>5. ASSUME NEW s \in Shards, RecvNone(s) PROVE BatchInv'
  BY <1>5, FlushBatch, BatchFrame DEF RecvNone, jobVars
<1>6. ASSUME NEW s \in Shards, AppendTier(s) \/ AppendFails(s) \/ LoopExit(s) PROVE BatchInv'
  BY <1>6, BatchFrame DEF AppendTier, AppendFails, LoopExit, jobVars
<1>7. ASSUME NEW s \in Shards, FinishFlush(s) PROVE BatchInv'
  BY <1>7, EmptyBatch DEF FinishFlush, BatchInv, TypeInv, TypeOK
<1>8. ASSUME NEW c \in Checkpointers, StartCheckpoint(c) \/ FlushEngineFails(c) PROVE BatchInv'
  BY <1>8, BatchFrame DEF StartCheckpoint, FlushEngineFails, jobVars
<1>9. ASSUME NEW c \in Checkpointers, NEW t \in Tiers, FlushEngine(c, t) PROVE BatchInv'
  BY <1>9, BatchFrame DEF FlushEngine, jobVars
<1>10. CASE Shutdown \/ ShutdownReturns \/ ShutdownAgain \/ Drop
  BY <1>10, BatchFrame DEF Shutdown, ShutdownReturns, ShutdownAgain, Drop, jobVars
<1>11. CASE Crash
  BY <1>11, EmptyBatch DEF Crash, BatchInv
<1>12. CASE UNCHANGED vars
  BY <1>12, BatchFrame DEF vars, jobVars
<1>13. QED
  BY <1>1, <1>2, <1>3, <1>4, <1>5, <1>6, <1>7, <1>8, <1>9, <1>10, <1>11, <1>12 DEF Next

(* The division of the capacity rounds up: the shards together never have  *)
(* less than the configured capacity, nor a whole slot per shard more.     *)
LEMMA CapacityRoundsUp ==
  ChannelCapacity <= TotalCapacity /\ TotalCapacity < ChannelCapacity + FlushShards
<1>1. FlushShards \in Nat \ {0} /\ ChannelCapacity \in Nat \ {0}
  BY ConfigAssumption
<1> DEFINE a == ChannelCapacity + FlushShards - 1
           q == a \div FlushShards
<1>2. a \in Nat /\ a >= FlushShards
  BY <1>1
<1>3. q \in Nat /\ q * FlushShards <= a /\ a < q * FlushShards + FlushShards
  BY <1>1, <1>2
<1>4. q >= 1
  BY <1>1, <1>2, <1>3
<1>5. PerShardCap = q
  BY <1>3, <1>4 DEF PerShardCap
<1> HIDE DEF q
<1>6. QED
  BY <1>1, <1>3, <1>5 DEF TotalCapacity

(* What a shard holds in memory is bounded by its channel plus one batch.  *)
THEOREM BacklogIsBounded == Spec => []BoundedBacklog
<1>1. Init => BatchInv
  BY EmptyBatch DEF Init, BatchInv
<1>2. Spec => []BatchInv
  BY <1>1, TypeInvariance, PlaceInvariance, NextBatchInv, PTL DEF Spec
<1>3. TypeInv /\ PlaceInv /\ BatchInv => BoundedBacklog
  <2> SUFFICES ASSUME TypeInv, PlaceInv, BatchInv PROVE BoundedBacklog
    OBVIOUS
  <2>1. \A s \in Shards : flight[s] = {} \/ Closed(s) \/ buffer[s] = <<>>
    BY DEF PlaceInv, LoopInv
  <2>2. QED
    BY <2>1, CapacityRoundsUp DEF BoundedBacklog, TypeInv, BatchInv
<1>4. QED
  BY <1>2, <1>3, TypeInvariance, PlaceInvariance, PTL

-----------------------------------------------------------------------------
(* The refinement of EventLog: each step of a caller, a loop, a job, a     *)
(* checkpoint or the owner is, through the mapping of the instance Log, a  *)
(* step of the abstract log or leaves it alone.                            *)

(* The mapped status of an event.                                          *)
Status == [e \in Events |-> StatusOf(phase[e])]

(* The invariants the mapping rests on: types, Ok told of stored events    *)
(* only, every event in one place.                                         *)
MapInv == TypeInv /\ DurableInv /\ PlaceInv

(* What the phases mean to the client.                                     *)
LEMMA StatusCases ==
  /\ StatusOf("idle") = "new"
  /\ \A p \in Unsettled : StatusOf(p) = "pending"
  /\ StatusOf("ok") = "acked"
  /\ StatusOf("accepted") = "accepted"
  /\ \A p \in {"full", "shut"} : StatusOf(p) = "refused"
  /\ \A p \in {"err", "closed", "abandoned"} : StatusOf(p) = "unknown"
BY DEF StatusOf, Unsettled

(* A new writer is a new log.                                              *)
LEMMA InitRefines == Init => Log!LogInit
BY StatusCases DEF Init, Log!LogInit

(* A step that tells the client nothing new and moves nothing on the disk. *)
LEMMA StutterRefines ==
  ASSUME UNCHANGED storeVars, \A e \in Events : StatusOf(phase'[e]) = StatusOf(phase[e])
  PROVE  UNCHANGED Log!logVars
BY DEF storeVars, Log!logVars

(* The events of a batch that is being appended are pending or given up    *)
(* on: neither new, nor refused, nor answered Ok, and not on disk.         *)
LEMMA OwedIsUnanswered ==
  ASSUME MapInv, NEW s \in Shards, NEW e \in flight[s], job[s] = "run", TierOf[e] \in todo[s]
  PROVE  e \in Events /\ StatusOf(phase[e]) \notin {"new", "acked", "refused"} /\ e \notin Stored
<1>1. e \in Events /\ e \notin Stored /\ e \in Held(s)
  BY DEF MapInv, TypeInv, TypeOK, PlaceInv, StoreInv, Held
<1>2. phase[e] \in Phases /\ phase[e] \notin Untaken /\ phase[e] # "ok"
  BY <1>1 DEF MapInv, TypeInv, TypeOK, DurableInv, AckedDurable, PlaceInv, UntakenInv
<1>3. phase[e] \in Unsettled \cup {"err", "closed", "abandoned", "accepted"}
  BY <1>2 DEF Phases, Unsettled, Settled, Untaken
<1>4. StatusOf(phase[e]) \in {"pending", "unknown", "accepted"}
  BY <1>3, StatusCases
<1>5. QED
  BY <1>1, <1>4

(* Moving the events of S, all pending, to the phase p.                    *)
LEMMA BecomeMaps ==
  ASSUME NEW S \in SUBSET Events, NEW to,
         \A e \in S : StatusOf(phase'[e]) = to,
         \A e \in Events \ S : StatusOf(phase'[e]) = StatusOf(phase[e])
  PROVE  Log!Become(S, to)
BY DEF Log!Become

(* The callers' events that learn a failure.                               *)
LEMMA FailRefines ==
  ASSUME TypeInv, UNCHANGED storeVars, NEW S \in SUBSET Events,
         \A e \in S : phase[e] \in Unsettled /\ phase'[e] \in {"err", "closed", "abandoned"},
         \A e \in Events \ S : phase'[e] = phase[e]
  PROVE  Log!LogNext
<1>1. Log!Become(S, "unknown")
  BY BecomeMaps, StatusCases
<1>2. \A e \in S : Status[e] = "pending"
  BY StatusCases DEF Status
<1>3. Log!Fail(S)
  BY <1>1, <1>2 DEF Log!Fail, Status, storeVars
<1>4. QED
  BY <1>3 DEF Log!LogNext

(* An event that a shut or full writer turns away.                         *)
LEMMA RefuseRefines ==
  ASSUME MapInv, UNCHANGED storeVars, NEW e \in Events, NEW p \in {"full", "shut"},
         phase[e] \in {"called", "sending"}, phase' = [phase EXCEPT ![e] = p]
  PROVE  Log!LogNext
<1>1. e \notin Stored
  BY DEF MapInv, PlaceInv, UntakenInv, Untaken
<1>2. phase'[e] = p /\ \A x \in Events \ {e} : phase'[x] = phase[x]
  BY DEF MapInv, TypeInv, TypeOK
<1>3. Log!Become({e}, "refused")
  BY <1>2, BecomeMaps, StatusCases
<1>4. Status[e] = "pending"
  BY StatusCases DEF Status, Unsettled
<1>5. Log!Refuse(e)
  BY <1>1, <1>3, <1>4 DEF Log!Refuse, Status, Stored, storeVars
<1>6. QED
  BY <1>5 DEF Log!LogNext

(* The start of a call submits its events, or turns all of them away.      *)
LEMMA BeginRefines ==
  ASSUME MapInv, NEW r \in Requests, Begin(r)
  PROVE  Log!LogNext
<1>1. ToSet(r) \in SUBSET Events
  BY EventAssumption, ToSetType
<1>2. /\ \A e \in ToSet(r) : phase[e] = "idle" /\ phase'[e] = IF shutdown THEN "shut" ELSE "called"
      /\ \A e \in Events \ ToSet(r) : phase'[e] = phase[e]
      /\ UNCHANGED storeVars
  BY <1>1 DEF Begin
<1>3. \A e \in ToSet(r) : Status[e] = "new"
  BY <1>1, <1>2, StatusCases DEF Status
<1>4. CASE shutdown
  <2>1. Log!Become(ToSet(r), "refused")
    BY <1>1, <1>2, <1>4, BecomeMaps, StatusCases
  <2>2. QED
    BY <1>1, <1>2, <1>3, <2>1 DEF Log!Submit, Log!LogNext, Status, storeVars
<1>5. CASE ~shutdown
  <2>1. Log!Become(ToSet(r), "pending")
    BY <1>1, <1>2, <1>5, BecomeMaps, StatusCases DEF Unsettled
  <2>2. QED
    BY <1>1, <1>2, <1>3, <2>1 DEF Log!Submit, Log!LogNext, Status, storeVars
<1>6. QED
  BY <1>4, <1>5

(* A try_send that succeeds.                                               *)
LEMMA AcceptRefines ==
  ASSUME MapInv, UNCHANGED storeVars, NEW e \in Events,
         phase[e] = "called", phase' = [phase EXCEPT ![e] = "accepted"]
  PROVE  Log!LogNext
<1>1. phase'[e] = "accepted" /\ \A x \in Events \ {e} : phase'[x] = phase[x]
  BY DEF MapInv, TypeInv, TypeOK
<1>2. Log!Become({e}, "accepted")
  BY <1>1, BecomeMaps, StatusCases
<1>3. Status[e] = "pending"
  BY StatusCases DEF Status, Unsettled
<1>4. Log!Accept(e)
  BY <1>2, <1>3 DEF Log!Accept, Status, storeVars
<1>5. QED
  BY <1>4 DEF Log!LogNext

(* A part P of a batch reaches a WAL.                                      *)
LEMMA PersistRefines ==
  ASSUME MapInv, NEW s \in Shards, NEW P \in SUBSET flight[s], job[s] = "run",
         \A e \in P : TierOf[e] \in todo[s],
         wal' = wal \cup P, UNCHANGED <<phase, seg>>
  PROVE  Log!LogNext
<1>1. /\ P \in SUBSET Events
      /\ \A e \in P : StatusOf(phase[e]) \notin {"new", "acked", "refused"}
      /\ P \cap Stored = {}
  BY OwedIsUnanswered
<1>2. \A e \in P : Status[e] \notin {"new", "acked", "refused"}
  BY <1>1 DEF Status
<1>3. Log!Persist(P)
  BY <1>1, <1>2 DEF Log!Persist, Status, Stored
<1>4. QED
  BY <1>1, <1>3 DEF Log!LogNext

(* FinishFlush acknowledges a stored batch, or fails its waiters.          *)
LEMMA FinishFlushRefines ==
  ASSUME MapInv, NEW s \in Shards, FinishFlush(s)
  PROVE  Log!LogNext
<1> DEFINE S == {e \in Events : phase[e] = "waiting" /\ e \in flight[s] /\ ~Closed(s)}
<1>1. /\ job[s] \in {"ok", "err"} /\ UNCHANGED storeVars
      /\ Reply(IF Closed(s) THEN {} ELSE flight[s], job[s])
  BY DEF FinishFlush
<1>2. \A e \in S : phase[e] = "waiting" /\ phase'[e] = job[s]
  BY <1>1 DEF Reply
<1>3. \A e \in Events \ S : phase'[e] = phase[e]
  BY <1>1 DEF Reply
<1>4. S \in SUBSET Events /\ S \subseteq flight[s]
  OBVIOUS
<1> HIDE DEF S
<1>5. CASE job[s] = "ok"
  <2>1. S \subseteq Stored
    BY <1>4, <1>5 DEF MapInv, DurableInv, JobInv
  <2>2. Log!Become(S, "acked")
    BY <1>2, <1>3, <1>4, <1>5, BecomeMaps, StatusCases
  <2>3. \A e \in S : Status[e] = "pending"
    BY <1>2, <1>4, StatusCases DEF Status, Unsettled
  <2>4. Log!Ack(S)
    BY <1>1, <1>4, <2>1, <2>2, <2>3 DEF Log!Ack, Status, Stored, storeVars
  <2>5. QED
    BY <1>4, <2>4 DEF Log!LogNext
<1>6. CASE job[s] = "err"
  BY <1>1, <1>2, <1>3, <1>4, <1>6, FailRefines DEF MapInv, Unsettled
<1>7. QED
  BY <1>1, <1>5, <1>6

(* A rotation publishes what the WAL of its tier held.                     *)
LEMMA FlushEngineRefines ==
  ASSUME MapInv, NEW c \in Checkpointers, NEW t \in Tiers, FlushEngine(c, t)
  PROVE  Log!LogNext
<1> DEFINE S == wal \cap InTier(t)
<1>1. /\ S \in SUBSET Events /\ S \subseteq wal
      /\ wal' = wal \ S /\ seg' = seg \cup S /\ phase' = phase
  BY DEF FlushEngine, MapInv, TypeInv, TypeOK, callerVars
<1> HIDE DEF S
<1>2. Log!Publish(S)
  BY <1>1 DEF Log!Publish
<1>3. QED
  BY <1>1, <1>2 DEF Log!LogNext

(* A crash leaves every pending client without an answer.                  *)
LEMMA CrashRefines ==
  ASSUME MapInv, Crash
  PROVE  Log!LogNext
<1>1. PICK part : /\ part \subseteq UNION {{e \in flight[s] : job[s] = "run" /\ TierOf[e] \in todo[s]}
                                            : s \in Shards}
                  /\ wal' = wal \cup part
  BY DEF Crash
<1>2. /\ part \in SUBSET Events /\ part \cap Stored = {}
      /\ \A e \in part : StatusOf(phase[e]) \notin {"new", "acked", "refused"}
  BY <1>1, OwedIsUnanswered
<1>3. \A e \in part : Status[e] \notin {"new", "acked", "refused"}
  BY <1>2 DEF Status
<1> DEFINE S == {e \in Events : Status[e] = "pending"}
<1>4. \A e \in Events : phase[e] \in Unsettled <=> StatusOf(phase[e]) = "pending"
  BY StatusCases DEF MapInv, TypeInv, TypeOK, Phases, Settled
<1>5. S = {e \in Events : phase[e] \in Unsettled}
  BY <1>4 DEF Status
<1>6. /\ \A e \in S : phase'[e] = "abandoned"
      /\ \A e \in Events \ S : phase'[e] = phase[e]
      /\ seg' = seg
  BY <1>5 DEF Crash
<1>7. Log!Become(S, "unknown")
  <2> HIDE DEF S
  <2>1. S \in SUBSET Events
    BY DEF S
  <2>2. QED
    BY <1>6, <2>1, BecomeMaps, StatusCases
<1>8. Log!Crash(part)
  BY <1>1, <1>2, <1>3, <1>6, <1>7 DEF Log!Crash, Status, Stored
<1>9. QED
  BY <1>2, <1>8 DEF Log!LogNext

(* Every step of the writer is a step of the log, or none.                 *)
LEMMA NextRefines == MapInv /\ [Next]_vars => [Log!LogNext]_(Log!logVars)
<1> SUFFICES ASSUME MapInv, [Next]_vars PROVE Log!LogNext \/ UNCHANGED Log!logVars
  OBVIOUS
<1>1. ASSUME NEW r \in Requests, Pick(r) PROVE UNCHANGED Log!logVars
  <2>1. PICK i \in DOMAIN r : /\ phase[r[i]] = "called"
                              /\ phase' = [phase EXCEPT ![r[i]] = "sending"]
                              /\ UNCHANGED storeVars
    BY <1>1 DEF Pick
  <2>2. \A e \in Events : phase'[e] = phase[e] \/ (phase[e] = "called" /\ phase'[e] = "sending")
    BY <2>1 DEF MapInv, TypeInv, TypeOK
  <2>3. QED
    BY <2>1, <2>2, StutterRefines, StatusCases DEF Unsettled
<1>2. ASSUME NEW r \in Requests, Abandon(r) PROVE Log!LogNext
  <2> DEFINE S == {e \in ToSet(r) : phase[e] \in Unsettled}
  <2>1. S \in SUBSET Events
    BY EventAssumption, ToSetType
  <2>2. /\ \A e \in S : phase[e] \in Unsettled /\ phase'[e] = "abandoned"
        /\ \A e \in Events \ S : phase'[e] = phase[e]
        /\ UNCHANGED storeVars
    BY <1>2, <2>1 DEF Abandon
  <2> HIDE DEF S
  <2>3. QED
    BY <2>1, <2>2, FailRefines DEF MapInv
<1>3. ASSUME NEW e \in Events, Send(e) PROVE Log!LogNext \/ UNCHANGED Log!logVars
  <2>1. phase[e] = "sending" /\ UNCHANGED storeVars
    BY <1>3 DEF Send
  <2>2. CASE Closed(shard[e])
    BY <1>3, <2>1, <2>2, RefuseRefines DEF Send
  <2>3. CASE ~Closed(shard[e])
    <3>1. phase' = [phase EXCEPT ![e] = "waiting"]
      BY <1>3, <2>3 DEF Send
    <3>2. \A x \in Events : phase'[x] = phase[x] \/ (phase[x] = "sending" /\ phase'[x] = "waiting")
      BY <2>1, <3>1 DEF MapInv, TypeInv, TypeOK
    <3>3. QED
      BY <2>1, <3>2, StutterRefines, StatusCases DEF Unsettled
  <2>4. QED
    BY <2>2, <2>3
<1>4. ASSUME NEW e \in Events, TrySend(e) PROVE Log!LogNext
  <2>1. phase[e] = "called" /\ UNCHANGED storeVars
    BY <1>4 DEF TrySend
  <2>2. CASE phase' = [phase EXCEPT ![e] = "accepted"]
    BY <2>1, <2>2, AcceptRefines
  <2>3. CASE \E p \in {"full", "shut"} : phase' = [phase EXCEPT ![e] = p]
    BY <2>1, <2>3, RefuseRefines
  <2>4. QED
    BY <1>4, <2>2, <2>3 DEF TrySend
<1>5. ASSUME NEW s \in Shards, AppendTier(s) PROVE Log!LogNext
  <2>1. PICK t \in todo[s] : /\ job[s] = "run"
                             /\ wal' = wal \cup (flight[s] \cap InTier(t))
                             /\ UNCHANGED <<callerVars, seg>>
    BY <1>5 DEF AppendTier
  <2> DEFINE P == flight[s] \cap InTier(t)
  <2>2. P \in SUBSET flight[s] /\ \A e \in P : TierOf[e] \in todo[s]
    BY DEF InTier
  <2>3. wal' = wal \cup P /\ phase' = phase /\ seg' = seg
    BY <2>1 DEF callerVars
  <2> HIDE DEF P
  <2>4. QED
    BY <2>1, <2>2, <2>3, PersistRefines
<1>6. ASSUME NEW s \in Shards, AppendFails(s) PROVE Log!LogNext
  <2>1. PICK t \in todo[s], part \in SUBSET flight[s] :
          /\ part \subseteq InTier(t)
          /\ job[s] = "run"
          /\ wal' = wal \cup part
          /\ UNCHANGED <<callerVars, seg>>
    BY <1>6 DEF AppendFails
  <2>2. \A e \in part : TierOf[e] \in todo[s]
    BY <2>1 DEF InTier
  <2>3. QED
    BY <2>1, <2>2, PersistRefines DEF callerVars
<1>7. CASE ShutdownReturns
  <2>1. PICK D : Reply(D, "closed")
    BY <1>7 DEF ShutdownReturns
  <2> DEFINE S == {e \in Events : e \in D /\ phase[e] = "waiting"}
  <2>2. /\ \A e \in S : phase[e] \in Unsettled /\ phase'[e] = "closed"
        /\ \A e \in Events \ S : phase'[e] = phase[e]
        /\ UNCHANGED storeVars
    BY <1>7, <2>1 DEF ShutdownReturns, Reply, Unsettled
  <2>3. S \in SUBSET Events
    OBVIOUS
  <2> HIDE DEF S
  <2>4. QED
    BY <2>2, <2>3, FailRefines DEF MapInv
<1>8. ASSUME UNCHANGED <<callerVars, storeVars>> PROVE UNCHANGED Log!logVars
  BY <1>8, StutterRefines DEF callerVars
<1>9. ASSUME NEW s \in Shards, Recv(s) \/ Tick(s) \/ RecvNone(s) \/ LoopExit(s)
      PROVE  UNCHANGED Log!logVars
  BY <1>8, <1>9 DEF Recv, Tick, RecvNone, LoopExit
<1>10. ASSUME NEW c \in Checkpointers, StartCheckpoint(c) \/ FlushEngineFails(c)
       PROVE  UNCHANGED Log!logVars
  BY <1>8, <1>10 DEF StartCheckpoint, FlushEngineFails
<1>11. CASE Shutdown \/ ShutdownAgain \/ Drop \/ UNCHANGED vars
  BY <1>8, <1>11 DEF Shutdown, ShutdownAgain, Drop, vars
<1>12. QED
  BY <1>1, <1>2, <1>3, <1>4, <1>5, <1>6, <1>7, <1>9, <1>10, <1>11,
     BeginRefines, FinishFlushRefines, FlushEngineRefines, CrashRefines DEF Next

(* The batch writer, with its shards, channels, jobs, rotations, shutdowns *)
(* and crashes, implements the abstract event log: Ok is told of stored    *)
(* events only, a refused event is never stored, no event reaches the disk *)
(* twice, and no stored event is lost or hidden again.                     *)
THEOREM WriterImplementsLog == Spec => ImplementsLog
<1>1. Spec => []DurableInv
  BY TypeInvariance, InitDurableInv, NextDurableInv, PTL DEF Spec
<1>2. TypeInv /\ DurableInv /\ PlaceInv => MapInv
  BY DEF MapInv
<1>3. Spec => []MapInv
  BY <1>1, <1>2, TypeInvariance, PlaceInvariance, PTL
<1>4. QED
  BY <1>3, InitRefines, NextRefines, PTL DEF Spec, ImplementsLog, Log!LogSpec

====
