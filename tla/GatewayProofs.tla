--------------------------- MODULE GatewayProofs ---------------------------
(***************************************************************************)
(* Theorems about Gateway: who a request is, how a tier is mounted and     *)
(* what Retry-After promises, for every set of requests and                *)
(* configurations, every limit and every rate.                             *)
(***************************************************************************)
EXTENDS Gateway, FiniteSetTheorems, TLAPS

-----------------------------------------------------------------------------
(* Identity *)

(* The layers a request passes, and the steps of a job.                    *)
Layers == {"out", "queued", "auth", "rate", "body", "stale", "walk", "stamp", "write", "done"}
JobSteps == {"none", "start", "lock", "open", "publish", "use", "end", "failed"}

Identified == {"rate", "body", "stale", "walk", "stamp", "write"}

(* A request that has not been identified yet has the present keys among   *)
(* those it has seen, and a refused one is gone.                           *)
SeenInv ==
  /\ pc \in [Requests -> Layers]
  /\ DOMAIN who = Requests /\ DOMAIN seen = Requests /\ DOMAIN answer = Requests
  /\ \A r \in Requests : pc[r] \in {"queued", "auth"} => keys \in seen[r]
  /\ \A r \in Requests : answer[r] = 401 => pc[r] = "done"
  /\ \A r \in Requests :
       pc[r] \in Identified => \E ks \in seen[r] : who[r] \in Identity(ks, SecretOf[r])
  /\ \A r \in Requests :
       answer[r] = 401 => \E ks \in seen[r] : Identity(ks, SecretOf[r]) = {}

USE DEF Layers, JobSteps

(* No request has come past a layer when the gateway starts.               *)
LEMMA SeenInit == Init => SeenInv
  BY DEF Init, SeenInv, Identified

(* A request goes on to a later layer.                                     *)
LEMMA SeenKeptByMove ==
  ASSUME SeenInv, NEW r \in Requests, NEW layer \in Layers, answer[r] # 401,
         UNCHANGED <<keys, who, seen, answer>>,
         pc' = [pc EXCEPT ![r] = layer],
         layer \in {"queued", "auth"} => pc[r] \in {"queued", "auth"},
         layer \in Identified => pc[r] \in Identified
  PROVE  SeenInv'
  BY DEF SeenInv, Identified

(* A request leaves, for another reason than its key.                      *)
LEMMA SeenKeptByAnswer ==
  ASSUME SeenInv, NEW r \in Requests, NEW status \in Nat, status # 401,
         UNCHANGED <<keys, who, seen>>, Respond(r, status)
  PROVE  SeenInv'
  BY DEF SeenInv, Identified, Respond

(* Every step keeps SeenInv.                                               *)
LEMMA SeenStep == SeenInv /\ [Next]_vars => SeenInv'
<1> SUFFICES ASSUME SeenInv, [Next]_vars PROVE SeenInv'
  OBVIOUS
<1> USE DEF keyVars, requestVars, limitVars, sizeVars, storeVars, clockVars
<1>1. ASSUME NEW r \in Requests, Arrive(r) PROVE SeenInv'
  BY <1>1 DEF Arrive, Enter, SeenInv, Identified
<1>2. ASSUME NEW r \in Requests, Permit(r) PROVE SeenInv'
  <2>1. answer[r] # 401
    BY <1>2 DEF Permit, SeenInv
  <2> QED
    BY <1>2, <2>1, SeenKeptByMove DEF Permit, Identified
<1>3. ASSUME NEW r \in Requests, Authenticate(r) PROVE SeenInv'
  <2>1. keys \in seen[r] /\ answer[r] # 401 /\ UNCHANGED <<keys, seen>>
    BY <1>3 DEF Authenticate, SeenInv
  <2>2. CASE Identity(keys, SecretOf[r]) = {} /\ Respond(r, 401) /\ UNCHANGED who
    BY <2>1, <2>2 DEF Respond, SeenInv, Identified
  <2>3. ASSUME NEW w \in Identity(keys, SecretOf[r]),
               who' = [who EXCEPT ![r] = w],
               Enter(r, IF w.id = {} THEN "body" ELSE "rate")
        PROVE  SeenInv'
    BY <2>1, <2>3 DEF Enter, SeenInv, Identified
  <2> QED
    BY <1>3, <2>2, <2>3 DEF Authenticate, Snapshot
<1>4. ASSUME NEW r \in Requests, RateLimit(r) PROVE SeenInv'
  <2>1. pc[r] = "rate" /\ answer[r] # 401 /\ UNCHANGED <<keys, seen, who>>
    BY <1>4 DEF RateLimit, SeenInv
  <2>2. Enter(r, "body") \/ Respond(r, 429)
    BY <1>4 DEF RateLimit
  <2> QED
    BY <2>1, <2>2, SeenKeptByMove, SeenKeptByAnswer DEF Enter, Identified
<1>5. ASSUME NEW r \in Requests, Timeout(r) PROVE SeenInv'
  BY <1>5, SeenKeptByAnswer DEF Timeout
<1>6. ASSUME NEW r \in Requests, NEW size, pc[r] \in Identified, Verdict(r, size),
             UNCHANGED <<keys, seen, who>>
      PROVE  SeenInv'
  <2>1. answer[r] # 401
    BY <1>6 DEF SeenInv, Identified
  <2>2. Enter(r, "write") \/ Respond(r, 507)
    BY <1>6 DEF Verdict
  <2> QED
    BY <1>6, <2>1, <2>2, SeenKeptByMove, SeenKeptByAnswer DEF Enter, Identified
<1>7. ASSUME NEW r \in Requests, NEW layer \in Identified, pc[r] \in Identified,
             Enter(r, layer), UNCHANGED <<keys, seen, who>>
      PROVE  SeenInv'
  <2>1. answer[r] # 401
    BY <1>7 DEF SeenInv, Identified
  <2>2. layer \in Layers /\ layer \notin {"queued", "auth"}
    BY <1>7 DEF Identified
  <2>3. pc' = [pc EXCEPT ![r] = layer] /\ UNCHANGED answer
    BY <1>7 DEF Enter
  <2> QED
    BY <1>7, <2>1, <2>2, <2>3, SeenKeptByMove
<1>8. ASSUME NEW r \in Requests, CheckSize(r) PROVE SeenInv'
  BY <1>8, <1>6, <1>7 DEF CheckSize, Identified
<1>9. ASSUME NEW r \in Requests, TryRefresh(r) PROVE SeenInv'
  BY <1>9, <1>6, <1>7 DEF TryRefresh, Identified
<1>10. ASSUME NEW r \in Requests, NEW t, WalkEngine(r, t) PROVE SeenInv'
  BY <1>10 DEF WalkEngine, SeenInv
<1>11. ASSUME NEW r \in Requests, StoreSize(r) PROVE SeenInv'
  BY <1>11, <1>7 DEF StoreSize, Identified
<1>12. ASSUME NEW r \in Requests, StoreStamp(r) PROVE SeenInv'
  BY <1>12, <1>6 DEF StoreStamp, Identified
<1>13. ASSUME NEW r \in Requests, Finish(r) PROVE SeenInv'
  <2>1. PICK status \in {201, 500} : Respond(r, status)
    BY <1>13 DEF Finish
  <2>2. UNCHANGED <<keys, who, seen>>
    BY <1>13 DEF Finish
  <2> QED
    BY <2>1, <2>2, SeenKeptByAnswer
<1>14. ASSUME NEW r \in Requests, JobStep(r) PROVE SeenInv'
  BY <1>14 DEF JobStep, FastPath, TakeLock, OpenEngine, PublishEngine, UseEngine, JobFails, SeenInv
<1>15. ASSUME NEW c \in Configs, Reload(c) PROVE SeenInv'
  <2>1. /\ UNCHANGED <<pc, who, answer>>
        /\ seen' = [r \in Requests |->
             IF pc[r] \in {"queued", "auth"} THEN seen[r] \cup {keys'} ELSE seen[r]]
    BY <1>15 DEF Reload
  <2> QED
    BY <2>1 DEF SeenInv, Identified
<1>16. ASSUME Tick PROVE SeenInv'
  BY <1>16 DEF Tick, SeenInv
<1>17. ASSUME UNCHANGED vars PROVE SeenInv'
  BY <1>17 DEF vars, SeenInv
<1>18. ASSUME NEW t, Rotate(t) \/ Collect(t) PROVE SeenInv'
  <2>1. UNCHANGED <<keys, pc, who, seen, answer>>
    BY <1>18 DEF Rotate, Collect
  <2> QED BY <2>1 DEF SeenInv
<1> QED
  BY <1>1, <1>2, <1>3, <1>4, <1>5, <1>8, <1>9, <1>10, <1>11, <1>12, <1>13, <1>14, <1>15,
     <1>16, <1>17, <1>18 DEF Next, RequestStep

(* Whatever is reloaded and whenever, a request is judged by one key set   *)
(* that was published while it waited to be authenticated                  *)
(* (require_api_key, HotKeys::load, the SIGHUP loop).                      *)
THEOREM IdentityIsCurrent == Spec => []IdentityCurrent
<1>1. SeenInv => IdentityCurrent
  BY DEF SeenInv, IdentityCurrent, Identified
<1> QED
  BY SeenInit, SeenStep, <1>1, PTL DEF Spec

-----------------------------------------------------------------------------
(* Mounting *)

(* insert_lock is held by the job that opens or publishes an engine, of a  *)
(* tier that is in the map for nobody yet; an engine that was opened is    *)
(* the one in the map or about to be.  A job belongs to a request that has *)
(* been identified for good.                                               *)
MountInv ==
  /\ pc \in [Requests -> Layers] /\ job \in [Requests -> JobSteps]
  /\ DOMAIN who = Requests
  /\ \A r \in Requests : job[r] # "none" => pc[r] \in {"write", "done"}
  /\ \A r \in Requests :
       job[r] \in {"open", "publish"} => inserter = r /\ who[r].tier \notin DOMAIN engines
  /\ \A r \in Requests : job[r] = "publish" => \E o \in opened : o.tier = who[r].tier
  /\ \A r \in Requests : job[r] = "use" => who[r].tier \in DOMAIN engines
  /\ \A o \in opened :
       \/ o.tier \in DOMAIN engines
       \/ \E r \in Requests : job[r] = "publish" /\ who[r].tier = o.tier
  /\ MountedOnce

(* No engine is mounted when the gateway starts.                           *)
LEMMA MountInit == Init => MountInv
  BY DEF Init, MountInv, MountedOnce

(* A request moves on while the jobs and the engines stay as they are.     *)
LEMMA MountKeptByMove ==
  ASSUME MountInv, NEW r \in Requests, NEW layer \in Layers,
         UNCHANGED <<who, engines, opened, inserter, stored, job>>,
         pc' = [pc EXCEPT ![r] = layer],
         pc[r] \in {"write", "done"} => layer = "done"
  PROVE  MountInv'
  BY DEF MountInv, MountedOnce

(* The event of a request is handed to the writer.                         *)
LEMMA MountKeptByStart ==
  ASSUME MountInv, NEW r \in Requests, pc[r] \notin {"write", "done"},
         UNCHANGED <<who, engines, opened, inserter, stored>>,
         pc' = [pc EXCEPT ![r] = "write"],
         job' = [job EXCEPT ![r] = "start"]
  PROVE  MountInv'
<1>1. job[r] = "none"
  BY DEF MountInv
<1> QED
  BY <1>1 DEF MountInv, MountedOnce

(* Every step keeps MountInv.                                              *)
LEMMA MountStep == MountInv /\ [Next]_vars => MountInv'
<1> SUFFICES ASSUME MountInv, [Next]_vars PROVE MountInv'
  OBVIOUS
<1> USE DEF keyVars, requestVars, limitVars, sizeVars, storeVars, clockVars
<1>1. ASSUME NEW r \in Requests, Arrive(r) PROVE MountInv'
  BY <1>1, MountKeptByMove DEF Arrive, Enter
<1>2. ASSUME NEW r \in Requests, Permit(r) PROVE MountInv'
  BY <1>2, MountKeptByMove DEF Permit
<1>3. ASSUME NEW r \in Requests, Authenticate(r) PROVE MountInv'
  <2>1. pc[r] = "auth" /\ job[r] = "none" /\ UNCHANGED <<engines, opened, inserter, job, stored>>
    BY <1>3 DEF Authenticate, MountInv
  <2>2. CASE Respond(r, 401) /\ UNCHANGED who
    BY <2>1, <2>2, MountKeptByMove DEF Respond
  <2>3. ASSUME NEW w, NEW layer \in {"body", "rate"},
               who' = [who EXCEPT ![r] = w], Enter(r, layer)
        PROVE  MountInv'
    BY <2>1, <2>3 DEF Enter, MountInv, MountedOnce
  <2>4. \/ Respond(r, 401) /\ UNCHANGED who
        \/ \E w, layer : layer \in {"body", "rate"} /\ who' = [who EXCEPT ![r] = w] /\ Enter(r, layer)
    BY <1>3 DEF Authenticate
  <2> QED
    BY <2>2, <2>3, <2>4
<1>4. ASSUME NEW r \in Requests, RateLimit(r) PROVE MountInv'
  <2>1. /\ pc[r] = "rate"
        /\ UNCHANGED <<who, engines, opened, inserter, job, stored>>
        /\ Enter(r, "body") \/ Respond(r, 429)
    BY <1>4 DEF RateLimit
  <2> QED
    BY <2>1, MountKeptByMove DEF Enter, Respond
<1>5. ASSUME NEW r \in Requests, Timeout(r) PROVE MountInv'
  BY <1>5, MountKeptByMove DEF Timeout, Respond
<1>6. ASSUME NEW r \in Requests, NEW size, pc[r] \notin {"write", "done"}, Verdict(r, size),
             UNCHANGED <<who, engines, opened, inserter, stored>>
      PROVE  MountInv'
  <2>1. \/ Respond(r, 507) /\ UNCHANGED job
        \/ Enter(r, "write") /\ job' = [job EXCEPT ![r] = "start"]
    BY <1>6 DEF Verdict
  <2> QED
    BY <1>6, <2>1, MountKeptByMove, MountKeptByStart DEF Respond, Enter
<1>7. ASSUME NEW r \in Requests, CheckSize(r) PROVE MountInv'
  <2>1. CASE Verdict(r, cached)
    BY <1>7, <2>1, <1>6 DEF CheckSize
  <2>2. CASE Enter(r, "stale") /\ UNCHANGED job
    BY <1>7, <2>2, MountKeptByMove DEF CheckSize, Enter
  <2> QED
    BY <1>7, <2>1, <2>2 DEF CheckSize
<1>8. ASSUME NEW r \in Requests, TryRefresh(r) PROVE MountInv'
  <2>1. CASE Verdict(r, cached)
    BY <1>8, <2>1, <1>6 DEF TryRefresh
  <2>2. CASE Enter(r, "walk") /\ UNCHANGED job
    BY <1>8, <2>2, MountKeptByMove DEF TryRefresh, Enter
  <2> QED
    BY <1>8, <2>1, <2>2 DEF TryRefresh
<1>9. ASSUME NEW r \in Requests, NEW t, WalkEngine(r, t) PROVE MountInv'
  BY <1>9 DEF WalkEngine, MountInv, MountedOnce
<1>10. ASSUME NEW r \in Requests, StoreSize(r) PROVE MountInv'
  BY <1>10, MountKeptByMove DEF StoreSize, Enter
<1>11. ASSUME NEW r \in Requests, StoreStamp(r) PROVE MountInv'
  BY <1>11, <1>6 DEF StoreStamp
<1>12. ASSUME NEW r \in Requests, Finish(r) PROVE MountInv'
  BY <1>12, MountKeptByMove DEF Finish, Respond
<1>13. ASSUME NEW r \in Requests, FastPath(r) PROVE MountInv'
  BY <1>13 DEF FastPath, MountInv, MountedOnce
<1>14. ASSUME NEW r \in Requests, TakeLock(r) PROVE MountInv'
  BY <1>14, GatewayAssumption DEF TakeLock, MountInv, MountedOnce
<1>15. ASSUME NEW r \in Requests, OpenEngine(r) PROVE MountInv'
  <2> DEFINE e == Engine(who[r].tier)
  <2>1. e.tier = who[r].tier
    BY DEF Engine
  <2>2. \A o \in opened : o.tier # who[r].tier
    BY <1>15 DEF OpenEngine, MountInv
  <2> HIDE DEF e
  <2>3. /\ job[r] = "open" /\ job' = [job EXCEPT ![r] = "publish"]
        /\ opened' = opened \cup {e}
        /\ UNCHANGED <<pc, who, engines, inserter, stored>>
    BY <1>15 DEF OpenEngine, e
  <2>4. MountedOnce'
    BY <2>1, <2>2, <2>3 DEF MountInv, MountedOnce
  <2> QED
    BY <2>1, <2>3, <2>4 DEF MountInv
<1>16. ASSUME NEW r \in Requests, PublishEngine(r) PROVE MountInv'
  <2> DEFINE t == who[r].tier
             e == CHOOSE o \in opened : o.tier = t
  <2>1. e \in opened /\ e.tier = t
    BY <1>16 DEF PublishEngine, MountInv
  <2>2. t \notin DOMAIN engines /\ \A q \in Requests : job[q] \in {"open", "publish"} => q = r
    BY <1>16 DEF PublishEngine, MountInv
  <2> HIDE DEF e
  <2>3. /\ job[r] = "publish" /\ job' = [job EXCEPT ![r] = "use"]
        /\ engines' = [u \in DOMAIN engines \cup {t} |-> IF u = t THEN e ELSE engines[u]]
        /\ UNCHANGED <<pc, who, opened, stored>>
    BY <1>16 DEF PublishEngine, e
  <2>4. MountedOnce'
    BY <2>1, <2>2, <2>3 DEF MountInv, MountedOnce
  <2> QED
    BY <2>1, <2>2, <2>3, <2>4 DEF MountInv
<1>17. ASSUME NEW r \in Requests, JobFails(r) PROVE MountInv'
  BY <1>17 DEF JobFails, MountInv, MountedOnce
<1>18. ASSUME NEW r \in Requests, UseEngine(r) PROVE MountInv'
  BY <1>18 DEF UseEngine, MountInv, MountedOnce
<1>19. ASSUME NEW c \in Configs, Reload(c) PROVE MountInv'
  BY <1>19 DEF Reload, MountInv, MountedOnce
<1>20. ASSUME Tick PROVE MountInv'
  BY <1>20 DEF Tick, MountInv, MountedOnce
<1>21. ASSUME UNCHANGED vars PROVE MountInv'
  BY <1>21 DEF vars, MountInv, MountedOnce
<1>22. ASSUME NEW t, Rotate(t) \/ Collect(t) PROVE MountInv'
  <2>1. UNCHANGED <<pc, who, engines, opened, inserter, job, stored>>
    BY <1>22 DEF Rotate, Collect
  <2> QED BY <2>1 DEF MountInv, MountedOnce
<1> QED
  BY <1>1, <1>2, <1>3, <1>4, <1>5, <1>7, <1>8, <1>9, <1>10, <1>11, <1>12, <1>13, <1>14,
     <1>15, <1>16, <1>17, <1>18, <1>19, <1>20, <1>21, <1>22
  DEF Next, RequestStep, JobStep

(* engine_for's double-checked lock opens a tier once, whatever the number *)
(* of jobs that find it missing, jobs of requests that have timed out      *)
(* included, and every stored event is in the engine queries find.         *)
THEOREM TierMountedOnce == Spec => []MountedOnce
<1>1. MountInv => MountedOnce
  BY DEF MountInv
<1> QED
  BY MountInit, MountStep, <1>1, PTL DEF Spec

-----------------------------------------------------------------------------
(* The rate limiter *)

(* What the smaller of two numbers is.                                     *)
LEMMA MinOfTwo ==
  ASSUME NEW x \in Int, NEW y \in Int
  PROVE  Min({x, y}) = IF x <= y THEN x ELSE y
<1> DEFINE m == IF x <= y THEN x ELSE y
<1>1. m \in {x, y} /\ \A z \in {x, y} : m <= z
  OBVIOUS
<1>2. \A w \in {x, y} : (\A z \in {x, y} : w <= z) => w = m
  OBVIOUS
<1> QED
  BY <1>1, <1>2 DEF Min

(* What the larger of two numbers is.                                      *)
LEMMA MaxOfTwo ==
  ASSUME NEW x \in Int, NEW y \in Int
  PROVE  Max({x, y}) = IF x >= y THEN x ELSE y
<1> DEFINE m == IF x >= y THEN x ELSE y
<1>1. m \in {x, y} /\ \A z \in {x, y} : m >= z
  OBVIOUS
<1>2. \A w \in {x, y} : (\A z \in {x, y} : w >= z) => w = m
  OBVIOUS
<1> QED
  BY <1>1, <1>2 DEF Max

(* Products of natural numbers are natural numbers.                        *)
LEMMA ProductsOfNats ==
  ASSUME NEW x \in Nat, NEW y \in Nat
  PROVE  x * y \in Nat
  OBVIOUS

(* A full bucket holds at least one token.                                 *)
LEMMA FullBucket == Full \in Nat /\ Full >= TokenUnits
<1>1. Burst \in Nat /\ Burst >= 1 /\ TokenUnits \in Nat /\ TokenUnits >= 1
  BY GatewayAssumption
<1>2. Burst * TokenUnits >= TokenUnits /\ Burst * TokenUnits \in Nat
  BY <1>1
<1> QED
  BY <1>2 DEF Full

(* The wait, rounded up to whole seconds, is long enough for a token.      *)
LEMMA WaitSuffices ==
  ASSUME NEW tokens \in Nat, tokens < TokenUnits
  PROVE  RetryAfter(tokens) \in Nat /\ tokens + RetryAfter(tokens) * Rate >= TokenUnits
<1> DEFINE x == TokenUnits - tokens + Rate - 1
           q == x \div Rate
<1>1. Rate \in Nat /\ Rate >= 1 /\ TokenUnits \in Nat
  BY GatewayAssumption
<1>2. x \in Nat
  BY <1>1
<1> HIDE DEF x
<1>3. q \in Nat /\ x < q * Rate + Rate
  BY <1>1, <1>2
<1> HIDE DEF q
<1>4. q * Rate \in Nat
  BY <1>1, <1>3
<1>5. tokens + q * Rate >= TokenUnits
  BY <1>1, <1>3, <1>4 DEF x
<1> QED
  BY <1>3, <1>5 DEF q, x, RetryAfter

(* The buckets are between empty and full, and of the past.                *)
BucketsSound ==
  /\ now \in Nat
  /\ \A id \in DOMAIN buckets :
       /\ buckets[id].tokens \in 0 .. Full
       /\ buckets[id].last \in 0 .. now

(* What a bucket holds now is what it held and has gained since, up to the *)
(* burst.                                                                  *)
LEMMA RefillSound ==
  ASSUME BucketsSound, NEW id
  PROVE  /\ Refilled(id) \in 0 .. Full
         /\ id \notin DOMAIN buckets => Refilled(id) = Full
         /\ id \in DOMAIN buckets =>
              LET gain == (now - buckets[id].last) * Rate IN
              /\ gain \in Nat
              /\ Refilled(id) <= buckets[id].tokens + gain
              /\ Refilled(id) = buckets[id].tokens + gain \/ Refilled(id) = Full
<1>1. CASE id \notin DOMAIN buckets
  BY <1>1, FullBucket DEF Refilled
<1>2. CASE id \in DOMAIN buckets
  <2> DEFINE gain == (now - buckets[id].last) * Rate
             held == buckets[id].tokens
  <2>1. now - buckets[id].last \in Nat /\ Rate \in Nat
    BY <1>2, GatewayAssumption DEF BucketsSound
  <2>2. gain \in Nat
    BY <2>1, ProductsOfNats
  <2>3. held \in 0 .. Full
    BY <1>2 DEF BucketsSound
  <2>4. Refilled(id) = Min({held + gain, Full})
    BY <1>2 DEF Refilled
  <2> HIDE DEF gain, held
  <2>5. Refilled(id) = IF held + gain <= Full THEN held + gain ELSE Full
    BY <2>2, <2>3, <2>4, FullBucket, MinOfTwo
  <2>6. /\ Refilled(id) \in 0 .. Full
        /\ Refilled(id) <= held + gain
        /\ Refilled(id) = held + gain \/ Refilled(id) = Full
    BY <2>2, <2>3, <2>5, FullBucket
  <2> QED
    BY <1>2, <2>2, <2>6 DEF gain, held
<1> QED
  BY <1>1, <1>2

(* A promise is to a key whose bucket will hold a token when it is due.    *)
PromiseInv ==
  /\ BucketsSound
  /\ \A id \in DOMAIN promised :
       /\ id \in DOMAIN buckets
       /\ promised[id] \in Nat
       /\ promised[id] >= buckets[id].last
       /\ buckets[id].tokens + (promised[id] - buckets[id].last) * Rate >= TokenUnits

(* A client that waits as long as it was told to finds a token.            *)
LEMMA PromiseKept == PromiseInv => RetryHonest
<1> SUFFICES ASSUME PromiseInv, NEW id \in DOMAIN promised, now >= promised[id]
             PROVE  Refilled(id) >= TokenUnits
  BY DEF RetryHonest
<1> DEFINE held == buckets[id].tokens
           last == buckets[id].last
           due == promised[id]
<1>1. /\ id \in DOMAIN buckets /\ held \in Nat /\ last \in Nat /\ due \in Nat /\ now \in Nat
      /\ last <= due /\ due <= now
      /\ held + (due - last) * Rate >= TokenUnits
  BY FullBucket DEF PromiseInv, BucketsSound
<1>2. \/ Refilled(id) = held + (now - last) * Rate
      \/ Refilled(id) = Full
  BY <1>1, RefillSound DEF PromiseInv
<1> HIDE DEF held, last, due
<1>3. Rate \in Nat /\ TokenUnits \in Nat
  BY GatewayAssumption
<1>4. (now - due) * Rate \in Nat
  BY <1>1, <1>3, ProductsOfNats
<1>5. (now - last) * Rate = (now - due) * Rate + (due - last) * Rate
  BY <1>1, <1>3
<1>6. held + (now - last) * Rate >= TokenUnits
  BY <1>1, <1>3, <1>4, <1>5
<1> QED
  BY <1>2, <1>6, FullBucket

(* Nothing is promised when the gateway starts.                            *)
LEMMA PromiseInit == Init => PromiseInv
  BY DEF Init, PromiseInv, BucketsSound

(* What a request does to the rate limiter: it takes a token, or is denied *)
(* one.  The same second is in both buckets' stamps.                       *)
LEMMA BucketsStaySound ==
  ASSUME BucketsSound, NEW id, NEW tokens \in 0 .. Full, UNCHANGED now,
         buckets' = WithBucket(id, [tokens |-> tokens, last |-> now])
  PROVE  BucketsSound'
<1>1. now \in Nat /\ now \in 0 .. now
  BY DEF BucketsSound
<1> QED
  BY <1>1 DEF BucketsSound, WithBucket, Full

(* Every step keeps PromiseInv.                                            *)
LEMMA PromiseStep == PromiseInv /\ [Next]_vars => PromiseInv'
<1> SUFFICES ASSUME PromiseInv, [Next]_vars PROVE PromiseInv'
  OBVIOUS
<1> USE DEF keyVars, requestVars, limitVars, sizeVars, storeVars, clockVars
<1>1. ASSUME NEW r \in Requests, RateLimit(r) PROVE PromiseInv'
  <2>1. PICK id \in who[r].id :
          \/ /\ Refilled(id) >= TokenUnits
             /\ buckets' = WithBucket(id, [tokens |-> Refilled(id) - TokenUnits, last |-> now])
             /\ promised' = [i \in DOMAIN promised \ {id} |-> promised[i]]
          \/ /\ Refilled(id) < TokenUnits
             /\ buckets' = WithBucket(id, [tokens |-> Refilled(id), last |-> now])
             /\ promised' = [i \in DOMAIN promised \cup {id} |->
                              IF i = id THEN now + RetryAfter(Refilled(id)) ELSE promised[i]]
    BY <1>1 DEF RateLimit, Deny
  <2>2. UNCHANGED now
    BY <1>1 DEF RateLimit
  <2> DEFINE tokens == Refilled(id)
  <2>3. tokens \in 0 .. Full /\ tokens \in Nat /\ now \in Nat /\ BucketsSound
    BY RefillSound, FullBucket DEF PromiseInv, BucketsSound
  <2>4. TokenUnits \in Nat /\ TokenUnits <= Full /\ Full \in Nat
    BY FullBucket, GatewayAssumption
  <2>5. WithBucket(id, [tokens |-> tokens, last |-> now])[id] = [tokens |-> tokens, last |-> now]
    BY DEF WithBucket
  <2> HIDE DEF tokens
  <2>6. CASE /\ tokens >= TokenUnits
             /\ buckets' = WithBucket(id, [tokens |-> tokens - TokenUnits, last |-> now])
             /\ promised' = [i \in DOMAIN promised \ {id} |-> promised[i]]
    <3>1. tokens - TokenUnits \in 0 .. Full
      BY <2>3, <2>4, <2>6
    <3>2. BucketsSound'
      BY <2>2, <2>3, <2>6, <3>1, BucketsStaySound
    <3> QED
      BY <2>6, <3>2 DEF PromiseInv, WithBucket
  <2>7. CASE /\ tokens < TokenUnits
             /\ buckets' = WithBucket(id, [tokens |-> tokens, last |-> now])
             /\ promised' = [i \in DOMAIN promised \cup {id} |->
                              IF i = id THEN now + RetryAfter(tokens) ELSE promised[i]]
    <3> DEFINE wait == RetryAfter(tokens)
    <3>1. wait \in Nat /\ tokens + wait * Rate >= TokenUnits
      BY <2>3, <2>7, WaitSuffices
    <3>2. BucketsSound'
      BY <2>2, <2>3, <2>7, BucketsStaySound
    <3> HIDE DEF wait
    <3>3. now + wait \in Nat /\ now + wait >= now /\ (now + wait) - now = wait
      BY <2>3, <3>1
    <3>4. buckets'[id].tokens = tokens /\ buckets'[id].last = now
      BY <2>7 DEF WithBucket
    <3>5. promised'[id] = now + wait
      BY <2>7 DEF wait
    <3>6. ASSUME NEW i \in DOMAIN promised'
          PROVE  /\ i \in DOMAIN buckets' /\ promised'[i] \in Nat
                 /\ promised'[i] >= buckets'[i].last
                 /\ buckets'[i].tokens + (promised'[i] - buckets'[i].last) * Rate >= TokenUnits
      <4>1. CASE i = id
        BY <2>7, <3>1, <3>3, <3>4, <3>5, <4>1 DEF WithBucket
      <4>2. CASE i # id
        BY <2>7, <4>2 DEF WithBucket, PromiseInv
      <4> QED
        BY <4>1, <4>2
    <3> QED
      BY <3>2, <3>6 DEF PromiseInv
  <2> QED
    BY <2>1, <2>6, <2>7 DEF tokens
<1>2. ASSUME Tick PROVE PromiseInv'
  <2>1. now' = now + 1 /\ UNCHANGED <<buckets, promised>>
    BY <1>2 DEF Tick
  <2>2. BucketsSound'
    BY <2>1 DEF PromiseInv, BucketsSound, Full
  <2> QED
    BY <2>1, <2>2 DEF PromiseInv
<1>3. ASSUME UNCHANGED <<now, buckets, promised>> PROVE PromiseInv'
  BY <1>3 DEF PromiseInv, BucketsSound, Full
<1>4. ASSUME NEW r \in Requests, Arrive(r) \/ JobStep(r) PROVE UNCHANGED <<now, buckets, promised>>
  BY <1>4 DEF Arrive, JobStep, FastPath, TakeLock, OpenEngine, PublishEngine, UseEngine, JobFails
<1>5. ASSUME NEW r \in Requests, RequestStep(r), ~RateLimit(r)
      PROVE  UNCHANGED <<now, buckets, promised>>
  BY <1>5 DEF RequestStep, Permit, Authenticate, Timeout, CheckSize, TryRefresh, WalkEngine,
              StoreSize, StoreStamp, Finish
<1>6. ASSUME NEW c \in Configs, Reload(c) PROVE UNCHANGED <<now, buckets, promised>>
  BY <1>6 DEF Reload
<1>7. ASSUME UNCHANGED vars PROVE UNCHANGED <<now, buckets, promised>>
  BY <1>7 DEF vars
<1>8. ASSUME NEW t, Rotate(t) \/ Collect(t) PROVE UNCHANGED <<now, buckets, promised>>
  BY <1>8 DEF Rotate, Collect
<1> QED
  BY <1>1, <1>2, <1>3, <1>4, <1>5, <1>6, <1>7, <1>8 DEF Next

(* A client that waits as long as Retry-After told it is let through if    *)
(* nobody else took the key's token, for every rate, burst and fraction of *)
(* a token (try_acquire, with its ceiling).                                *)
THEOREM RetryIsHonest == Spec => []RetryHonest
<1> QED
  BY PromiseInit, PromiseStep, PromiseKept, PTL DEF Spec

-----------------------------------------------------------------------------
(* How much a key is let through *)

(* The requests of key id that took a token at second a or later.          *)
Taken(id, a) == {r \in Requests : who[r].id = {id} /\ tokenAt[r] # None /\ tokenAt[r] >= a}

(* The requests of a's key that took a token from a's to b's.              *)
InWindow(a, b) ==
  {r \in Requests : who[r].id = who[a].id /\ tokenAt[r] \in tokenAt[a] .. tokenAt[b]}

(* Counted from any second a, what a key took and what is left in its      *)
(* bucket come to no more than a full bucket and the gain since a.         *)
Budget ==
  \A id \in DOMAIN buckets : \A a \in 0 .. buckets[id].last :
    Cardinality(Taken(id, a)) * TokenUnits + buckets[id].tokens
      <= Full + (buckets[id].last - a) * Rate

(* A request has a token only once it is past the rate limiter, from the   *)
(* bucket of the one id it has.                                            *)
TokenInv ==
  /\ pc \in [Requests -> Layers] /\ DOMAIN who = Requests
  /\ tokenAt \in [Requests -> Nat \cup {None}]
  /\ \A r \in Requests : pc[r] = "rate" => \E id : who[r].id = {id}
  /\ \A r \in Requests : tokenAt[r] # None =>
       /\ pc[r] \notin {"out", "queued", "auth", "rate"}
       /\ \E id \in DOMAIN buckets : who[r].id = {id} /\ tokenAt[r] <= buckets[id].last

RateInv == BucketsSound /\ TokenInv /\ Budget /\ AdmittedWithinRate

(* The requests that took a token of an id are finitely many.              *)
LEMMA TakenFinite ==
  ASSUME NEW id, NEW a
  PROVE  IsFiniteSet(Taken(id, a)) /\ Cardinality(Taken(id, a)) \in Nat
  BY GatewayAssumption, FS_Subset, FS_CardinalityType DEF Taken

(* RateInv holds when the gateway starts.                                  *)
LEMMA RateInit == Init => RateInv
<1> SUFFICES ASSUME Init PROVE RateInv
  OBVIOUS
<1>1. BucketsSound /\ TokenInv /\ Budget
  BY DEF Init, BucketsSound, TokenInv, Budget
<1>2. AdmittedWithinRate
  BY DEF Init, AdmittedWithinRate
<1> QED
  BY <1>1, <1>2 DEF RateInv

(* Nobody takes a token, and who has one stays who it is.                  *)
LEMMA RateKept ==
  ASSUME RateInv, UNCHANGED <<buckets, tokenAt>>, now' \in Nat, now <= now',
         \A r \in Requests : tokenAt[r] # None => who'[r] = who[r],
         DOMAIN who' = Requests, TokenInv'
  PROVE  RateInv'
<1>1. BucketsSound'
  BY DEF RateInv, BucketsSound, Full
<1>2. ASSUME NEW id, NEW a PROVE Taken(id, a)' = Taken(id, a)
  BY DEF Taken
<1>3. Budget'
  BY <1>2 DEF RateInv, Budget, Full
<1>4. AdmittedWithinRate'
  <2>1. ASSUME NEW a \in Requests, NEW b \in Requests, tokenAt[a] # None, tokenAt[b] # None
        PROVE  InWindow(a, b)' = InWindow(a, b)
    <3>1. tokenAt[a] \in Nat /\ tokenAt[b] \in Nat
      BY <2>1 DEF RateInv, TokenInv
    <3>2. \A r \in Requests : tokenAt[r] \in tokenAt[a] .. tokenAt[b] => tokenAt[r] # None
      BY <3>1, GatewayAssumption
    <3> QED
      BY <2>1, <3>2 DEF InWindow
  <2>2. ASSUME NEW a \in Requests, NEW b \in Requests,
               tokenAt[a] # None, tokenAt[b] # None, who'[a].id = who'[b].id
        PROVE  Cardinality(InWindow(a, b)') * TokenUnits
                 <= Full + Max({tokenAt[b] - tokenAt[a], 0}) * Rate
    <3>1. who[a].id = who[b].id
      BY <2>2
    <3> QED
      BY <2>1, <2>2, <3>1 DEF RateInv, AdmittedWithinRate, InWindow
  <2> QED
    BY <2>2 DEF AdmittedWithinRate, InWindow, Full
<1> QED
  BY <1>1, <1>3, <1>4 DEF RateInv

(* The budget, counted up to now.                                          *)
LEMMA BudgetNow ==
  ASSUME RateInv, NEW id, NEW a \in 0 .. now
  PROVE  Cardinality(Taken(id, a)) * TokenUnits + Refilled(id) <= Full + (now - a) * Rate
<1>1. now \in Nat /\ a \in Nat /\ a <= now /\ BucketsSound
  BY DEF RateInv, BucketsSound
<1>2. Rate \in Nat /\ TokenUnits \in Nat /\ Full \in Nat /\ Refilled(id) \in 0 .. Full
  BY <1>1, GatewayAssumption, FullBucket, RefillSound
<1>3. (now - a) * Rate \in Nat
  BY <1>1, <1>2, ProductsOfNats
<1>4. CASE Taken(id, a) = {}
  <2>1. Cardinality(Taken(id, a)) = 0
    BY <1>4, FS_EmptySet
  <2> QED
    BY <1>2, <1>3, <2>1
<1>5. CASE Taken(id, a) # {}
  <2>1. PICK r \in Requests : who[r].id = {id} /\ tokenAt[r] # None /\ tokenAt[r] >= a
    BY <1>5 DEF Taken
  <2>2. id \in DOMAIN buckets /\ tokenAt[r] <= buckets[id].last /\ tokenAt[r] \in Nat
    BY <2>1 DEF RateInv, TokenInv
  <2> DEFINE held == buckets[id].tokens
             last == buckets[id].last
             count == Cardinality(Taken(id, a))
  <2>3. held \in Nat /\ last \in Nat /\ a <= last /\ last <= now
    BY <1>1, <1>2, <2>1, <2>2 DEF BucketsSound
  <2>4. Refilled(id) <= held + (now - last) * Rate
    BY <1>1, <2>2, RefillSound
  <2>5. a \in 0 .. last
    BY <1>1, <2>3
  <2>6. count * TokenUnits + held <= Full + (last - a) * Rate
    BY <2>2, <2>5 DEF RateInv, Budget
  <2>7. count \in Nat
    BY TakenFinite
  <2> HIDE DEF held, last, count
  <2>8. count * TokenUnits \in Nat /\ (last - a) * Rate \in Nat /\ (now - last) * Rate \in Nat
    BY <1>1, <1>2, <2>3, <2>7, ProductsOfNats
  <2>9. (now - a) * Rate = (now - last) * Rate + (last - a) * Rate
    BY <1>1, <1>2, <2>3
  <2>10. count * TokenUnits + Refilled(id) <= Full + (now - a) * Rate
    BY <1>2, <2>3, <2>4, <2>6, <2>8, <2>9
  <2> QED
    BY <2>10 DEF count
<1> QED
  BY <1>4, <1>5

(* Denying a request brings the bucket up to date.                         *)
LEMMA RateKeptByDenial ==
  ASSUME RateInv, NEW r \in Requests, NEW id,
         buckets' = WithBucket(id, [tokens |-> Refilled(id), last |-> now]),
         pc' = [pc EXCEPT ![r] = "done"], UNCHANGED <<who, now, tokenAt>>
  PROVE  RateInv'
<1>1. now \in Nat /\ Refilled(id) \in 0 .. Full /\ BucketsSound
  BY RefillSound DEF RateInv, BucketsSound
<1>2. BucketsSound'
  BY <1>1, BucketsStaySound
<1>3. /\ DOMAIN buckets' = DOMAIN buckets \cup {id}
      /\ buckets'[id] = [tokens |-> Refilled(id), last |-> now]
      /\ \A i \in DOMAIN buckets : i # id => buckets'[i] = buckets[i]
  BY DEF WithBucket
<1>4. \A i \in DOMAIN buckets : buckets[i].last \in Nat /\ buckets[i].last <= now
  BY <1>1 DEF BucketsSound
<1>5. \A i \in DOMAIN buckets : buckets'[i].last \in Nat /\ buckets[i].last <= buckets'[i].last
  BY <1>1, <1>3, <1>4
<1>6. TokenInv'
  <2>1. ASSUME NEW q \in Requests, tokenAt[q] # None
        PROVE  \E i \in DOMAIN buckets' : who[q].id = {i} /\ tokenAt[q] <= buckets'[i].last
    <3>1. PICK i \in DOMAIN buckets : who[q].id = {i} /\ tokenAt[q] <= buckets[i].last
      BY <2>1 DEF RateInv, TokenInv
    <3>2. tokenAt[q] \in Nat
      BY <2>1 DEF RateInv, TokenInv
    <3>3. tokenAt[q] <= buckets'[i].last
      BY <1>4, <1>5, <3>1, <3>2
    <3> QED
      BY <1>3, <3>1, <3>3
  <2> QED
    BY <2>1 DEF RateInv, TokenInv
<1>7. ASSUME NEW i \in DOMAIN buckets', NEW a \in 0 .. buckets'[i].last
      PROVE  Cardinality(Taken(i, a)) * TokenUnits + buckets'[i].tokens
               <= Full + (buckets'[i].last - a) * Rate
  <2>1. CASE i = id
    BY <1>3, <1>7, <2>1, BudgetNow
  <2>2. CASE i # id
    BY <1>3, <1>7, <2>2 DEF RateInv, Budget
  <2> QED
    BY <2>1, <2>2
<1>8. Budget'
  BY <1>7 DEF Budget, Taken, Full
<1>9. AdmittedWithinRate'
  BY DEF RateInv, AdmittedWithinRate, Full
<1> QED
  BY <1>2, <1>6, <1>8, <1>9 DEF RateInv

(* Letting a request through takes a token and stays within the budget.    *)
LEMMA RateKeptByToken ==
  ASSUME RateInv, NEW r \in Requests, NEW id, who[r].id = {id}, pc[r] = "rate",
         Refilled(id) >= TokenUnits,
         buckets' = WithBucket(id, [tokens |-> Refilled(id) - TokenUnits, last |-> now]),
         tokenAt' = [tokenAt EXCEPT ![r] = now],
         pc' = [pc EXCEPT ![r] = "body"], UNCHANGED <<who, now>>
  PROVE  RateInv'
<1> DEFINE left == Refilled(id) - TokenUnits
<1>1. /\ now \in Nat /\ Refilled(id) \in Nat /\ left \in 0 .. Full /\ left \in Nat
      /\ BucketsSound /\ TokenUnits \in Nat /\ Rate \in Nat /\ Full \in Nat
  BY RefillSound, FullBucket, GatewayAssumption DEF RateInv, BucketsSound
<1>2. BucketsSound'
  BY <1>1, BucketsStaySound
<1>3. /\ DOMAIN buckets' = DOMAIN buckets \cup {id}
      /\ buckets'[id] = [tokens |-> left, last |-> now]
      /\ \A i \in DOMAIN buckets : i # id => buckets'[i] = buckets[i]
  BY DEF WithBucket
<1>4. \A i \in DOMAIN buckets : buckets[i].last \in Nat /\ buckets[i].last <= now
  BY <1>1 DEF BucketsSound
<1>5. \A i \in DOMAIN buckets : buckets'[i].last \in Nat /\ buckets[i].last <= buckets'[i].last
  BY <1>1, <1>3, <1>4
<1>6. /\ tokenAt \in [Requests -> Nat \cup {None}] /\ tokenAt[r] = None
      /\ tokenAt' \in [Requests -> Nat \cup {None}] /\ tokenAt'[r] = now
      /\ \A q \in Requests \ {r} : tokenAt'[q] = tokenAt[q]
  BY <1>1 DEF RateInv, TokenInv
<1>7. ASSUME NEW q \in Requests, tokenAt'[q] # None
      PROVE  /\ tokenAt'[q] \in Nat /\ tokenAt'[q] <= now
             /\ \E i \in DOMAIN buckets' : who[q].id = {i} /\ tokenAt'[q] <= buckets'[i].last
  <2>1. CASE q = r
    BY <1>1, <1>3, <1>6, <2>1
  <2>2. CASE q # r
    <3>1. tokenAt'[q] = tokenAt[q] /\ tokenAt[q] \in Nat
      BY <1>6, <1>7, <2>2
    <3>2. PICK i \in DOMAIN buckets : who[q].id = {i} /\ tokenAt[q] <= buckets[i].last
      BY <1>7, <3>1 DEF RateInv, TokenInv
    <3>3. tokenAt[q] <= buckets'[i].last /\ tokenAt[q] <= now
      BY <1>1, <1>4, <1>5, <3>1, <3>2
    <3> QED
      BY <1>3, <3>1, <3>2, <3>3
  <2> QED
    BY <2>1, <2>2
<1>8. TokenInv'
  <2>1. \A q \in Requests : tokenAt'[q] # None =>
          pc'[q] \notin {"out", "queued", "auth", "rate"}
    BY <1>6 DEF RateInv, TokenInv
  <2>2. pc' \in [Requests -> Layers] /\ DOMAIN who' = Requests
    BY DEF RateInv, TokenInv
  <2>3. \A q \in Requests : pc'[q] = "rate" => \E i : who'[q].id = {i}
    BY DEF RateInv, TokenInv
  <2> QED
    BY <1>6, <1>7, <2>1, <2>2, <2>3 DEF TokenInv
<1>9. ASSUME NEW a \in 0 .. now
      PROVE  Cardinality(Taken(id, a)') * TokenUnits + left <= Full + (now - a) * Rate
  <2> DEFINE count == Cardinality(Taken(id, a))
  <2>1. Taken(id, a)' = Taken(id, a) \cup {r} /\ r \notin Taken(id, a)
    <3>1. now # None /\ now >= a
      BY <1>1, <1>9, GatewayAssumption
    <3> QED
      BY <1>6, <3>1 DEF Taken
  <2>2. Cardinality(Taken(id, a)') = count + 1 /\ count \in Nat
    BY <2>1, TakenFinite, FS_AddElement
  <2>3. count * TokenUnits + Refilled(id) <= Full + (now - a) * Rate
    BY <1>9, BudgetNow
  <2> HIDE DEF count
  <2>4. count * TokenUnits \in Nat /\ (now - a) * Rate \in Nat
    BY <1>1, <1>9, <2>2, ProductsOfNats
  <2>5. (count + 1) * TokenUnits = count * TokenUnits + TokenUnits
    BY <1>1, <2>2
  <2> QED
    BY <1>1, <2>2, <2>3, <2>4, <2>5
<1>10. Budget'
  <2>1. ASSUME NEW i \in DOMAIN buckets', NEW a \in 0 .. buckets'[i].last
        PROVE  Cardinality(Taken(i, a)') * TokenUnits + buckets'[i].tokens
                 <= Full + (buckets'[i].last - a) * Rate
    <3>1. CASE i = id
      BY <1>3, <1>9, <2>1, <3>1
    <3>2. CASE i # id
      <4>1. Taken(i, a)' = Taken(i, a)
        BY <1>6, <3>2 DEF Taken
      <4> QED
        BY <1>3, <2>1, <3>2, <4>1 DEF RateInv, Budget
    <3> QED
      BY <3>1, <3>2
  <2> QED
    BY <2>1 DEF Budget, Full
<1>11. ASSUME NEW a \in Requests, NEW b \in Requests,
              tokenAt'[a] # None, tokenAt'[b] # None, who[a].id = who[b].id
       PROVE  Cardinality(InWindow(a, b)') * TokenUnits
                <= Full + Max({tokenAt'[b] - tokenAt'[a], 0}) * Rate
  <2>1. tokenAt'[a] \in 0 .. now /\ tokenAt'[b] \in 0 .. now
    BY <1>1, <1>7, <1>11
  <2>2. PICK from \in 0 .. now, to \in 0 .. now : from = tokenAt'[a] /\ to = tokenAt'[b]
    BY <2>1
  <2>3. from \in Nat /\ to \in Nat /\ from <= now /\ to <= now /\ from = tokenAt'[a] /\ to = tokenAt'[b]
    BY <1>1, <2>2
  <2>4. Max({to - from, 0}) = IF to >= from THEN to - from ELSE 0
    BY <2>3, MaxOfTwo
  <2>5. CASE who[a].id = {id} /\ to = now
    <3>1. InWindow(a, b)' \subseteq Taken(id, from)'
      BY <1>6, <2>3, <2>5, GatewayAssumption DEF InWindow, Taken
    <3>2. IsFiniteSet(Taken(id, from)')
      BY GatewayAssumption, FS_Subset DEF Taken
    <3> DEFINE few == Cardinality(InWindow(a, b)')
               many == Cardinality(Taken(id, from)')
    <3>3. few <= many /\ few \in Nat /\ many \in Nat
      BY <3>1, <3>2, FS_Subset, FS_CardinalityType
    <3>4. many * TokenUnits + left <= Full + (now - from) * Rate
      BY <1>9, <2>2
    <3> HIDE DEF few, many
    <3>5. few * TokenUnits <= many * TokenUnits /\ few * TokenUnits \in Nat /\ many * TokenUnits \in Nat
      BY <1>1, <3>3
    <3>6. (now - from) * Rate \in Nat
      BY <1>1, <2>3, ProductsOfNats
    <3>7. few * TokenUnits <= Full + (now - from) * Rate
      BY <1>1, <3>4, <3>5, <3>6
    <3>8. Max({to - from, 0}) = now - from
      BY <1>1, <2>3, <2>4, <2>5
    <3> QED
      BY <2>3, <3>7, <3>8 DEF few
  <2>6. CASE who[a].id = {id} /\ to # now /\ a = r
    <3>1. to < from
      BY <1>1, <1>6, <2>3, <2>6
    <3>2. InWindow(a, b)' = {}
      BY <1>6, <2>3, <3>1, GatewayAssumption DEF InWindow
    <3>3. Cardinality(InWindow(a, b)') = 0
      BY <3>2, FS_EmptySet
    <3>4. Max({to - from, 0}) = 0
      BY <2>3, <2>4, <3>1
    <3>5. 0 * TokenUnits = 0 /\ 0 * Rate = 0
      BY <1>1
    <3> QED
      BY <1>1, <2>3, <3>3, <3>4, <3>5
  <2>7. CASE who[a].id # {id} \/ (to # now /\ a # r)
    <3>1. a # r /\ b # r
      BY <1>6, <1>11, <2>3, <2>7
    <3>2. tokenAt'[a] = tokenAt[a] /\ tokenAt'[b] = tokenAt[b]
      BY <1>6, <3>1
    <3>3. \A q \in Requests :
            (who[q].id = who[a].id /\ tokenAt'[q] \in from .. to)
              <=> (who[q].id = who[a].id /\ tokenAt[q] \in from .. to)
      <4>1. None \notin from .. to
        BY <2>3, GatewayAssumption
      <4>2. who[a].id = {id} => now \notin from .. to
        BY <1>1, <2>3, <2>7
      <4> QED
        BY <1>6, <4>1, <4>2
    <3>4. InWindow(a, b)' = InWindow(a, b)
      BY <2>3, <3>2, <3>3 DEF InWindow
    <3> QED
      BY <1>11, <2>3, <3>2, <3>4 DEF RateInv, AdmittedWithinRate, InWindow
  <2> QED
    BY <2>5, <2>6, <2>7
<1>12. AdmittedWithinRate'
  BY <1>11 DEF AdmittedWithinRate, InWindow, Full
<1> QED
  BY <1>2, <1>8, <1>10, <1>12 DEF RateInv

(* An identity has at most one id.                                         *)
LEMMA OneId ==
  ASSUME NEW ks, NEW secret, NEW w \in Identity(ks, secret)
  PROVE  w.id = {} \/ \E id : w.id = {id}
<1>1. \/ w = [id |-> {}, tier |-> StartConfig.default_tier]
      \/ w \in matched_key(ks, secret)
  BY DEF Identity
<1>2. \A i, t : [id |-> i, tier |-> t].id = i
  OBVIOUS
<1>3. CASE w = [id |-> {}, tier |-> StartConfig.default_tier]
  BY <1>2, <1>3
<1>4. CASE w \in matched_key(ks, secret)
  <2>1. \E i, t : w = [id |-> {i}, tier |-> t]
    BY <1>4 DEF matched_key
  <2> QED
    BY <1>2, <2>1
<1> QED
  BY <1>1, <1>3, <1>4

(* A request without a token moves, and stays in or before the limiter, or *)
(* is past it; nothing else the limiter looks at changes.                  *)
LEMMA TokenInvKept ==
  ASSUME TokenInv, NEW r \in Requests, NEW layer \in Layers,
         pc' = [pc EXCEPT ![r] = layer], UNCHANGED <<who, buckets, tokenAt>>,
         layer # "rate",
         tokenAt[r] # None => layer \notin {"out", "queued", "auth"}
  PROVE  TokenInv'
  BY DEF TokenInv

(* Every step keeps RateInv.                                               *)
LEMMA RateStep == RateInv /\ [Next]_vars => RateInv'
<1> SUFFICES ASSUME RateInv, [Next]_vars PROVE RateInv'
  OBVIOUS
<1> USE DEF keyVars, requestVars, limitVars, sizeVars, storeVars, clockVars
<1>0. now \in Nat /\ now <= now /\ TokenInv /\ DOMAIN who = Requests
  <2>1. now \in Nat
    BY DEF RateInv, BucketsSound
  <2>2. TokenInv /\ DOMAIN who = Requests
    BY DEF RateInv, TokenInv
  <2> QED
    BY <2>1, <2>2
<1>1. ASSUME NEW r \in Requests, NEW layer \in Layers,
             pc' = [pc EXCEPT ![r] = layer],
             UNCHANGED <<now, who, buckets, tokenAt>>,
             layer # "rate",
             layer \in {"out", "queued", "auth"} => pc[r] \in {"out", "queued", "auth"}
      PROVE  RateInv'
  <2>1. tokenAt[r] # None => layer \notin {"out", "queued", "auth"}
    BY <1>0, <1>1 DEF TokenInv
  <2>2. TokenInv'
    BY <1>0, <1>1, <2>1, TokenInvKept
  <2> QED
    BY <1>0, <1>1, <2>2, RateKept
<1>2. ASSUME UNCHANGED <<pc, who, buckets, tokenAt>>, now' \in {now, now + 1} PROVE RateInv'
  <2>1. TokenInv'
    BY <1>0, <1>2 DEF TokenInv
  <2>2. now' \in Nat /\ now <= now'
    BY <1>0, <1>2
  <2> QED
    BY <1>0, <1>2, <2>1, <2>2, RateKept
<1>3. ASSUME NEW r \in Requests, Authenticate(r) PROVE RateInv'
  <2>1. pc[r] = "auth" /\ UNCHANGED <<now, buckets, tokenAt>>
    BY <1>3 DEF Authenticate
  <2>2. CASE Respond(r, 401) /\ UNCHANGED who
    BY <1>1, <2>1, <2>2 DEF Respond
  <2>3. ASSUME NEW w \in Identity(keys, SecretOf[r]), who' = [who EXCEPT ![r] = w],
               Enter(r, IF w.id = {} THEN "body" ELSE "rate")
        PROVE  RateInv'
    <3>1. tokenAt[r] = None
      BY <1>0, <2>1 DEF TokenInv
    <3>2. w.id = {} \/ \E id : w.id = {id}
      BY OneId
    <3>3. TokenInv'
      BY <1>0, <2>1, <2>3, <3>1, <3>2 DEF Enter, TokenInv
    <3> QED
      BY <1>0, <2>1, <2>3, <3>1, <3>3, RateKept
  <2> QED
    BY <1>3, <2>2, <2>3 DEF Authenticate, Snapshot
<1>4. ASSUME NEW r \in Requests, RateLimit(r) PROVE RateInv'
  <2>1. pc[r] = "rate" /\ UNCHANGED <<now, who>>
    BY <1>4 DEF RateLimit
  <2>2. PICK id : who[r].id = {id}
    BY <1>0, <2>1 DEF TokenInv
  <2>3. CASE /\ Refilled(id) >= TokenUnits
             /\ buckets' = WithBucket(id, [tokens |-> Refilled(id) - TokenUnits, last |-> now])
             /\ tokenAt' = [tokenAt EXCEPT ![r] = now]
             /\ Enter(r, "body")
    BY <2>1, <2>2, <2>3, RateKeptByToken DEF Enter
  <2>4. CASE buckets' = Deny(id) /\ Respond(r, 429) /\ UNCHANGED tokenAt
    BY <2>1, <2>2, <2>4, RateKeptByDenial DEF Deny, Respond
  <2> QED
    BY <1>4, <2>2, <2>3, <2>4 DEF RateLimit
<1>5. ASSUME NEW r \in Requests, Arrive(r) PROVE RateInv'
  BY <1>5, <1>1 DEF Arrive, Enter
<1>6. ASSUME NEW r \in Requests, Permit(r) PROVE RateInv'
  BY <1>6, <1>1 DEF Permit
<1>7. ASSUME NEW r \in Requests, Timeout(r) PROVE RateInv'
  BY <1>7, <1>1 DEF Timeout, Respond
<1>8. ASSUME NEW r \in Requests, NEW size, Verdict(r, size),
             UNCHANGED <<now, who, buckets, tokenAt>>
      PROVE  RateInv'
  <2>1. PICK layer \in {"write", "done"} : pc' = [pc EXCEPT ![r] = layer]
    BY <1>8 DEF Verdict, Respond, Enter
  <2> QED
    BY <1>8, <2>1, <1>1
<1>9. ASSUME NEW r \in Requests, CheckSize(r) PROVE RateInv'
  <2>1. UNCHANGED <<now, who, buckets, tokenAt>> /\ (Verdict(r, cached) \/ Enter(r, "stale"))
    BY <1>9 DEF CheckSize
  <2> QED
    BY <2>1, <1>1, <1>8 DEF Enter
<1>10. ASSUME NEW r \in Requests, TryRefresh(r) PROVE RateInv'
  <2>1. UNCHANGED <<now, who, buckets, tokenAt>> /\ (Verdict(r, cached) \/ Enter(r, "walk"))
    BY <1>10 DEF TryRefresh
  <2> QED
    BY <2>1, <1>1, <1>8 DEF Enter
<1>11. ASSUME NEW r \in Requests, NEW t, WalkEngine(r, t) PROVE RateInv'
  BY <1>11, <1>2 DEF WalkEngine
<1>12. ASSUME NEW r \in Requests, StoreSize(r) PROVE RateInv'
  BY <1>12, <1>1 DEF StoreSize, Enter
<1>13. ASSUME NEW r \in Requests, StoreStamp(r) PROVE RateInv'
  BY <1>13, <1>8 DEF StoreStamp
<1>14. ASSUME NEW r \in Requests, Finish(r) PROVE RateInv'
  BY <1>14, <1>1 DEF Finish, Respond
<1>15. ASSUME NEW r \in Requests, JobStep(r) PROVE RateInv'
  BY <1>15, <1>2 DEF JobStep, FastPath, TakeLock, OpenEngine, PublishEngine, UseEngine, JobFails
<1>16. ASSUME NEW c \in Configs, Reload(c) PROVE RateInv'
  BY <1>16, <1>2 DEF Reload
<1>17. ASSUME Tick PROVE RateInv'
  BY <1>17, <1>2 DEF Tick
<1>18. ASSUME UNCHANGED vars PROVE RateInv'
  BY <1>18, <1>2 DEF vars
<1>19. ASSUME NEW t, Rotate(t) \/ Collect(t) PROVE RateInv'
  BY <1>19, <1>2 DEF Rotate, Collect
<1> QED
  BY <1>3, <1>4, <1>5, <1>6, <1>7, <1>9, <1>10, <1>11, <1>12, <1>13, <1>14, <1>15, <1>16,
     <1>17, <1>18, <1>19 DEF Next, RequestStep

(* No key is let through more often than its burst and its rate allow, in  *)
(* any stretch of time, for every number of requests, every burst, rate    *)
(* and fraction of a token, and across reloads (try_acquire and its        *)
(* middleware).                                                            *)
THEOREM AdmittedIsWithinRate == Spec => []AdmittedWithinRate
<1>1. RateInv => AdmittedWithinRate
  BY DEF RateInv
<1> QED
  BY RateInit, RateStep, <1>1, PTL DEF Spec

-----------------------------------------------------------------------------
(* The cached size *)

(* A walk of the engines, for a question of second t, whose engines of the *)
(* tiers left are still to be visited, has counted the events W: all were  *)
(* in a segment at t or later, and the ones that were there before t and   *)
(* still are have not been missed.  The dates and the identities are       *)
(* parameters, so that two states can be compared.                         *)
Covers(W, t, left, flushed, freed, ids) ==
  /\ \A e \in W : /\ flushed[e] # None
                  /\ freed[e] = None \/ freed[e] >= t
                  /\ ids[e].tier \notin left
  /\ \A e \in Requests :
       flushed[e] # None /\ freed[e] = None /\ flushed[e] < t /\ ids[e].tier \notin left => e \in W

Counted(t, left, total, flushed, freed, ids) ==
  \E W \in SUBSET Requests :
    total = Cardinality(W) /\ Covers(W, t, left, flushed, freed, ids)

Dates == [Requests -> Nat \cup {None}]

(* Sets of requests are finite.                                            *)
LEMMA RequestsFinite ==
  ASSUME NEW W \in SUBSET Requests
  PROVE  IsFiniteSet(W) /\ Cardinality(W) \in Nat
  BY GatewayAssumption, FS_Subset, FS_CardinalityType

(* A count stays right while later events are flushed and segments are     *)
(* dropped at a second n that is not before the question.                  *)
LEMMA CountedStays ==
  ASSUME NEW t \in Nat, NEW n \in Nat, t <= n, NEW left, NEW total,
         NEW flushed \in Dates, NEW freed \in Dates, NEW ids,
         NEW flushed2 \in Dates, NEW freed2 \in Dates, NEW ids2,
         \A e \in Requests : flushed2[e] = flushed[e] \/ (flushed[e] = None /\ flushed2[e] = n),
         \A e \in Requests : freed2[e] = freed[e] \/ (freed[e] = None /\ freed2[e] = n),
         \A e \in Requests : flushed[e] # None => ids2[e] = ids[e],
         Counted(t, left, total, flushed, freed, ids)
  PROVE  Counted(t, left, total, flushed2, freed2, ids2)
<1>1. PICK W \in SUBSET Requests :
        total = Cardinality(W) /\ Covers(W, t, left, flushed, freed, ids)
  BY DEF Counted
<1>2. None \notin Nat
  BY GatewayAssumption
<1>3. ASSUME NEW e \in W
      PROVE  /\ flushed2[e] # None
             /\ freed2[e] = None \/ freed2[e] >= t
             /\ ids2[e].tier \notin left
  <2>1. e \in Requests /\ flushed[e] # None
    BY <1>1, <1>3 DEF Covers
  <2>2. freed[e] = None \/ freed[e] >= t
    BY <1>1, <1>3 DEF Covers
  <2>3. ids[e].tier \notin left
    BY <1>1, <1>3 DEF Covers
  <2> QED BY <2>1, <2>2, <2>3
<1>4. ASSUME NEW e \in Requests, flushed2[e] # None, freed2[e] = None, flushed2[e] < t,
             ids2[e].tier \notin left
      PROVE  e \in W
  <2>1. flushed2[e] = flushed[e]
    BY <1>4
  <2>2. freed[e] = None
    BY <1>2, <1>4
  <2>3. ids2[e] = ids[e]
    BY <1>4, <2>1
  <2> QED BY <1>1, <1>4, <2>1, <2>2, <2>3 DEF Covers
<1>5. Covers(W, t, left, flushed2, freed2, ids2)
  BY <1>3, <1>4 DEF Covers
<1> QED BY <1>1, <1>5 DEF Counted

(* Before the first engine is visited nothing is counted.                  *)
LEMMA CountedNothing ==
  ASSUME NEW t, NEW left, NEW flushed, NEW freed, NEW ids,
         \A e \in Requests : flushed[e] # None => ids[e].tier \in left
  PROVE  Counted(t, left, 0, flushed, freed, ids)
<1>1. Covers({}, t, left, flushed, freed, ids)
  BY DEF Covers
<1>2. Cardinality({}) = 0
  BY FS_EmptySet
<1> QED BY <1>1, <1>2 DEF Counted

(* The visit of engine u counts the events in its segments.                *)
LEMMA CountedMore ==
  ASSUME NEW t, NEW left, NEW u \in left, NEW total, NEW flushed, NEW freed, NEW ids,
         Counted(t, left, total, flushed, freed, ids)
  PROVE  Counted(t, left \ {u},
                 total + Cardinality({e \in Requests : /\ flushed[e] # None /\ freed[e] = None
                                                       /\ ids[e].tier = u}),
                 flushed, freed, ids)
<1>1. PICK W \in SUBSET Requests :
        total = Cardinality(W) /\ Covers(W, t, left, flushed, freed, ids)
  BY DEF Counted
<1> DEFINE V == {e \in Requests : flushed[e] # None /\ freed[e] = None /\ ids[e].tier = u}
<1>2. W \cap V = {}
  BY <1>1 DEF Covers
<1>3. Covers(W \cup V, t, left \ {u}, flushed, freed, ids)
  <2>1. ASSUME NEW e \in W \cup V
        PROVE  /\ flushed[e] # None
               /\ freed[e] = None \/ freed[e] >= t
               /\ ids[e].tier \notin left \ {u}
    BY <1>1, <2>1 DEF Covers
  <2>2. ASSUME NEW e \in Requests, flushed[e] # None, freed[e] = None, flushed[e] < t,
               ids[e].tier \notin left \ {u}
        PROVE  e \in W \cup V
    BY <1>1, <2>2 DEF Covers
  <2> QED BY <2>1, <2>2 DEF Covers
<1>4. V \in SUBSET Requests /\ W \cup V \in SUBSET Requests
  OBVIOUS
<1> HIDE DEF V
<1>5. Cardinality(W \cup V) = Cardinality(W) + Cardinality(V)
  <2>1. IsFiniteSet(W) /\ IsFiniteSet(V) /\ Cardinality(W) \in Nat /\ Cardinality(V) \in Nat
    BY <1>4, RequestsFinite
  <2>2. Cardinality(W \cup V) = Cardinality(W) + Cardinality(V) - Cardinality(W \cap V)
    BY <2>1, FS_Union
  <2>3. Cardinality(W \cap V) = 0
    BY <1>2, FS_EmptySet
  <2> QED BY <2>1, <2>2, <2>3
<1>6. Counted(t, left \ {u}, total + Cardinality(V), flushed, freed, ids)
  BY <1>1, <1>3, <1>4, <1>5 DEF Counted
<1> QED BY <1>6 DEF V

(* A full count for a question is one for every earlier question.          *)
LEMMA CountedOlder ==
  ASSUME NEW t \in Nat, NEW s \in Nat, s <= t, NEW total,
         NEW flushed \in Dates, NEW freed \in Dates, NEW ids,
         Counted(t, {}, total, flushed, freed, ids)
  PROVE  Counted(s, {}, total, flushed, freed, ids)
<1>1. PICK W \in SUBSET Requests :
        total = Cardinality(W) /\ Covers(W, t, {}, flushed, freed, ids)
  BY DEF Counted
<1>2. ASSUME NEW e \in W
      PROVE  flushed[e] # None /\ (freed[e] = None \/ freed[e] >= s)
  <2>1. flushed[e] # None /\ (freed[e] = None \/ freed[e] >= t) /\ freed[e] \in Nat \cup {None}
    BY <1>1, <1>2 DEF Covers, Dates
  <2> QED BY <2>1
<1>3. ASSUME NEW e \in Requests, flushed[e] # None, freed[e] = None, flushed[e] < s
      PROVE  e \in W
  <2>1. flushed[e] \in Nat
    BY <1>3 DEF Dates
  <2>2. flushed[e] < t
    BY <1>3, <2>1
  <2> QED BY <1>1, <1>3, <2>2 DEF Covers
<1>4. Covers(W, s, {}, flushed, freed, ids)
  BY <1>2, <1>3 DEF Covers
<1> QED BY <1>1, <1>4 DEF Counted

(* A full count lies between the events that last and the recent ones.     *)
LEMMA CountedBounds ==
  ASSUME NEW t, NEW total, Counted(t, {}, total, flushedAt, freedAt, who)
  PROVE  /\ total \in Nat
         /\ Cardinality(Lasting(t)) \in Nat /\ Cardinality(Lasting(t)) <= total
         /\ Cardinality(Recent(t)) \in Nat /\ total <= Cardinality(Recent(t))
<1>1. PICK W \in SUBSET Requests :
        total = Cardinality(W) /\ Covers(W, t, {}, flushedAt, freedAt, who)
  BY DEF Counted
<1>2. Lasting(t) \subseteq W /\ W \subseteq Recent(t)
  BY <1>1 DEF Covers, Lasting, InSegments, Recent
<1>3. Lasting(t) \in SUBSET Requests /\ Recent(t) \in SUBSET Requests
  BY DEF Lasting, InSegments, Recent
<1>4. /\ IsFiniteSet(W) /\ Cardinality(W) \in Nat
      /\ IsFiniteSet(Recent(t)) /\ Cardinality(Recent(t)) \in Nat
      /\ Cardinality(Lasting(t)) \in Nat
  BY <1>3, RequestsFinite
<1>5. Cardinality(Lasting(t)) <= Cardinality(W)
  BY <1>2, <1>4, FS_Subset
<1>6. Cardinality(W) <= Cardinality(Recent(t))
  BY <1>2, <1>4, FS_Subset
<1> QED BY <1>1, <1>4, <1>5, <1>6

(* An event that went into a segment has been appended, to an engine of    *)
(* the map, and the request it came from is who it was.                    *)
DateInv ==
  /\ now \in Nat
  /\ flushedAt \in Dates /\ freedAt \in Dates
  /\ \A r \in Requests : flushedAt[r] # None => job[r] = "end" /\ who[r].tier \in DOMAIN engines

Asking == {"stale", "walk", "stamp"}

(* One request at a time refreshes the size, for a question no older than  *)
(* the stamp.  Its sum is a count for its question, as far as it has come, *)
(* and the cached size is one for the stamp: also between the store of the *)
(* size and that of the stamp, when it is one for the later question.      *)
AskInv ==
  /\ pc \in [Requests -> Layers]
  /\ asked \in [Requests -> Nat \cup {None}]
  /\ cachedAt \in Nat /\ cachedAt <= now
  /\ \A r \in Requests : pc[r] \in Asking => asked[r] \in Nat /\ asked[r] <= now
  /\ \A r \in Requests : pc[r] \notin Asking => asked[r] = None
  /\ \A r \in Requests : pc[r] \in {"walk", "stamp"} =>
       /\ refresher = r
       /\ cachedAt <= asked[r]
       /\ Counted(asked[r], walk.left, walk.total, flushedAt, freedAt, who)
  /\ \A r \in Requests : pc[r] = "stamp" => walk.left = {} /\ cached = walk.total
  /\ Counted(cachedAt, {}, cached, flushedAt, freedAt, who)

SizeInv == DateInv /\ AskInv

(* The gateway starts with nothing in its segments and no size.            *)
LEMMA SizeInit == Init => SizeInv
<1> SUFFICES ASSUME Init PROVE SizeInv
  OBVIOUS
<1>1. DateInv
  BY GatewayAssumption DEF Init, DateInv, Dates
<1>2. Counted(cachedAt, {}, 0, flushedAt, freedAt, who)
  BY CountedNothing DEF Init
<1>3. AskInv
  BY <1>2, GatewayAssumption DEF Init, AskInv, Asking
<1> QED BY <1>1, <1>3 DEF SizeInv

(* A step away from the size check: time may pass, events may be flushed   *)
(* and segments dropped, and the requests at the check stay where they     *)
(* are.                                                                    *)
LEMMA SizeKept ==
  ASSUME SizeInv, DateInv', now <= now',
         \A e \in Requests : \/ flushedAt'[e] = flushedAt[e]
                             \/ flushedAt[e] = None /\ flushedAt'[e] = now,
         \A e \in Requests : \/ freedAt'[e] = freedAt[e]
                             \/ freedAt[e] = None /\ freedAt'[e] = now,
         \A e \in Requests : flushedAt[e] # None => who'[e] = who[e],
         UNCHANGED <<cached, cachedAt, refresher, walk, asked>>,
         pc' \in [Requests -> Layers],
         \A x \in Requests : pc[x] \in Asking \/ pc'[x] \in Asking => pc'[x] = pc[x]
  PROVE  SizeInv'
<1>1. now \in Nat /\ now' \in Nat /\ flushedAt \in Dates /\ freedAt \in Dates
      /\ flushedAt' \in Dates /\ freedAt' \in Dates /\ cachedAt \in Nat /\ cachedAt <= now
  BY DEF SizeInv, DateInv, AskInv
<1>2. Counted(cachedAt, {}, cached, flushedAt', freedAt', who')
  <2>1. Counted(cachedAt, {}, cached, flushedAt, freedAt, who)
    BY DEF SizeInv, AskInv
  <2> QED BY <1>1, <2>1, CountedStays
<1>3. ASSUME NEW x \in Requests, pc[x] \in {"walk", "stamp"}
      PROVE  Counted(asked[x], walk.left, walk.total, flushedAt', freedAt', who')
  <2>1. /\ asked[x] \in Nat /\ asked[x] <= now
        /\ Counted(asked[x], walk.left, walk.total, flushedAt, freedAt, who)
    BY <1>3 DEF SizeInv, AskInv, Asking
  <2> QED BY <1>1, <2>1, CountedStays
<1>4. \A x \in Requests : pc'[x] \in Asking => pc[x] = pc'[x]
  OBVIOUS
<1>5. \A x \in Requests : pc'[x] \notin Asking => pc[x] \notin Asking
  OBVIOUS
<1>6. AskInv'
  <2>1. \A x \in Requests : pc'[x] \in Asking => asked[x] \in Nat /\ asked[x] <= now'
    BY <1>1, <1>4 DEF SizeInv, AskInv
  <2>2. \A x \in Requests : pc'[x] \notin Asking => asked[x] = None
    BY <1>5 DEF SizeInv, AskInv
  <2>3. ASSUME NEW x \in Requests, pc'[x] \in {"walk", "stamp"}
        PROVE  /\ refresher = x /\ cachedAt <= asked[x]
               /\ Counted(asked[x], walk.left, walk.total, flushedAt', freedAt', who')
               /\ pc'[x] = "stamp" => walk.left = {} /\ cached = walk.total
    <3>1. pc[x] = pc'[x]
      BY <1>4, <2>3 DEF Asking
    <3> QED BY <1>3, <2>3, <3>1 DEF SizeInv, AskInv
  <2>4. cachedAt <= now' /\ asked \in [Requests -> Nat \cup {None}]
    BY <1>1 DEF SizeInv, AskInv
  <2> QED BY <1>1, <1>2, <2>1, <2>2, <2>3, <2>4 DEF AskInv
<1> QED BY <1>6 DEF SizeInv

(* Nothing is flushed or dropped, and no request comes to the check or     *)
(* leaves it.                                                              *)
LEMMA SizeKeptByMove ==
  ASSUME SizeInv, UNCHANGED <<now, flushedAt, freedAt, cached, cachedAt, refresher, walk, asked>>,
         pc' \in [Requests -> Layers],
         \A x \in Requests : pc[x] \in Asking \/ pc'[x] \in Asking => pc'[x] = pc[x],
         \A e \in Requests : flushedAt[e] # None =>
           job'[e] = job[e] /\ who'[e] = who[e] /\ who[e].tier \in DOMAIN engines'
  PROVE  SizeInv'
<1>1. DateInv'
  BY DEF SizeInv, DateInv
<1>2. now <= now'
  BY DEF SizeInv, DateInv
<1> QED BY <1>1, <1>2, SizeKept

(* A verdict: the request leaves the check, and what was counted stands.   *)
LEMMA SizeKeptByVerdict ==
  ASSUME MountInv, SizeInv, NEW r \in Requests, NEW size, pc[r] \notin {"write", "done"},
         Verdict(r, size), UNCHANGED <<now, flushedAt, freedAt, who, engines, cached>>,
         \/ UNCHANGED <<cachedAt, refresher, walk>> /\ pc[r] \notin {"walk", "stamp"}
         \/ pc[r] = "stamp" /\ cachedAt' = asked[r]
  PROVE  SizeInv'
<1>1. /\ pc' \in [Requests -> Layers] /\ pc'[r] \notin Asking
      /\ \A x \in Requests : x # r => pc'[x] = pc[x]
      /\ asked' \in [Requests -> Nat \cup {None}] /\ asked'[r] = None
      /\ \A x \in Requests : x # r => asked'[x] = asked[x]
  BY DEF Verdict, Respond, Enter, SizeInv, AskInv, Asking
<1>2. DateInv'
  <2>1. flushedAt[r] = None
    BY DEF SizeInv, DateInv, MountInv
  <2>2. \A x \in Requests : x # r => job'[x] = job[x]
    BY DEF Verdict, MountInv
  <2> QED BY <2>1, <2>2 DEF SizeInv, DateInv
<1>3. CASE UNCHANGED <<cachedAt, refresher, walk>> /\ pc[r] \notin {"walk", "stamp"}
  <2>1. AskInv'
    BY <1>1, <1>3 DEF SizeInv, AskInv, Asking
  <2> QED BY <1>2, <2>1 DEF SizeInv
<1>4. CASE pc[r] = "stamp" /\ cachedAt' = asked[r]
  <2>1. /\ asked[r] \in Nat /\ asked[r] <= now
        /\ Counted(asked[r], {}, cached, flushedAt, freedAt, who)
        /\ \A x \in Requests : x # r => pc[x] \notin {"walk", "stamp"}
    BY <1>4 DEF SizeInv, AskInv, Asking
  <2>2. \A x \in Requests : pc'[x] \notin {"walk", "stamp"}
    BY <1>1, <2>1 DEF Asking
  <2>3. Counted(cachedAt', {}, cached', flushedAt', freedAt', who')
    BY <1>4, <2>1
  <2>4. AskInv'
    BY <1>1, <1>4, <2>1, <2>2, <2>3 DEF SizeInv, AskInv, Asking
  <2> QED BY <1>2, <2>4 DEF SizeInv
<1> QED BY <1>3, <1>4

(* Every step keeps SizeInv.                                               *)
LEMMA SizeStep == MountInv /\ SizeInv /\ [Next]_vars => SizeInv'
<1> SUFFICES ASSUME MountInv, SizeInv, [Next]_vars PROVE SizeInv'
  OBVIOUS
<1> USE DEF keyVars, requestVars, limitVars, sizeVars, storeVars, clockVars
<1>0. /\ pc \in [Requests -> Layers] /\ asked \in [Requests -> Nat \cup {None}]
      /\ now \in Nat /\ cachedAt \in Nat /\ cachedAt <= now
      /\ flushedAt \in Dates /\ freedAt \in Dates
      /\ \A e \in Requests : flushedAt[e] # None =>
           job[e] = "end" /\ who[e].tier \in DOMAIN engines /\ pc[e] \in {"write", "done"}
  BY DEF SizeInv, DateInv, AskInv, MountInv
<1>1. ASSUME NEW r \in Requests, NEW layer \in Layers \ Asking, pc[r] \notin Asking,
             pc' = [pc EXCEPT ![r] = layer], UNCHANGED <<who, job, engines>>,
             UNCHANGED <<now, flushedAt, freedAt, cached, cachedAt, refresher, walk, asked>>
      PROVE  SizeInv'
  <2>1. /\ pc' \in [Requests -> Layers]
        /\ \A x \in Requests : pc[x] \in Asking \/ pc'[x] \in Asking => pc'[x] = pc[x]
    BY <1>0, <1>1
  <2> QED BY <1>0, <1>1, <2>1, SizeKeptByMove
<1>2. ASSUME NEW r \in Requests, Arrive(r) \/ Permit(r) \/ RateLimit(r) \/ Timeout(r) \/ Finish(r)
      PROVE  SizeInv'
  <2>1. PICK layer \in {"queued", "auth", "body", "done"} : pc' = [pc EXCEPT ![r] = layer]
    BY <1>2 DEF Arrive, Permit, RateLimit, Timeout, Finish, Enter, Respond
  <2>2. pc[r] \notin Asking
    BY <1>2 DEF Arrive, Permit, RateLimit, Timeout, Finish, Asking
  <2>3. /\ UNCHANGED <<who, job, engines>>
        /\ UNCHANGED <<now, flushedAt, freedAt, cached, cachedAt, refresher, walk, asked>>
    BY <1>2 DEF Arrive, Permit, RateLimit, Timeout, Finish
  <2>4. layer \in Layers \ Asking
    BY DEF Asking
  <2> QED BY <1>1, <2>1, <2>2, <2>3, <2>4
<1>3. ASSUME NEW r \in Requests, Authenticate(r) PROVE SizeInv'
  <2>1. /\ pc[r] = "auth"
        /\ UNCHANGED <<job, engines>>
        /\ UNCHANGED <<now, flushedAt, freedAt, cached, cachedAt, refresher, walk, asked>>
    BY <1>3 DEF Authenticate
  <2>2. PICK layer \in {"done", "body", "rate"} : pc' = [pc EXCEPT ![r] = layer]
    BY <1>3 DEF Authenticate, Respond, Enter
  <2>3. \A x \in Requests : x # r => who'[x] = who[x]
    BY <1>3 DEF Authenticate, MountInv
  <2>4. /\ pc' \in [Requests -> Layers]
        /\ \A x \in Requests : pc[x] \in Asking \/ pc'[x] \in Asking => pc'[x] = pc[x]
    BY <1>0, <2>1, <2>2 DEF Asking
  <2>5. \A e \in Requests : flushedAt[e] # None =>
          job'[e] = job[e] /\ who'[e] = who[e] /\ who[e].tier \in DOMAIN engines'
    BY <1>0, <2>1, <2>3
  <2> QED BY <2>1, <2>4, <2>5, SizeKeptByMove
<1>4. ASSUME NEW r \in Requests, CheckSize(r) PROVE SizeInv'
  <2>1. CASE Verdict(r, cached)
    BY <1>4, <2>1, SizeKeptByVerdict DEF CheckSize
  <2>2. CASE asked' = [asked EXCEPT ![r] = now] /\ Enter(r, "stale") /\ UNCHANGED job
    <3>1. UNCHANGED <<now, flushedAt, freedAt, who, job, engines, cached, cachedAt, refresher, walk>>
      BY <1>4, <2>2 DEF CheckSize
    <3>2. /\ pc' \in [Requests -> Layers] /\ pc'[r] = "stale"
          /\ \A x \in Requests : x # r => pc'[x] = pc[x]
          /\ asked' \in [Requests -> Nat \cup {None}] /\ asked'[r] = now
          /\ \A x \in Requests : x # r => asked'[x] = asked[x]
      BY <1>0, <2>2 DEF Enter
    <3>3. DateInv'
      BY <3>1 DEF SizeInv, DateInv
    <3>4. AskInv'
      BY <1>0, <3>1, <3>2 DEF SizeInv, AskInv, Asking
    <3> QED BY <3>3, <3>4 DEF SizeInv
  <2> QED BY <1>4, <2>1, <2>2 DEF CheckSize
<1>5. ASSUME NEW r \in Requests, TryRefresh(r) PROVE SizeInv'
  <2>1. CASE Verdict(r, cached) /\ UNCHANGED <<refresher, walk>>
    BY <1>5, <2>1, SizeKeptByVerdict DEF TryRefresh
  <2>2. CASE /\ refresher = None /\ ~Fresh(asked[r])
             /\ refresher' = r
             /\ walk' = [left |-> DOMAIN engines, total |-> 0]
             /\ Enter(r, "walk")
             /\ UNCHANGED <<asked, job>>
    <3>1. /\ pc[r] = "stale"
          /\ UNCHANGED <<now, flushedAt, freedAt, who, job, engines, cached, cachedAt, asked>>
      BY <1>5, <2>2 DEF TryRefresh
    <3>2. /\ pc' \in [Requests -> Layers] /\ pc'[r] = "walk"
          /\ \A x \in Requests : x # r => pc'[x] = pc[x]
      BY <1>0, <2>2 DEF Enter
    <3>3. \A x \in Requests : x # r => pc'[x] \notin {"walk", "stamp"}
      BY <2>2, <3>2, GatewayAssumption DEF SizeInv, AskInv
    <3>4. asked[r] \in Nat /\ asked[r] <= now
      BY <3>1 DEF SizeInv, AskInv, Asking
    <3>5. cachedAt <= asked[r]
      BY <1>0, <2>2, <3>4, GatewayAssumption DEF Fresh
    <3>6. Counted(asked[r], walk'.left, walk'.total, flushedAt, freedAt, who)
      <4>1. walk'.left = DOMAIN engines /\ walk'.total = 0
        BY <2>2
      <4>2. Counted(asked[r], DOMAIN engines, 0, flushedAt, freedAt, who)
        BY <1>0, CountedNothing
      <4> QED BY <4>1, <4>2
    <3>7. DateInv'
      BY <3>1 DEF SizeInv, DateInv
    <3>8. AskInv'
      BY <1>0, <2>2, <3>1, <3>2, <3>3, <3>4, <3>5, <3>6 DEF SizeInv, AskInv, Asking
    <3> QED BY <3>7, <3>8 DEF SizeInv
  <2> QED BY <1>5, <2>1, <2>2 DEF TryRefresh
<1>6. ASSUME NEW r \in Requests, NEW t \in walk.left, WalkEngine(r, t) PROVE SizeInv'
  <2>1. /\ pc[r] = "walk"
        /\ walk' = [left |-> walk.left \ {t}, total |-> walk.total + SizeOf(t)]
        /\ UNCHANGED <<now, flushedAt, freedAt, who, job, engines, cached, cachedAt, refresher,
                       asked, pc>>
    BY <1>6 DEF WalkEngine
  <2>2. \A x \in Requests : x # r => pc[x] \notin {"walk", "stamp"}
    BY <2>1 DEF SizeInv, AskInv
  <2>3. Counted(asked[r], walk'.left, walk'.total, flushedAt, freedAt, who)
    <3>1. {e \in InSegments : who[e].tier = t} =
            {e \in Requests : flushedAt[e] # None /\ freedAt[e] = None /\ who[e].tier = t}
      BY DEF InSegments
    <3>2. Counted(asked[r], walk.left, walk.total, flushedAt, freedAt, who)
      BY <2>1 DEF SizeInv, AskInv
    <3>3. Counted(asked[r], walk.left \ {t}, walk.total + SizeOf(t), flushedAt, freedAt, who)
      BY <3>1, <3>2, CountedMore DEF SizeOf
    <3>4. walk'.left = walk.left \ {t} /\ walk'.total = walk.total + SizeOf(t)
      BY <2>1
    <3> QED BY <3>3, <3>4
  <2>4. DateInv'
    BY <2>1 DEF SizeInv, DateInv
  <2>5. AskInv'
    BY <2>1, <2>2, <2>3 DEF SizeInv, AskInv
  <2> QED BY <2>4, <2>5 DEF SizeInv
<1>7. ASSUME NEW r \in Requests, StoreSize(r) PROVE SizeInv'
  <2>1. /\ pc[r] = "walk" /\ walk.left = {} /\ cached' = walk.total
        /\ pc' = [pc EXCEPT ![r] = "stamp"]
        /\ UNCHANGED <<now, flushedAt, freedAt, who, job, engines, cachedAt, refresher, walk, asked>>
    BY <1>7 DEF StoreSize, Enter
  <2>2. /\ asked[r] \in Nat /\ cachedAt <= asked[r]
        /\ Counted(asked[r], {}, walk.total, flushedAt, freedAt, who)
        /\ \A x \in Requests : x # r => pc[x] \notin {"walk", "stamp"}
    BY <2>1 DEF SizeInv, AskInv, Asking
  <2>3. Counted(cachedAt, {}, walk.total, flushedAt, freedAt, who)
    BY <1>0, <2>2, CountedOlder
  <2>4. /\ pc' \in [Requests -> Layers] /\ pc'[r] = "stamp"
        /\ \A x \in Requests : x # r => pc'[x] = pc[x]
    BY <1>0, <2>1
  <2>5. DateInv'
    BY <2>1 DEF SizeInv, DateInv
  <2>6. AskInv'
    BY <2>1, <2>2, <2>3, <2>4 DEF SizeInv, AskInv, Asking
  <2> QED BY <2>5, <2>6 DEF SizeInv
<1>8. ASSUME NEW r \in Requests, StoreStamp(r) PROVE SizeInv'
  BY <1>8, SizeKeptByVerdict DEF StoreStamp, Stamp
<1>9. ASSUME NEW r \in Requests, JobStep(r) PROVE SizeInv'
  <2>1. /\ \A x \in Requests : job[x] = "end" => job'[x] = "end"
        /\ UNCHANGED <<now, flushedAt, freedAt, who, cached, cachedAt, refresher, walk, asked, pc>>
    BY <1>9 DEF JobStep, FastPath, TakeLock, OpenEngine, PublishEngine, UseEngine, JobFails, MountInv
  <2>2. DOMAIN engines \subseteq DOMAIN engines'
    BY <1>9 DEF JobStep, FastPath, TakeLock, OpenEngine, PublishEngine, UseEngine, JobFails
  <2>3. \A e \in Requests : flushedAt[e] # None =>
          job'[e] = job[e] /\ who'[e] = who[e] /\ who[e].tier \in DOMAIN engines'
    BY <1>0, <2>1, <2>2
  <2> QED BY <1>0, <2>1, <2>3, SizeKeptByMove
<1>10. ASSUME NEW t \in DOMAIN engines, Rotate(t) \/ Collect(t) PROVE SizeInv'
  <2>1. UNCHANGED <<now, who, job, engines, cached, cachedAt, refresher, walk, asked, pc>>
    BY <1>10 DEF Rotate, Collect
  <2>2. CASE Rotate(t)
    <3>1. PICK S \in SUBSET {r \in Requests : /\ job[r] = "end" /\ flushedAt[r] = None
                                              /\ who[r].tier = t} :
            flushedAt' = [r \in Requests |-> IF r \in S THEN now ELSE flushedAt[r]]
      BY <2>2 DEF Rotate, Dated
    <3>2. UNCHANGED freedAt
      BY <2>2 DEF Rotate
    <3>3. DateInv'
      BY <1>0, <2>1, <3>1, <3>2 DEF DateInv, Dates
    <3>4. \A e \in Requests : \/ flushedAt'[e] = flushedAt[e]
                              \/ flushedAt[e] = None /\ flushedAt'[e] = now
      BY <3>1
    <3> QED BY <1>0, <2>1, <3>2, <3>3, <3>4, SizeKept
  <2>3. CASE Collect(t)
    <3>1. PICK S \in SUBSET {r \in InSegments : who[r].tier = t} :
            freedAt' = [r \in Requests |-> IF r \in S THEN now ELSE freedAt[r]]
      BY <2>3 DEF Collect, Dated
    <3>2. UNCHANGED flushedAt
      BY <2>3 DEF Collect
    <3>3. DateInv'
      BY <1>0, <2>1, <3>1, <3>2 DEF DateInv, Dates
    <3>4. \A e \in Requests : \/ freedAt'[e] = freedAt[e]
                              \/ freedAt[e] = None /\ freedAt'[e] = now
      BY <3>1 DEF InSegments
    <3> QED BY <1>0, <2>1, <3>2, <3>3, <3>4, SizeKept
  <2> QED BY <1>10, <2>2, <2>3
<1>11. ASSUME NEW c \in Configs, Reload(c) PROVE SizeInv'
  BY <1>0, <1>11, SizeKeptByMove DEF Reload
<1>12. ASSUME Tick PROVE SizeInv'
  <2>1. /\ now' = now + 1
        /\ UNCHANGED <<flushedAt, freedAt, who, job, engines, cached, cachedAt, refresher, walk,
                       asked, pc>>
    BY <1>12 DEF Tick
  <2>2. DateInv' /\ now <= now'
    BY <1>0, <2>1 DEF SizeInv, DateInv
  <2> QED BY <1>0, <2>1, <2>2, SizeKept
<1>13. CASE UNCHANGED vars
  BY <1>0, <1>13, SizeKeptByMove DEF vars
<1> QED
  BY <1>2, <1>3, <1>4, <1>5, <1>6, <1>7, <1>8, <1>9, <1>10, <1>11, <1>12, <1>13
  DEF Next, RequestStep

(* A verdict made from a count for the stamp is justified.                 *)
LEMMA VerdictJustified ==
  ASSUME NEW r \in Requests, pc \in [Requests -> Layers], NEW size, Verdict(r, size),
         Counted(cachedAt', {}, size, flushedAt, freedAt, who),
         refresher' # None \/ AskedAt(r) - cachedAt' < SizeInterval
  PROVE  Justified(r)
<1> DEFINE stamp == cachedAt'
<1>1. /\ size \in Nat
      /\ Cardinality(Lasting(stamp)) \in Nat /\ Cardinality(Lasting(stamp)) <= size
      /\ Cardinality(Recent(stamp)) \in Nat /\ size <= Cardinality(Recent(stamp))
  BY CountedBounds
<1> SUFFICES ASSUME MaxDb # 0
             PROVE  /\ pc'[r] = "done" /\ answer'[r] = 507 => Cardinality(Recent(stamp)) >= MaxDb
                    /\ pc'[r] = "write" => Cardinality(Lasting(stamp)) < MaxDb
  BY DEF Justified
<1> HIDE DEF stamp
<1>2. MaxDb \in Nat
  BY GatewayAssumption
<1>3. CASE size >= MaxDb
  <2>1. pc'[r] = "done"
    BY <1>3 DEF Verdict, Respond
  <2> QED BY <1>1, <1>2, <1>3, <2>1
<1>4. CASE ~(size >= MaxDb)
  <2>1. pc'[r] = "write" /\ UNCHANGED answer
    BY <1>4 DEF Verdict, Enter
  <2> QED BY <1>1, <1>2, <1>4, <2>1
<1> QED BY <1>3, <1>4

(* Every step justifies its verdicts.                                      *)
LEMMA StepJustified ==
  ASSUME SeenInv, SizeInv, Next, NEW r \in Requests
  PROVE  Justified(r)
<1> USE DEF keyVars, requestVars, limitVars, sizeVars, storeVars, clockVars
<1>0. /\ pc \in [Requests -> Layers]
      /\ now \in Nat /\ cachedAt \in Nat /\ SizeInterval \in Nat /\ SizeInterval > 0
      /\ \A x \in Requests : x # None
      /\ Counted(cachedAt, {}, cached, flushedAt, freedAt, who)
  BY GatewayAssumption DEF SizeInv, DateInv, AskInv
<1>1. ASSUME pc'[r] = pc[r] \/ pc'[r] \notin {"done", "write"} PROVE Justified(r)
  BY <1>1 DEF Justified
<1>2. ASSUME NEW x \in Requests, x # r, Arrive(x) \/ RequestStep(x) PROVE pc'[r] = pc[r]
  <2> DEFINE Moves == \E layer : pc' = [pc EXCEPT ![x] = layer]
  <2>1. \A layer, status : Enter(x, layer) \/ Respond(x, status) => Moves
    BY DEF Enter, Respond
  <2>2. \A size : Verdict(x, size) => Moves
    BY <2>1 DEF Verdict
  <2>3. Permit(x) => Moves
    BY DEF Permit
  <2>4. Moves => pc'[r] = pc[r]
    BY <1>0, <1>2
  <2> HIDE DEF Moves
  <2>5. ASSUME CheckSize(x) \/ TryRefresh(x) \/ StoreStamp(x) PROVE Moves
    BY <2>1, <2>2, <2>5 DEF CheckSize, TryRefresh, StoreStamp
  <2>6. ASSUME Arrive(x) \/ Authenticate(x) \/ RateLimit(x) \/ Timeout(x) \/ StoreSize(x) \/ Finish(x)
        PROVE  Moves
    BY <2>1, <2>6, Zenon DEF Arrive, Authenticate, RateLimit, Timeout, StoreSize, Finish
  <2>7. ASSUME \E t \in walk.left : WalkEngine(x, t) PROVE pc'[r] = pc[r]
    BY <2>7 DEF WalkEngine
  <2> QED BY <1>2, <2>3, <2>4, <2>5, <2>6, <2>7 DEF RequestStep
<1>3. ASSUME pc[r] \notin {"body", "stale", "stamp"} PROVE Justified(r)
  BY <1>3 DEF Justified
<1>4. CASE CheckSize(r)
  <2>1. pc[r] = "body" /\ UNCHANGED <<refresher, cachedAt>>
    BY <1>4 DEF CheckSize
  <2>2. CASE Enter(r, "stale")
    BY <1>0, <1>1, <2>2 DEF Enter
  <2>3. CASE (MaxDb = 0 \/ Fresh(now)) /\ Verdict(r, cached)
    <3>1. CASE MaxDb = 0
      BY <3>1 DEF Justified
    <3>2. CASE Fresh(now)
      <4>1. asked[r] = None
        BY <2>1 DEF SizeInv, AskInv, Asking
      <4>2. AskedAt(r) - cachedAt' < SizeInterval
        BY <2>1, <3>2, <4>1 DEF AskedAt, Fresh
      <4> QED BY <1>0, <2>1, <2>3, <4>2, VerdictJustified
    <3> QED BY <2>3, <3>1, <3>2
  <2> QED BY <1>4, <2>2, <2>3 DEF CheckSize
<1>5. CASE TryRefresh(r)
  <2>1. pc[r] = "stale" /\ UNCHANGED cachedAt
    BY <1>5 DEF TryRefresh
  <2>2. CASE Enter(r, "walk")
    BY <1>0, <1>1, <2>2 DEF Enter
  <2>3. CASE /\ refresher # None \/ Fresh(asked[r])
             /\ Verdict(r, cached) /\ UNCHANGED refresher
    <3>1. asked[r] \in Nat /\ asked[r] # None
      BY <2>1, GatewayAssumption DEF SizeInv, AskInv, Asking
    <3>2. refresher' # None \/ AskedAt(r) - cachedAt' < SizeInterval
      BY <2>1, <2>3, <3>1 DEF AskedAt, Fresh
    <3> QED BY <1>0, <2>1, <2>3, <3>2, VerdictJustified
  <2> QED BY <1>5, <2>2, <2>3 DEF TryRefresh
<1>6. CASE StoreStamp(r)
  <2>1. pc[r] = "stamp" /\ cachedAt' = asked[r] /\ Verdict(r, walk.total)
    BY <1>6 DEF StoreStamp, Stamp
  <2>2. /\ asked[r] \in Nat /\ asked[r] # None
        /\ Counted(asked[r], {}, walk.total, flushedAt, freedAt, who)
    BY <2>1, GatewayAssumption DEF SizeInv, AskInv, Asking
  <2>3. AskedAt(r) - cachedAt' < SizeInterval
    BY <1>0, <2>1, <2>2 DEF AskedAt
  <2> QED BY <1>0, <2>1, <2>2, <2>3, VerdictJustified
<1>7. CASE Timeout(r)
  <2>1. pc'[r] = "done" /\ answer'[r] = 408
    BY <1>0, <1>7 DEF Timeout, Respond, SeenInv
  <2> QED BY <2>1 DEF Justified
<1>8. CASE Arrive(r) \/ Permit(r) \/ Authenticate(r) \/ RateLimit(r) \/ Finish(r) \/ StoreSize(r)
           \/ (\E t \in walk.left : WalkEngine(r, t))
  <2>1. pc[r] \notin {"body", "stale", "stamp"}
    BY <1>8 DEF Arrive, Permit, Authenticate, RateLimit, Finish, StoreSize, WalkEngine
  <2> QED BY <1>3, <2>1
<1>9. ASSUME NEW x \in Requests, JobStep(x) PROVE UNCHANGED pc
  BY <1>9 DEF JobStep, FastPath, TakeLock, OpenEngine, PublishEngine, UseEngine, JobFails
<1>10. ASSUME NEW t, Rotate(t) \/ Collect(t) PROVE UNCHANGED pc
  BY <1>10 DEF Rotate, Collect
<1>11. ASSUME NEW c \in Configs, Reload(c) PROVE UNCHANGED pc
  BY <1>11 DEF Reload
<1>12. ASSUME Tick PROVE UNCHANGED pc
  BY <1>12 DEF Tick
<1> QED
  BY <1>1, <1>2, <1>4, <1>5, <1>6, <1>7, <1>8, <1>9, <1>10, <1>11, <1>12 DEF Next, RequestStep

(* Every verdict of check_db_size is justified by the segments since the   *)
(* stamp of the size it used, for any number of requests, tiers, flushes   *)
(* and collections beside the walk, and for every limit and interval       *)
(* (db_size_bytes, compute_db_size).                                       *)
THEOREM SizeIsHonest == Spec => SizeHonest
<1>1. SeenInv /\ SizeInv /\ [Next]_vars => [\A r \in Requests : Justified(r)]_vars
  BY StepJustified
<1> QED
  BY SeenInit, SeenStep, MountInit, MountStep, SizeInit, SizeStep, <1>1, PTL DEF Spec, SizeHonest

====
