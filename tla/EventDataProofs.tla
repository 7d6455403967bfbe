-------------------------- MODULE EventDataProofs --------------------------
(***************************************************************************)
(* What EventData promises for any payloads, callers, tiers and windows.   *)
(***************************************************************************)
EXTENDS EventData, PricingProofs, SequenceTheorems

-----------------------------------------------------------------------------
(* Optional values *)

(* A set of at most one element.                                           *)
Optional(o) == \A v, w \in o : v = w

(* An optional value is absent or one value.                               *)
LEMMA OptionalCases ==
  ASSUME NEW o, Optional(o)
  PROVE  o = {} \/ \E v : o = {v}
BY DEF Optional

(* A field of a sparse record is optional.                                 *)
LEMMA FieldOptional ==
  ASSUME NEW r, NEW f
  PROVE  Optional(Field(r, f))
BY DEF Optional, Field

(* Unwrapping a value that is there.                                       *)
LEMMA UnwrapOne ==
  ASSUME NEW v, NEW default
  PROVE  Unwrap({v}, default) = v /\ Unwrap({}, default) = default
BY DEF Unwrap

(* A text in a dimension reads back as it was, an empty one as none.       *)
LEMMA TextReadsBack ==
  ASSUME NEW o, Optional(o)
  PROVE  NonEmpty(Unwrap(o, "")) = o \ {""}
<1>1. CASE o = {}
  BY <1>1, UnwrapOne DEF NonEmpty
<1>2. CASE \E v : o = {v}
  BY <1>2, UnwrapOne DEF NonEmpty
<1> QED BY <1>1, <1>2, OptionalCases

(* A number under a flag reads back as it was.                             *)
LEMMA NumberReadsBack ==
  ASSUME NEW o, Optional(o)
  PROVE  When(o # {}, {Unwrap(o, 0)}) = o
<1>1. CASE o = {}
  BY <1>1, UnwrapOne DEF When
<1>2. CASE \E v : o = {v}
  BY <1>2, UnwrapOne DEF When
<1> QED BY <1>1, <1>2, OptionalCases

-----------------------------------------------------------------------------
(* Events *)

EventFields ==
  {"id", "ts", "attrs", "route_id", "provider", "model", "model_family", "endpoint",
   "method", "http_status", "usage", "cost", "ttft", "total", "close", "flags", "error",
   "client_ip", "trace_id", "metadata", "ingested_at", "tier"}

(* The events the server builds.                                           *)
WellFormed(e) ==
  /\ e = [f \in EventFields |-> e[f]]
  /\ e.ts \in Int
  /\ e.attrs = [a \in Attributes |-> e.attrs[a]]
  /\ \A a \in Attributes : Optional(e.attrs[a])
  /\ e.provider = read_provider(e.provider.kind, e.provider.url)
  /\ e.model_family = {}
  /\ e.method.ok
  /\ Optional(e.http_status) /\ e.http_status \subseteq Nat
  /\ e.usage = [f \in UsageFields |-> e.usage[f]]
  /\ Optional(e.ttft) /\ Optional(e.close)
  /\ e.flags \subseteq IngestFlags
  /\ Optional(e.error) /\ \A x \in e.error : decode_error(encode_error(x)) = x
  /\ \A v \in e.client_ip : v.ok
  /\ \A v \in e.trace_id : v.ok

(* What normalize_provider makes of a text is read back from its id_key    *)
(* and its URL.                                                            *)
LEMMA ProviderReadsBack ==
  ASSUME NEW raw
  PROVE  LET p == normalize_provider(raw) IN p = read_provider(p.kind, p.url)
<1>1. CASE raw.key \in KnownProviders
  BY <1>1 DEF normalize_provider, read_provider, from_id_key, KnownProviders
<1>2. CASE raw.key = "opencode-zen"
  BY <1>2 DEF normalize_provider, read_provider, from_id_key, KnownProviders
<1>3. CASE raw.key \notin KnownProviders /\ raw.key # "opencode-zen"
  BY <1>3 DEF normalize_provider, read_provider
<1> QED BY <1>1, <1>2, <1>3

(* The error of a request body survives its encoding.                      *)
LEMMA ErrorReadsBack ==
  ASSUME NEW e
  PROVE  LET x == error_from_ingest(e) IN decode_error(encode_error(x)) = x
<1> DEFINE x == error_from_ingest(e)
<1>1. x.kind \in ErrorKinds
  BY DEF error_from_ingest, ErrorKinds
<1>2. /\ DOMAIN x = {"kind", "message", "status", "limit", "retry_after"}
      /\ x.retry_after = {}
      /\ \E m : x.message = When(x.kind \in WithMessage, {m})
      /\ \E s : x.status = When(x.kind = "other", {s})
      /\ x.limit = When(x.kind = "context_length_exceeded", {0})
  BY DEF error_from_ingest
<1>3. PICK m, s : /\ x.message = When(x.kind \in WithMessage, {m})
                  /\ x.status = When(x.kind = "other", {s})
  BY <1>2
<1>4. x = [kind |-> x.kind, message |-> x.message, status |-> x.status, limit |-> x.limit,
           retry_after |-> x.retry_after]
  BY DEF error_from_ingest
<1> HIDE DEF x
<1>5. When(x.kind \in WithMessage, {Unwrap(x.message, "")}) = x.message
  BY <1>3, UnwrapOne DEF When
<1>6. When(x.kind = "other", {Unwrap(x.status, 0)}) = x.status
  BY <1>3, UnwrapOne DEF When
<1>7. When(x.kind = "context_length_exceeded", {Unwrap(x.limit, 0)}) = x.limit
  BY <1>2, UnwrapOne DEF When
<1>8. When(x.kind = "rate_limited", x.retry_after) = x.retry_after
  BY <1>2 DEF When
<1>9. decode_error(encode_error(x)) =
        [kind |-> x.kind, message |-> x.message, status |-> x.status, limit |-> x.limit,
         retry_after |-> x.retry_after]
  BY <1>5, <1>6, <1>7, <1>8 DEF decode_error, encode_error
<1> QED BY <1>4, <1>9 DEF x

(* Whatever is accepted becomes such an event.                             *)
LEMMA BuiltWellFormed ==
  ASSUME NEW p \in Payloads, NEW c \in Callers, NEW id
  PROVE  WellFormed(process_event(p, c, id))
<1> DEFINE e == process_event(p, c, id)
<1>1. e = [f \in EventFields |-> e[f]]
  BY DEF process_event, EventFields
<1>2. e.ts \in Int
  <2>1. \A ts \in Field(p, "timestamp") : ts.at \in Int
    BY EventDataAssumption
  <2> QED BY <2>1, EventDataAssumption DEF process_event, Unwrap
<1>3. /\ e.attrs = [a \in Attributes |-> e.attrs[a]]
      /\ \A a \in Attributes : Optional(e.attrs[a])
  <2>1. e.attrs = [a \in Attributes |->
                    IF a = "api_key_id" THEN OrElse(c.id, Field(p, a)) ELSE Field(p, a)]
    BY DEF process_event
  <2>2. \A a \in Attributes : Optional(OrElse(c.id, Field(p, a)))
    BY FieldOptional, EventDataAssumption DEF OrElse, Optional
  <2> HIDE DEF e
  <2> QED BY <2>1, <2>2, FieldOptional
<1>4. e.provider = read_provider(e.provider.kind, e.provider.url)
  <2>1. e.provider = normalize_provider(p.provider)
    BY DEF process_event
  <2> HIDE DEF e
  <2> QED BY <2>1, ProviderReadsBack
<1>5. e.model_family = {} /\ e.usage = [f \in UsageFields |-> e.usage[f]]
  BY DEF process_event, usage_from_ingest
<1>6. e.method.ok
  <2>1. e.method = Unwrap(Parsed(Field(p, "method")), [ok |-> TRUE, verb |-> "POST"])
    BY DEF process_event
  <2>2. CASE Parsed(Field(p, "method")) = {}
    BY <2>1, <2>2 DEF Unwrap
  <2>3. CASE Parsed(Field(p, "method")) # {}
    BY <2>1, <2>3 DEF Unwrap, Parsed
  <2> QED BY <2>2, <2>3
<1>7. Optional(e.http_status) /\ e.http_status \subseteq Nat
  BY FieldOptional, EventDataAssumption DEF process_event
<1>8. Optional(e.ttft) /\ Optional(e.close) /\ e.flags \subseteq IngestFlags
  BY FieldOptional DEF process_event
<1>9. Optional(e.error) /\ \A x \in e.error : decode_error(encode_error(x)) = x
  <2>1. e.error = {error_from_ingest(x) : x \in Field(p, "error")}
    BY DEF process_event
  <2> HIDE DEF e
  <2>2. Optional(e.error)
    BY <2>1, FieldOptional DEF Optional
  <2>3. \A x \in Field(p, "error") :
          decode_error(encode_error(error_from_ingest(x))) = error_from_ingest(x)
    BY ErrorReadsBack
  <2> QED BY <2>1, <2>2, <2>3
<1>10. (\A v \in e.client_ip : v.ok) /\ (\A v \in e.trace_id : v.ok)
  BY DEF process_event, Parsed
<1> QED BY <1>1, <1>2, <1>3, <1>4, <1>5, <1>6, <1>7, <1>8, <1>9, <1>10 DEF WellFormed

-----------------------------------------------------------------------------
(* Rows *)

(* The dims, labels and counters of a row.                                 *)
LEMMA RowOf ==
  ASSUME NEW e, WellFormed(e)
  PROVE  LET r == to_log_event(e) IN
         /\ r.id = e.id /\ r.ts = e.ts /\ r.metric = e.cost
         /\ \A f \in UsageFields : r.counters[f] = e.usage[f]
         /\ r.counters["close_ms"] = Unwrap(e.close, 0)
         /\ r.latency_ms = e.total
         /\ r.latency_detail_ms = Unwrap(e.ttft, 0)
         /\ r.status = Unwrap(e.http_status, 0)
         /\ r.flags = pack_flags(e)
         /\ \A a \in Attributes \cap Dims : r.dims[a] = Unwrap(e.attrs[a], "")
         /\ r.dims["model"] = e.model /\ r.dims["provider"] = e.provider.kind
         /\ r.dims["route_id"] = e.route_id /\ r.dims["endpoint"] = e.endpoint
         /\ r.dims["model_family"] = "" /\ r.dims["tier"] = e.tier
         /\ r.labels["error_json"] = {encode_error(x) : x \in e.error}
         /\ \A a \in Attributes \cap Labels : r.labels[a] = e.attrs[a] \ {""}
         /\ r.labels["trace_id"] = e.trace_id /\ r.labels["client_ip"] = e.client_ip
         /\ r.labels["metadata_json"] = e.metadata /\ r.labels["method"] = {e.method}
         /\ r.labels["provider_variant"] = e.provider.url
<1> DEFINE r == to_log_event(e)
<1>1. /\ r.id = e.id /\ r.ts = e.ts /\ r.metric = e.cost
      /\ r.latency_ms = e.total
      /\ r.latency_detail_ms = Unwrap(e.ttft, 0)
      /\ r.status = Unwrap(e.http_status, 0)
      /\ r.flags = pack_flags(e)
  BY DEF to_log_event
<1>2. /\ \A f \in UsageFields : r.counters[f] = e.usage[f]
      /\ r.counters["close_ms"] = Unwrap(e.close, 0)
  BY DEF to_log_event, Counters, UsageFields
<1>3. /\ \A d \in Dims : r.dims[d] = DimOf(e, d)
      /\ \A l \in Labels : r.labels[l] = LabelOf(e, l)
  BY DEF to_log_event
<1>4. \A a \in Attributes : DimOf(e, a) = Unwrap(e.attrs[a], "")
  <2> SUFFICES ASSUME NEW a \in Attributes PROVE DimOf(e, a) = Unwrap(e.attrs[a], "")
    OBVIOUS
  <2>1. a \notin {"model", "provider", "route_id", "model_family", "endpoint", "tier", "error_type"}
    BY DEF Attributes
  <2> QED BY <2>1 DEF DimOf
<1>5. /\ DimOf(e, "model") = e.model /\ DimOf(e, "provider") = e.provider.kind
      /\ DimOf(e, "route_id") = e.route_id /\ DimOf(e, "endpoint") = e.endpoint
      /\ DimOf(e, "tier") = e.tier
  BY DEF DimOf, ProviderDim, Attributes
<1>6. DimOf(e, "model_family") = ""
  BY UnwrapOne DEF DimOf, Attributes, WellFormed
<1>7. LabelOf(e, "error_json") = {encode_error(x) : x \in e.error}
  <2>1. "error_json" \notin Attributes
    BY DEF Attributes
  <2> QED BY <2>1, Zenon DEF LabelOf
<1>8. \A a \in Attributes : LabelOf(e, a) = e.attrs[a] \ {""}
  <2> SUFFICES ASSUME NEW a \in Attributes PROVE LabelOf(e, a) = e.attrs[a] \ {""}
    OBVIOUS
  <2>1. a \notin {"error_json", "trace_id", "client_ip", "metadata_json", "method"}
    BY DEF Attributes
  <2> QED BY <2>1, Zenon DEF LabelOf
<1>9. /\ LabelOf(e, "trace_id") = e.trace_id /\ LabelOf(e, "client_ip") = e.client_ip
      /\ LabelOf(e, "metadata_json") = e.metadata /\ LabelOf(e, "method") = {e.method}
      /\ LabelOf(e, "provider_variant") = e.provider.url
  <2>1. {"trace_id", "client_ip", "metadata_json", "method", "provider_variant"} \cap Attributes
          = {}
    BY DEF Attributes
  <2> QED BY <2>1, Zenon DEF LabelOf
<1> HIDE DEF r
<1> QED BY <1>1, <1>2, <1>3, <1>4, <1>5, <1>6, <1>7, <1>8, <1>9 DEF Dims, Labels, r

(* A row decodes, and to what it was made from but for what Kept drops.    *)
LEMMA RowReadsBack ==
  ASSUME NEW e, WellFormed(e)
  PROVE  /\ Decodes(to_log_event(e))
         /\ from_event_ref(to_log_event(e)) = Kept(e)
<1> DEFINE r == to_log_event(e)
           back == from_event_ref(r)
<1>1. Decodes(r)
  <2>1. /\ r.labels["trace_id"] = e.trace_id /\ r.labels["client_ip"] = e.client_ip
        /\ r.labels["method"] = {e.method}
    BY RowOf
  <2>2. e.method.ok /\ (\A v \in e.client_ip : v.ok) /\ (\A v \in e.trace_id : v.ok)
    BY DEF WellFormed
  <2> HIDE DEF r
  <2> QED BY <2>1, <2>2 DEF Decodes
<1>2. \A f \in EventFields : back[f] = Kept(e)[f]
  <2> USE DEF EventFields
  <2> DEFINE kept == Kept(e)
  <2>1. /\ kept.attrs = [a \in Attributes |-> e.attrs[a] \ {""}]
        /\ kept.ingested_at = e.ts
        /\ \A f \in EventFields \ {"attrs", "ingested_at"} : kept[f] = e[f]
    BY DEF Kept, WellFormed
  <2> HIDE DEF kept, r
  <2>2. back.id = e.id /\ back.ts = e.ts /\ back.cost = e.cost /\ back.total = e.total
    BY RowOf DEF from_event_ref, r
  <2>3. /\ back.route_id = e.route_id /\ back.model = e.model /\ back.endpoint = e.endpoint
        /\ back.tier = e.tier /\ back.ingested_at = e.ts
        /\ back.client_ip = e.client_ip /\ back.trace_id = e.trace_id
        /\ back.metadata = e.metadata
    BY RowOf DEF from_event_ref, r
  <2>4. back.attrs = [a \in Attributes |-> e.attrs[a] \ {""}]
    <3>1. \A a \in Attributes \cap Dims : NonEmpty(r.dims[a]) = e.attrs[a] \ {""}
      <4>1. \A a \in Attributes \cap Dims : r.dims[a] = Unwrap(e.attrs[a], "")
        BY RowOf DEF r
      <4>2. \A a \in Attributes : Optional(e.attrs[a])
        BY DEF WellFormed
      <4> QED BY <4>1, <4>2, TextReadsBack
    <3>2. \A a \in Attributes : a \notin Dims => r.labels[a] = e.attrs[a] \ {""}
      <4>1. \A a \in Attributes \cap Labels : r.labels[a] = e.attrs[a] \ {""}
        BY RowOf DEF r
      <4>2. \A a \in Attributes : a \notin Dims => a \in Labels
        BY DEF Attributes, Dims, Labels
      <4> QED BY <4>1, <4>2
    <3> QED BY <3>1, <3>2 DEF from_event_ref
  <2>5. back.provider = e.provider
    BY RowOf DEF from_event_ref, r, WellFormed
  <2>6. back.model_family = e.model_family
    BY RowOf DEF from_event_ref, r, WellFormed, NonEmpty
  <2>7. back.method = e.method
    <3>1. r.labels["method"] = {e.method}
      BY RowOf DEF r
    <3>2. back.method = Unwrap(r.labels["method"], [ok |-> TRUE, verb |-> "POST"])
      BY DEF from_event_ref
    <3>3. Unwrap({e.method}, [ok |-> TRUE, verb |-> "POST"]) = e.method
      BY UnwrapOne
    <3> QED BY <3>1, <3>2, <3>3
  <2>8. /\ ("has_http_status" \in r.flags) = (e.http_status # {})
        /\ ("has_ttft" \in r.flags) = (e.ttft # {})
        /\ ("has_close_ms" \in r.flags) = (e.close # {})
        /\ ("has_error" \in r.flags) = (e.error # {})
        /\ unpack_event_flags(r.flags) = e.flags
    <3>1. r.flags = pack_flags(e)
      BY RowOf DEF r
    <3>2. e.flags \subseteq IngestFlags
      BY DEF WellFormed
    <3> QED BY <3>1, <3>2 DEF pack_flags, unpack_event_flags, When, IngestFlags
  <2>9. back.http_status = e.http_status /\ back.ttft = e.ttft /\ back.close = e.close
    <3>1. /\ Optional(e.http_status) /\ Optional(e.ttft) /\ Optional(e.close)
      BY DEF WellFormed
    <3>2. /\ r.status = Unwrap(e.http_status, 0)
          /\ r.latency_detail_ms = Unwrap(e.ttft, 0)
          /\ r.counters["close_ms"] = Unwrap(e.close, 0)
      BY RowOf DEF r
    <3> QED BY <3>1, <3>2, <2>8, NumberReadsBack DEF from_event_ref
  <2>10. back.usage = e.usage
    <3>1. \A f \in UsageFields : r.counters[f] = e.usage[f]
      BY RowOf DEF r
    <3> QED BY <3>1 DEF from_event_ref, WellFormed
  <2>11. back.flags = e.flags
    BY <2>8 DEF from_event_ref
  <2>12. back.error = e.error
    <3>1. /\ r.labels["error_json"] = {encode_error(x) : x \in e.error}
      BY RowOf DEF r
    <3>2. {decode_error(j) : j \in r.labels["error_json"]} = e.error
      BY <3>1 DEF WellFormed
    <3> QED BY <3>2, <2>8 DEF from_event_ref, When
  <2> HIDE DEF back
  <2>13. \A f \in EventFields : back[f] = kept[f]
    <3>1. back["attrs"] = kept["attrs"] /\ back["ingested_at"] = kept["ingested_at"]
      BY <2>1, <2>3, <2>4
    <3>2. \A f \in EventFields \ {"attrs", "ingested_at"} : back[f] = e[f]
      BY <2>2, <2>3, <2>5, <2>6, <2>7, <2>9, <2>10, <2>11, <2>12
    <3> HIDE DEF EventFields
    <3> QED BY <2>1, <3>1, <3>2
  <2> QED BY <2>13 DEF kept
<1>3. back = [f \in EventFields |-> back[f]] /\ Kept(e) = [f \in EventFields |-> Kept(e)[f]]
  BY DEF from_event_ref, Kept, WellFormed, EventFields
<1> QED BY <1>1, <1>2, <1>3

-----------------------------------------------------------------------------
(* The store *)

(* A row for every event built, made from it.                              *)
LogInv ==
  /\ \E S : built \in Seq(S)
  /\ \E S : log \in Seq(S)
  /\ Len(log) = Len(built)
  /\ \A i \in DOMAIN built : WellFormed(built[i]) /\ log[i] = to_log_event(built[i])

(* Engines hold rows of the log.                                           *)
RowsInv == rows \in [Tiers -> SUBSET DOMAIN log]

(* A chunk is of events of the log, of the user and between the times its  *)
(* manifest says.                                                          *)
ChunkOf(c) ==
  /\ c.ids \subseteq DOMAIN log
  /\ \A i \in c.ids : /\ c.user = UserKey(Stored(i))
                      /\ c.min_ts \in Int /\ c.max_ts \in Int
                      /\ c.min_ts <= log[i].ts /\ log[i].ts <= c.max_ts

ChunksInv == \A c \in chunks : ChunkOf(c)

DataInv == LogInv /\ RowsInv /\ ChunksInv

(* What the log says of an event.                                          *)
LEMMA LogReads ==
  ASSUME LogInv
  PROVE  /\ Len(built) \in Nat /\ DOMAIN built = 1 .. Len(built) /\ DOMAIN log = DOMAIN built
         /\ \A i \in DOMAIN log : /\ WellFormed(built[i])
                                  /\ log[i] = to_log_event(built[i])
                                  /\ Decodes(log[i])
                                  /\ Stored(i) = Kept(built[i])
                                  /\ log[i].ts = built[i].ts /\ log[i].ts \in Int
<1>1. Len(built) \in Nat /\ DOMAIN built = 1 .. Len(built) /\ DOMAIN log = DOMAIN built
  BY DEF LogInv
<1>2. \A i \in DOMAIN log : WellFormed(built[i]) /\ log[i] = to_log_event(built[i])
  BY <1>1 DEF LogInv
<1>3. ASSUME NEW i \in DOMAIN log
      PROVE  /\ Decodes(log[i]) /\ Stored(i) = Kept(built[i])
             /\ log[i].ts = built[i].ts /\ log[i].ts \in Int
  <2>1. WellFormed(built[i]) /\ log[i] = to_log_event(built[i])
    BY <1>2
  <2>2. Decodes(log[i]) /\ from_event_ref(log[i]) = Kept(built[i])
    BY <2>1, RowReadsBack
  <2>3. log[i].ts = built[i].ts
    BY <2>1 DEF to_log_event
  <2>4. built[i].ts \in Int
    BY <2>1 DEF WellFormed
  <2> QED BY <2>2, <2>3, <2>4 DEF Stored
<1> QED BY <1>1, <1>2, <1>3

(* A finite set of integers has a least and a greatest element.            *)
LEMMA Extremes ==
  ASSUME NEW S \in SUBSET Int, IsFiniteSet(S), S # {}
  PROVE  /\ Min(S) \in S /\ \A y \in S : Min(S) <= y
         /\ Max(S) \in S /\ \A y \in S : Max(S) >= y
<1> DEFINE Below(x) == {y \in S : y < x}
           Above(x) == {y \in S : y > x}
           B == {Below(x) : x \in S}
           A == {Above(x) : x \in S}
<1>1. IsWellFoundedOn(StrictSubsetOrdering(S), FiniteSubsetsOf(S))
  BY FS_StrictSubsetOrderingWellFounded
<1>2. \A x \in S : Below(x) \in SUBSET S /\ Above(x) \in SUBSET S
  OBVIOUS
<1>3. \A x \in S : Below(x) \in FiniteSubsetsOf(S) /\ Above(x) \in FiniteSubsetsOf(S)
  <2> HIDE DEF Below, Above
  <2> QED BY <1>2, FS_Subset DEF FiniteSubsetsOf
<1>4. \E x \in S : \A y \in S : x <= y
  <2>1. B \subseteq FiniteSubsetsOf(S) /\ B # {}
    <3> HIDE DEF Below
    <3> QED BY <1>3
  <2>2. PICK U \in B : \A V \in B : ~(<<V, U>> \in StrictSubsetOrdering(S))
    <3> HIDE DEF B
    <3> QED BY <1>1, <2>1, WFMin
  <2>3. PICK x \in S : U = Below(x)
    OBVIOUS
  <2>4. ASSUME NEW y \in S, ~(x <= y) PROVE FALSE
    <3>1. y < x /\ x \in Int /\ y \in Int
      BY <2>4
    <3>2. Below(y) \subseteq Below(x) /\ y \in Below(x) /\ y \notin Below(y)
      <4>1. \A z \in S : z < y => z < x
        BY <3>1
      <4>2. ~(y < y)
        BY <3>1
      <4> QED BY <3>1, <4>1, <4>2
    <3>3. Below(y) \in B
      OBVIOUS
    <3> HIDE DEF Below, B
    <3>4. <<Below(y), Below(x)>> \in StrictSubsetOrdering(S)
      BY <3>2, <1>2 DEF StrictSubsetOrdering
    <3> QED BY <3>3, <3>4, <2>2, <2>3
  <2> QED BY <2>4
<1>5. \E x \in S : \A y \in S : x >= y
  <2>1. A \subseteq FiniteSubsetsOf(S) /\ A # {}
    <3> HIDE DEF Above
    <3> QED BY <1>3
  <2>2. PICK U \in A : \A V \in A : ~(<<V, U>> \in StrictSubsetOrdering(S))
    <3> HIDE DEF A
    <3> QED BY <1>1, <2>1, WFMin
  <2>3. PICK x \in S : U = Above(x)
    OBVIOUS
  <2>4. ASSUME NEW y \in S, ~(x >= y) PROVE FALSE
    <3>1. y > x /\ x \in Int /\ y \in Int
      BY <2>4
    <3>2. Above(y) \subseteq Above(x) /\ y \in Above(x) /\ y \notin Above(y)
      <4>1. \A z \in S : z > y => z > x
        BY <3>1
      <4>2. ~(y > y)
        BY <3>1
      <4> QED BY <3>1, <4>1, <4>2
    <3>3. Above(y) \in A
      OBVIOUS
    <3> HIDE DEF Above, A
    <3>4. <<Above(y), Above(x)>> \in StrictSubsetOrdering(S)
      BY <3>2, <1>2 DEF StrictSubsetOrdering
    <3> QED BY <3>3, <3>4, <2>2, <2>3
  <2> QED BY <2>4
<1> QED BY <1>4, <1>5 DEF Min, Max

(* The store is empty at first.                                            *)
LEMMA DataInit == Init => DataInv
<1> SUFFICES ASSUME Init PROVE DataInv
  OBVIOUS
<1>1. built = <<>> /\ log = <<>> /\ rows = [t \in Tiers |-> {}] /\ chunks = {}
  BY DEF Init
<1>2. \A S : <<>> \in Seq(S)
  OBVIOUS
<1>3. LogInv
  BY <1>1, <1>2 DEF LogInv
<1> QED BY <1>1, <1>3 DEF DataInv, RowsInv, ChunksInv

(* Appending to the log leaves what is in it.                              *)
LEMMA Appended ==
  ASSUME NEW s, NEW S, s \in Seq(S), NEW e
  PROVE  /\ Append(s, e) \in Seq(S \cup {e})
         /\ Len(Append(s, e)) = Len(s) + 1
         /\ DOMAIN Append(s, e) = DOMAIN s \cup {Len(s) + 1}
         /\ \A i \in DOMAIN s : Append(s, e)[i] = s[i] /\ i # Len(s) + 1
         /\ Append(s, e)[Len(s) + 1] = e
<1>1. s \in Seq(S \cup {e}) /\ e \in S \cup {e} /\ DOMAIN s = 1 .. Len(s) /\ Len(s) \in Nat
  <2>1. \A i \in 1 .. Len(s) : s[i] \in S \cup {e}
    OBVIOUS
  <2> QED BY <2>1
<1> QED BY <1>1, AppendProperties

(* The log only grows, and what is in it stays as it is.                   *)
LogGrows ==
  /\ DOMAIN log \subseteq DOMAIN log'
  /\ \A i \in DOMAIN log : log'[i] = log[i] /\ built'[i] = built[i]

(* A chunk stays what its manifest says while the log grows.               *)
LEMMA ChunkStays ==
  ASSUME LogGrows, NEW c, ChunkOf(c)
  PROVE  ChunkOf(c)'
BY DEF LogGrows, ChunkOf, Stored

(* An accepted body adds its row.                                          *)
LEMMA DataPost ==
  ASSUME DataInv, NEW p \in Payloads, NEW c \in Callers, Post(p, c)
  PROVE  DataInv' /\ LogGrows /\ chunks' = chunks /\ req' = req
         /\ \A t \in Tiers : rows[t] \subseteq rows'[t]
<1> DEFINE n == Len(built) + 1
           e == process_event(p, c, n)
<1>1. /\ built' = Append(built, e) /\ log' = Append(log, to_log_event(e))
      /\ rows' = [rows EXCEPT ![e.tier] = @ \cup {e.id}]
      /\ UNCHANGED <<chunks, req>>
  BY DEF Post
<1>2. WellFormed(e)
  BY BuiltWellFormed
<1>3. e.tier \in Tiers /\ e.id = n
  BY EventDataAssumption DEF process_event
<1> HIDE DEF e
<1>4. /\ LogInv /\ RowsInv /\ ChunksInv
      /\ Len(built) \in Nat /\ DOMAIN log = DOMAIN built /\ Len(log) = Len(built)
  BY LogReads DEF DataInv, LogInv
<1>5. PICK S, T : built \in Seq(S) /\ log \in Seq(T)
  BY <1>4 DEF LogInv
<1>6. /\ built' \in Seq(S \cup {e}) /\ Len(built') = n
      /\ DOMAIN built' = DOMAIN built \cup {n}
      /\ \A i \in DOMAIN built : built'[i] = built[i] /\ i # n
      /\ built'[n] = e
  BY <1>1, <1>5, Appended
<1>7. /\ log' \in Seq(T \cup {to_log_event(e)}) /\ Len(log') = n
      /\ DOMAIN log' = DOMAIN log \cup {n}
      /\ \A i \in DOMAIN log : log'[i] = log[i]
      /\ log'[n] = to_log_event(e)
  BY <1>1, <1>4, <1>5, Appended
<1> HIDE DEF n
<1>8. LogInv'
  <2>1. \A i \in DOMAIN built' : WellFormed(built'[i]) /\ log'[i] = to_log_event(built'[i])
    BY <1>2, <1>4, <1>6, <1>7 DEF LogInv
  <2> QED BY <2>1, <1>6, <1>7 DEF LogInv
<1>9. LogGrows
  BY <1>4, <1>6, <1>7 DEF LogGrows
<1>10. RowsInv' /\ \A t \in Tiers : rows[t] \subseteq rows'[t]
  <2>1. \A t \in Tiers : rows'[t] = rows[t] \cup (IF t = e.tier THEN {n} ELSE {})
    BY <1>1, <1>3, <1>4 DEF RowsInv
  <2>2. rows' \in [Tiers -> SUBSET DOMAIN log']
    BY <1>1, <1>3, <1>4, <1>7 DEF RowsInv
  <2> QED BY <2>1, <2>2 DEF RowsInv
<1>11. ChunksInv'
  BY <1>1, <1>4, <1>9, ChunkStays DEF ChunksInv
<1> QED BY <1>1, <1>8, <1>9, <1>10, <1>11 DEF DataInv

(* A new chunk is of the user and the times of its events.                 *)
LEMMA DataArchive ==
  ASSUME DataInv, NEW S \in SUBSET AllRows, ArchiveChunk(S)
  PROVE  /\ DataInv' /\ LogGrows /\ req' = req /\ rows' = rows
         /\ chunks \subseteq chunks'
<1> DEFINE times == {log[i].ts : i \in S}
           c == [user |-> UserKey(Stored(Min(S))), min_ts |-> Min(times),
                 max_ts |-> Max(times), ids |-> S]
<1>1. /\ S # {} /\ chunks' = chunks \cup {c}
      /\ \A i, j \in S : UserKey(Stored(i)) = UserKey(Stored(j))
      /\ UNCHANGED <<built, log, rows, req>>
  BY DEF ArchiveChunk
<1>2. LogInv /\ RowsInv /\ ChunksInv /\ Len(built) \in Nat /\ DOMAIN log = 1 .. Len(built)
  BY LogReads DEF DataInv
<1>3. S \in SUBSET DOMAIN log
  BY <1>2 DEF AllRows, RowsInv
<1>4. IsFiniteSet(S) /\ S \in SUBSET Int
  <2>1. IsFiniteSet(1 .. Len(built))
    BY <1>2, FS_Interval
  <2> QED BY <2>1, <1>2, <1>3, FS_Subset
<1>5. times \in SUBSET Int /\ times # {} /\ IsFiniteSet(times)
  <2>1. \A i \in S : log[i].ts \in Int
    BY <1>2, <1>3, LogReads
  <2>2. IsFiniteSet(times)
    <3> DEFINE f == [i \in S |-> log[i].ts]
    <3>1. f \in Surjection(S, times)
      BY DEF Surjection
    <3> HIDE DEF f, times
    <3> QED BY <3>1, <1>4, FS_Surjection
  <2> QED BY <2>1, <2>2, <1>1
<1>6. /\ Min(S) \in S
      /\ Min(times) \in Int /\ Max(times) \in Int
      /\ \A y \in times : Min(times) <= y /\ Max(times) >= y
  <2> HIDE DEF times
  <2> QED BY <1>1, <1>4, <1>5, Extremes
<1>7. ChunkOf(c)
  <2>1. \A i \in S : log[i].ts \in times /\ log[i].ts \in Int
    BY <1>5
  <2>2. /\ c.user = UserKey(Stored(Min(S))) /\ c.ids = S
        /\ c.min_ts = Min(times) /\ c.max_ts = Max(times)
    OBVIOUS
  <2> HIDE DEF c, times
  <2> QED BY <2>1, <2>2, <1>1, <1>3, <1>6 DEF ChunkOf
<1> HIDE DEF c
<1>8. LogGrows
  BY <1>1 DEF LogGrows
<1>9. ChunksInv'
  BY <1>1, <1>2, <1>7, <1>8, ChunkStays DEF ChunksInv
<1>10. LogInv' /\ RowsInv'
  BY <1>1, <1>2 DEF LogInv, RowsInv
<1> QED BY <1>1, <1>8, <1>9, <1>10 DEF DataInv

(* A deletion takes rows that are archived.                                *)
LEMMA DataDelete ==
  ASSUME DataInv, NEW c \in chunks, DeleteArchived(c)
  PROVE  /\ DataInv' /\ LogGrows /\ req' = req /\ chunks' = chunks
         /\ \A t \in Tiers : rows[t] \subseteq rows'[t] \cup c.ids
<1>1. /\ rows' = [t \in Tiers |-> rows[t] \ c.ids]
      /\ UNCHANGED <<built, log, chunks, req>>
  BY DEF DeleteArchived
<1>2. LogGrows /\ LogInv'
  BY <1>1 DEF LogGrows, LogInv, DataInv
<1>3. RowsInv' /\ \A t \in Tiers : rows[t] \subseteq rows'[t] \cup c.ids
  BY <1>1 DEF RowsInv, DataInv
<1>4. ChunksInv'
  BY <1>1, <1>2, ChunkStays DEF ChunksInv, DataInv
<1> QED BY <1>1, <1>2, <1>3, <1>4 DEF DataInv

(* Whatever leaves the store alone leaves it sound.                        *)
LEMMA DataFrame ==
  ASSUME DataInv, UNCHANGED storeVars
  PROVE  DataInv' /\ LogGrows
<1>1. UNCHANGED <<built, log, rows, chunks>>
  BY DEF storeVars
<1>2. LogGrows /\ LogInv' /\ RowsInv'
  BY <1>1 DEF LogGrows, LogInv, RowsInv, DataInv
<1>3. ChunksInv'
  BY <1>1, <1>2, ChunkStays DEF ChunksInv, DataInv
<1> QED BY <1>2, <1>3 DEF DataInv

(* The steps of a request that reads.                                      *)
RequestStep ==
  \/ \E k \in Kinds, w \in Windows,
        u \in {{}} \cup {Stored(i).attrs["user_id"] : i \in DOMAIN log},
        m \in {{}} \cup {{log[i].dims["model"]} : i \in DOMAIN log} : StartRequest(k, u, m, w)
  \/ \E t \in Tiers : ReadEngine(t)
  \/ ListArchives
  \/ \E c \in chunks : Fetch(c) \/ FetchFails(c)
  \/ Answer

(* The steps of the specification, sorted by what they do to the store.    *)
LEMMA StepCases ==
  ASSUME [Next]_vars
  PROVE  \/ \E p \in Payloads, c \in Callers : Post(p, c)
         \/ \E S \in SUBSET AllRows : ArchiveChunk(S)
         \/ \E c \in chunks : DeleteArchived(c)
         \/ RequestStep
         \/ UNCHANGED <<storeVars, req>>
BY DEF Next, vars, RequestStep

(* A request that reads changes nothing but itself.                        *)
LEMMA RequestReads ==
  ASSUME RequestStep
  PROVE  UNCHANGED storeVars
BY DEF RequestStep, StartRequest, ReadEngine, ListArchives, Fetch, FetchFails, Answer

(* Every step keeps the store sound.                                       *)
LEMMA DataStep ==
  ASSUME DataInv, [Next]_vars
  PROVE  DataInv'
<1>1. CASE \E p \in Payloads, c \in Callers : Post(p, c)
  BY <1>1, DataPost
<1>2. CASE \E S \in SUBSET AllRows : ArchiveChunk(S)
  BY <1>2, DataArchive
<1>3. CASE \E c \in chunks : DeleteArchived(c)
  BY <1>3, DataDelete
<1>4. CASE RequestStep
  BY <1>4, RequestReads, DataFrame
<1>5. CASE UNCHANGED <<storeVars, req>>
  BY <1>5, DataFrame
<1> QED BY <1>1, <1>2, <1>3, <1>4, <1>5, StepCases

(* The store is always sound.                                              *)
LEMMA DataInvariant == Spec => []DataInv
<1>1. DataInv /\ [Next]_vars => DataInv'
  BY DataStep
<1> QED BY <1>1, DataInit, PTL DEF Spec

-----------------------------------------------------------------------------
(* Nothing is lost on the way through a row or the archive *)

(* JSON changes nothing of an event that comes out of a row.               *)
LEMMA RestoredIsKept ==
  ASSUME NEW e, WellFormed(e)
  PROVE  Restored(Kept(e)) = Kept(e)
<1> DEFINE k == Kept(e)
<1>1. /\ k = [f \in EventFields |-> k[f]]
      /\ k.client_ip = e.client_ip /\ k.method = e.method
  BY DEF Kept, WellFormed, EventFields
<1>2. Parsed(e.client_ip) = e.client_ip /\ Parsed({e.method}) = {e.method}
  BY DEF Parsed, WellFormed
<1>3. Unwrap({e.method}, [ok |-> TRUE, verb |-> "POST"]) = e.method
  BY UnwrapOne
<1> HIDE DEF k
<1>4. Restored(k) = [k EXCEPT !.client_ip = e.client_ip, !.method = e.method]
  BY <1>1, <1>2, <1>3 DEF Restored
<1>5. [k EXCEPT !.client_ip = e.client_ip, !.method = e.method] = k
  BY <1>1
<1> QED BY <1>4, <1>5 DEF k

(* A response is the same before and after an event is archived.           *)
LEMMA ResponseSame ==
  ASSUME NEW e
  PROVE  llm_event_to_response(e) = Response(llm_to_summary(e))
BY DEF llm_event_to_response, Response, llm_to_summary

(* Every event reads back as it was built, from its row and from the       *)
(* archive, and is shown the same from both, for any bodies and callers.   *)
THEOREM EventsReadBack == Spec => []RoundTrip
<1>1. ASSUME DataInv PROVE RoundTrip
  <2>1. LogInv /\ ChunksInv
    BY <1>1 DEF DataInv
  <2>2. \A i \in DOMAIN log : WellFormed(built[i]) /\ Decodes(log[i]) /\ Stored(i) = Kept(built[i])
    BY <2>1, LogReads
  <2>3. ASSUME NEW c \in chunks, NEW i \in c.ids
        PROVE  /\ Restored(Stored(i)) = Kept(built[i])
               /\ llm_event_to_response(Restored(Stored(i))) = Response(llm_to_summary(Stored(i)))
    <3>1. i \in DOMAIN log
      BY <2>1 DEF ChunksInv, ChunkOf
    <3>2. Stored(i) = Kept(built[i]) /\ Restored(Stored(i)) = Stored(i)
      BY <2>2, <3>1, RestoredIsKept
    <3> QED BY <3>2, ResponseSame
  <2> QED BY <2>2, <2>3 DEF RoundTrip
<1> QED BY <1>1, DataInvariant, PTL

(* A text that is there is what its dimension holds.                       *)
LEMMA UnwrapMember ==
  ASSUME NEW o, Optional(o), NEW v \in o, NEW default
  PROVE  Unwrap(o, default) = v
<1>1. o = {v}
  BY OptionalCases
<1> QED BY <1>1, UnwrapOne

(* The filter made of an event's response finds its row, for any bodies    *)
(* and callers.                                                            *)
THEOREM EventsAreFoundAsShown == Spec => []FoundAsShown
<1>1. ASSUME DataInv PROVE FoundAsShown
  <2> SUFFICES ASSUME NEW i \in AllRows
               PROVE  LET shown == Response(llm_to_summary(Stored(i)))
                          dims == [d \in FilterDims |->
                                    CASE d \in {"model", "provider"} -> {shown[d]}
                                      [] d \in {"user_id", "api_key_id", "source"} -> shown.attrs[d]
                                      [] OTHER -> {}]
                          above == {s + 1 : s \in shown.http_status}
                      IN Matches(log[i], Filter(dims, {shown.timestamp}, {shown.timestamp},
                                                shown.http_status, above))
    BY DEF FoundAsShown
  <2> DEFINE shown == Response(llm_to_summary(Stored(i)))
             dims == [d \in FilterDims |->
                       CASE d \in {"model", "provider"} -> {shown[d]}
                         [] d \in {"user_id", "api_key_id", "source"} -> shown.attrs[d]
                         [] OTHER -> {}]
             above == {s + 1 : s \in shown.http_status}
             q == Filter(dims, {shown.timestamp}, {shown.timestamp}, shown.http_status, above)
             e == built[i]
  <2>1. i \in DOMAIN log
    BY <1>1 DEF AllRows, DataInv, RowsInv
  <2>2. /\ WellFormed(e) /\ Stored(i) = Kept(e) /\ log[i] = to_log_event(e)
    BY <1>1, <2>1, LogReads DEF DataInv
  <2> HIDE DEF e
  <2>3. /\ shown.timestamp = e.ts /\ shown.http_status = e.http_status
        /\ shown.model = e.model /\ shown.provider = e.provider.kind
        /\ \A a \in {"user_id", "api_key_id", "source"} : shown.attrs[a] = e.attrs[a] \ {""}
    <3>1. LET k == Kept(e) IN
          /\ k.ts = e.ts /\ k.http_status = e.http_status /\ k.model = e.model
          /\ k.provider = e.provider /\ \A a \in Attributes : k.attrs[a] = e.attrs[a] \ {""}
      BY <2>2 DEF Kept, WellFormed, EventFields
    <3> QED BY <2>2, <3>1 DEF Response, llm_to_summary, Attributes
  <2>4. /\ e.ts \in Int /\ Optional(e.http_status) /\ e.http_status \subseteq Nat
        /\ \A a \in Attributes : Optional(e.attrs[a])
    BY <2>2 DEF WellFormed
  <2>5. /\ log[i].ts = e.ts /\ log[i].status = Unwrap(e.http_status, 0)
        /\ log[i].dims["model"] = e.model /\ log[i].dims["provider"] = e.provider.kind
        /\ \A a \in {"user_id", "api_key_id", "source"} : log[i].dims[a] = Unwrap(e.attrs[a], "")
    <3>1. LET r == to_log_event(e) IN
          /\ r.ts = e.ts /\ r.status = Unwrap(e.http_status, 0)
          /\ r.dims["model"] = e.model /\ r.dims["provider"] = e.provider.kind
          /\ \A a \in Attributes \cap Dims : r.dims[a] = Unwrap(e.attrs[a], "")
      BY <2>2, RowOf
    <3> QED BY <2>2, <3>1 DEF Attributes, Dims
  <2> HIDE DEF shown
  <2>6. /\ dims["model"] = {e.model} /\ dims["provider"] = {e.provider.kind}
        /\ \A a \in {"user_id", "api_key_id", "source"} : dims[a] = e.attrs[a] \ {""}
        /\ dims["user_tag"] = {} /\ dims["session_tag"] = {}
    BY <2>3 DEF FilterDims
  <2>7. \A d \in FilterDims : \A v \in dims[d] : log[i].dims[d] = v
    <3> HIDE DEF dims
    <3>1. ASSUME NEW a \in {"user_id", "api_key_id", "source"}, NEW v \in dims[a]
          PROVE  log[i].dims[a] = v
      <4>1. v \in e.attrs[a] /\ Optional(e.attrs[a])
        BY <3>1, <2>4, <2>6 DEF Attributes
      <4>2. Unwrap(e.attrs[a], "") = v
        BY <4>1, UnwrapMember
      <4> QED BY <4>2, <2>5
    <3> QED BY <3>1, <2>5, <2>6 DEF FilterDims
  <2>8. \A s \in shown.http_status : log[i].status = s /\ s \in Nat
    <3>1. ASSUME NEW s \in e.http_status PROVE Unwrap(e.http_status, 0) = s
      BY <2>4, UnwrapMember
    <3> QED BY <3>1, <2>3, <2>4, <2>5
  <2>9. /\ q.dims = dims /\ q.from = {e.ts} /\ q.to = {e.ts}
        /\ q.status_min = shown.http_status /\ q.status_max = above
    BY <2>3 DEF Filter
  <2>10. \A s \in above : log[i].status < s
    <3>1. \A s \in shown.http_status : log[i].status < s + 1
      BY <2>8
    <3> QED BY <3>1
  <2> HIDE DEF dims, above, q
  <2>11. Matches(log[i], q)
    <3>1. \A t \in q.from \cup q.to : log[i].ts >= t /\ log[i].ts <= t
      <4>1. log[i].ts \in Int /\ q.from \cup q.to = {log[i].ts}
        BY <2>4, <2>5, <2>9
      <4> QED BY <4>1
    <3>2. \A s \in q.status_min : log[i].status >= s
      BY <2>8, <2>9
    <3> QED BY <3>1, <3>2, <2>7, <2>9, <2>10 DEF Matches
  <2> QED BY <2>11 DEF q, dims, above, shown
<1> QED BY <1>1, DataInvariant, PTL

-----------------------------------------------------------------------------
(* Pages of live and archived events *)

PageFilter == Filter(QueryDims, {req.from}, {req.to}, {}, {})

(* The events a page must not miss.                                        *)
Wanted == {i \in req.steady : Matches(log[i], PageFilter)}

InChunk(i) == \E c \in chunks : i \in c.ids

ReqFields ==
  {"phase", "kind", "user", "model", "from", "to", "left", "live", "sums", "manifests",
   "archived", "failed", "steady", "counted"}

(* A request under way.                                                    *)
RequestInv ==
  /\ req = [f \in ReqFields |-> req[f]]
  /\ req.phase \in {"read", "fetch", "done"}
  /\ req.from \in Int /\ req.to \in Int
  /\ Optional(req.user) /\ "" \notin req.user
  /\ req.left \subseteq Tiers
  /\ req.steady \subseteq DOMAIN log
  /\ req.live \subseteq DOMAIN log /\ req.archived \subseteq DOMAIN log
  /\ req.manifests \subseteq chunks

(* What a page shows was asked for.                                        *)
ShownInv ==
  \A i \in req.live \cup req.archived :
    /\ log[i].ts \in req.from .. req.to
    /\ \A u \in req.user : built[i].attrs["user_id"] = {u}

(* While the engines are read, what is wanted is archived, or still in an  *)
(* engine that is to be read, or found, unless there is more than a page.  *)
ReadInv ==
  req.phase = "read" =>
    \/ Cardinality(req.live) > PageLimit
    \/ \A i \in Wanted : InChunk(i) \/ i \in req.live \/ \E t \in req.left : i \in rows[t]

(* After that it is found, or in a chunk that is to be fetched, unless a   *)
(* fetch failed or the live events fill the page.                          *)
FetchInv ==
  req.phase \in {"fetch", "done"} =>
    \/ Cardinality(req.live) >= PageLimit
    \/ req.failed
    \/ \A i \in Wanted : \/ i \in req.live \cup req.archived
                         \/ \E c \in req.manifests : i \in c.ids

DoneInv == req.phase = "done" => req.manifests = {}

PageInv ==
  req.phase # "idle" =>
    /\ RequestInv
    /\ req.kind = "events" => ShownInv /\ ReadInv /\ FetchInv /\ DoneInv

(* The newest n of a set are less than n only when they are all of it.     *)
LEMMA NewestAll ==
  ASSUME LogInv, NEW S \in SUBSET DOMAIN log, NEW n \in Nat
  PROVE  /\ IsFiniteSet(S) /\ Newest(S, n) \subseteq S /\ IsFiniteSet(Newest(S, n))
         /\ Cardinality(Newest(S, n)) \in Nat
         /\ Cardinality(Newest(S, n)) < n => Newest(S, n) = S
<1> DEFINE Later(j, i) == log[j].ts > log[i].ts \/ (log[j].ts = log[i].ts /\ j > i)
           Above(i) == {j \in S : Later(j, i)}
           page == Newest(S, n)
           rest == S \ page
           T == {Above(i) : i \in rest}
<1>1. \A i \in S : i \in Int /\ log[i].ts \in Int
  BY LogReads
<1>2. IsFiniteSet(S)
  <2>1. IsFiniteSet(1 .. Len(built)) /\ S \in SUBSET (1 .. Len(built))
    BY LogReads, FS_Interval
  <2> QED BY <2>1, FS_Subset
<1>3. page = {i \in S : Cardinality(Above(i)) < n} /\ page \in SUBSET S /\ rest \in SUBSET S
  BY DEF Newest
<1>4. IsFiniteSet(page) /\ Cardinality(page) \in Nat
  <2> HIDE DEF page
  <2> QED BY <1>2, <1>3, FS_Subset, FS_CardinalityType
<1>5. /\ \A x \in S : ~Later(x, x)
      /\ \A x, y, z \in S : Later(y, x) /\ Later(x, z) => Later(y, z)
  BY <1>1
<1>6. ASSUME Cardinality(page) < n, page # S PROVE FALSE
  <2> HIDE DEF Later, page
  <2>1. rest # {}
    BY <1>3, <1>6
  <2>2. \A i \in S : /\ Above(i) \in SUBSET S /\ IsFiniteSet(Above(i))
                     /\ Cardinality(Above(i)) \in Nat /\ Above(i) \in FiniteSubsetsOf(S)
    <3> TAKE i \in S
    <3>1. Above(i) \in SUBSET S
      OBVIOUS
    <3> HIDE DEF Above
    <3> QED BY <3>1, <1>2, FS_Subset, FS_CardinalityType DEF FiniteSubsetsOf
  <2>3. T # {} /\ T \subseteq FiniteSubsetsOf(S)
    <3> HIDE DEF Above
    <3> QED BY <2>1, <2>2, <1>3
  <2>4. PICK U \in T : \A V \in T : ~(<<V, U>> \in StrictSubsetOrdering(S))
    <3>1. IsWellFoundedOn(StrictSubsetOrdering(S), FiniteSubsetsOf(S))
      BY <1>2, FS_StrictSubsetOrderingWellFounded
    <3> HIDE DEF T
    <3> QED BY <3>1, <2>3, WFMin
  <2>5. PICK m \in rest : U = Above(m)
    OBVIOUS
  <2>6. ASSUME NEW x \in Above(m) PROVE x \in page
    <3> SUFFICES ASSUME x \in rest PROVE FALSE
      BY <1>3
    <3>1. Above(x) \in T
      OBVIOUS
    <3>2. Above(x) \subseteq Above(m) /\ x \in Above(m) /\ x \notin Above(x)
      <4>1. x \in S /\ m \in S /\ Later(x, m)
        BY <1>3, <2>6
      <4> QED BY <4>1, <1>5
    <3>3. Above(x) \in SUBSET S /\ Above(m) \in SUBSET S
      OBVIOUS
    <3> HIDE DEF Above, T
    <3>4. <<Above(x), Above(m)>> \in StrictSubsetOrdering(S)
      BY <3>2, <3>3 DEF StrictSubsetOrdering
    <3> QED BY <3>1, <3>4, <2>4, <2>5
  <2>7. m \in S /\ m \notin page
    OBVIOUS
  <2> HIDE DEF Above
  <2>8. Above(m) \in SUBSET page
    BY <2>6
  <2>9. Cardinality(Above(m)) <= Cardinality(page) /\ Cardinality(Above(m)) \in Nat
    BY <2>2, <2>7, <2>8, <1>4, FS_Subset
  <2> QED BY <1>3, <1>4, <1>6, <2>7, <2>9
<1> QED BY <1>2, <1>3, <1>4, <1>6

(* What the filter of a page asks of a row.                                *)
LEMMA PageMatches ==
  ASSUME NEW r
  PROVE  Matches(r, PageFilter) <=>
           /\ \A u \in req.user : r.dims["user_id"] = u
           /\ \A m \in req.model : r.dims["model"] = m
           /\ r.ts >= req.from /\ r.ts <= req.to
<1>1. /\ PageFilter.dims = QueryDims /\ PageFilter.from = {req.from} /\ PageFilter.to = {req.to}
      /\ PageFilter.status_min = {} /\ PageFilter.status_max = {}
  BY DEF PageFilter, Filter
<1>2. /\ QueryDims["user_id"] = req.user /\ QueryDims["model"] = req.model
      /\ \A d \in FilterDims \ {"user_id", "model"} : QueryDims[d] = {}
  BY DEF QueryDims, NoDims, FilterDims
<1>3. "user_id" \in FilterDims /\ "model" \in FilterDims
  BY DEF FilterDims
<1> QED BY <1>1, <1>2, <1>3 DEF Matches

(* The user of a row, of its event and of what is read back of it.         *)
LEMMA UserReads ==
  ASSUME LogInv, NEW i \in DOMAIN log, NEW u, u # "", log[i].dims["user_id"] = u
  PROVE  /\ built[i].attrs["user_id"] = {u}
         /\ Stored(i).attrs["user_id"] = {u}
         /\ UserKey(Stored(i)) = u
<1> DEFINE e == built[i]
<1>1. WellFormed(e) /\ log[i] = to_log_event(e) /\ Stored(i) = Kept(e)
  BY LogReads
<1> HIDE DEF e
<1>2. log[i].dims["user_id"] = Unwrap(e.attrs["user_id"], "") /\ Optional(e.attrs["user_id"])
  <2>1. \A a \in Attributes \cap Dims : to_log_event(e).dims[a] = Unwrap(e.attrs[a], "")
    BY <1>1, RowOf
  <2>2. \A a \in Attributes : Optional(e.attrs[a])
    BY <1>1 DEF WellFormed
  <2> QED BY <1>1, <2>1, <2>2 DEF Attributes, Dims
<1>3. e.attrs["user_id"] = {u}
  <2>1. CASE e.attrs["user_id"] = {}
    BY <2>1, <1>2, UnwrapOne
  <2>2. CASE \E v : e.attrs["user_id"] = {v}
    <3>1. PICK v : e.attrs["user_id"] = {v}
      BY <2>2
    <3>2. Unwrap({v}, "") = v
      BY UnwrapOne
    <3> QED BY <1>2, <3>1, <3>2
  <2> QED BY <2>1, <2>2, <1>2, OptionalCases
<1>4. Stored(i).attrs["user_id"] = {u}
  <2>1. Kept(e).attrs["user_id"] = e.attrs["user_id"] \ {""}
    BY <1>1 DEF Kept, WellFormed, EventFields, Attributes
  <2> QED BY <1>1, <1>3, <2>1
<1> QED BY <1>3, <1>4, UnwrapOne DEF UserKey, e

(* The archiver and new events leave a page as good as it was.             *)
LEMMA PageStore ==
  ASSUME DataInv, PageInv, LogGrows, req' = req, chunks \subseteq chunks',
         \A t \in Tiers : \A i \in rows[t] : i \in rows'[t] \/ InChunk(i)
  PROVE  PageInv'
<1> SUFFICES ASSUME req.phase # "idle" PROVE PageInv'
  BY DEF PageInv
<1>1. RequestInv
  BY DEF PageInv
<1>2. RequestInv'
  BY <1>1 DEF RequestInv, LogGrows
<1>3. ASSUME req.kind = "events" PROVE ShownInv' /\ ReadInv' /\ FetchInv' /\ DoneInv'
  <2>1. ShownInv /\ ReadInv /\ FetchInv /\ DoneInv
    BY <1>3 DEF PageInv
  <2>2. ShownInv' /\ DoneInv'
    <3>1. \A i \in req.live \cup req.archived : log'[i] = log[i] /\ built'[i] = built[i]
      BY <1>1 DEF RequestInv, LogGrows
    <3>2. ShownInv'
      BY <3>1, <2>1 DEF ShownInv
    <3> QED BY <3>2, <2>1 DEF DoneInv
  <2>3. Wanted' = Wanted
    <3>1. PageFilter' = PageFilter
      BY DEF PageFilter, Filter, QueryDims
    <3>2. \A i \in req.steady : log'[i] = log[i]
      BY <1>1 DEF RequestInv, LogGrows
    <3> QED BY <3>1, <3>2 DEF Wanted
  <2>4. \A i : InChunk(i) => InChunk(i)'
    BY DEF InChunk
  <2>5. \A i : (\E t \in req.left : i \in rows[t]) =>
               InChunk(i) \/ \E t \in req.left : i \in rows'[t]
    BY <1>1 DEF RequestInv
  <2>6. ReadInv'
    BY <2>1, <2>3, <2>4, <2>5 DEF ReadInv
  <2>7. FetchInv'
    BY <2>1, <2>3 DEF FetchInv
  <2> QED BY <2>2, <2>6, <2>7
<1> QED BY <1>2, <1>3 DEF PageInv

(* A request begins with everything it wants in an engine or a chunk.      *)
LEMMA PageStart ==
  ASSUME DataInv, NEW k \in Kinds, NEW w \in Windows,
         NEW u \in {{}} \cup {Stored(i).attrs["user_id"] : i \in DOMAIN log},
         NEW m, StartRequest(k, u, m, w)
  PROVE  PageInv'
<1>1. /\ req' = [phase |-> "read", kind |-> k, user |-> u, model |-> m,
                 from |-> w[1], to |-> w[2], left |-> Tiers,
                 live |-> {}, sums |-> <<>>, manifests |-> {}, archived |-> {},
                 failed |-> FALSE,
                 steady |-> AllRows \cup UNION {c.ids : c \in chunks},
                 counted |-> AllRows]
      /\ UNCHANGED <<built, log, rows, chunks>>
  BY DEF StartRequest, storeVars
<1>2. w[1] \in Int /\ w[2] \in Int
  BY EventDataAssumption
<1>3. Optional(u) /\ "" \notin u
  <2>1. CASE u = {}
    BY <2>1 DEF Optional
  <2>2. ASSUME NEW i \in DOMAIN log, u = Stored(i).attrs["user_id"] PROVE Optional(u) /\ "" \notin u
    <3>1. WellFormed(built[i]) /\ Stored(i) = Kept(built[i])
      BY LogReads DEF DataInv
    <3>2. /\ Kept(built[i]).attrs["user_id"] = built[i].attrs["user_id"] \ {""}
          /\ Optional(built[i].attrs["user_id"])
      BY <3>1 DEF Kept, WellFormed, EventFields, Attributes
    <3> QED BY <2>2, <3>1, <3>2 DEF Optional
  <2> QED BY <2>1, <2>2
<1>4. AllRows \subseteq DOMAIN log /\ UNION {c.ids : c \in chunks} \subseteq DOMAIN log
  BY DEF AllRows, DataInv, RowsInv, ChunksInv, ChunkOf
<1>5. RequestInv'
  BY <1>1, <1>2, <1>3, <1>4 DEF RequestInv, ReqFields
<1>6. ShownInv' /\ FetchInv' /\ DoneInv'
  BY <1>1 DEF ShownInv, FetchInv, DoneInv
<1>7. ReadInv'
  <2>1. /\ req'.steady = AllRows \cup UNION {c.ids : c \in chunks}
        /\ req'.left = Tiers /\ rows' = rows /\ chunks' = chunks
    BY <1>1
  <2>2. \A i \in Wanted' : InChunk(i)' \/ \E t \in req'.left : i \in rows'[t]
    BY <2>1 DEF Wanted, InChunk, AllRows
  <2> QED BY <2>2 DEF ReadInv
<1> QED BY <1>5, <1>6, <1>7 DEF PageInv

(* An engine adds all that matches, or more than a page of it.             *)
LEMMA PageRead ==
  ASSUME DataInv, PageInv, NEW t \in Tiers, ReadEngine(t)
  PROVE  PageInv'
<1>1. /\ req.phase = "read" /\ t \in req.left /\ UNCHANGED <<built, log, rows, chunks>>
      /\ ReadEvents(t) \/ ReadQuota(t) \/ ReadRollups(t)
  BY DEF ReadEngine, storeVars
<1>2. RequestInv
  BY <1>1 DEF PageInv
<1>3. CASE ReadQuota(t) \/ ReadRollups(t)
  <2>1. /\ req.kind # "events"
        /\ \E s : req' = [req EXCEPT !.left = @ \ {t}, !.sums = s]
    BY <1>3 DEF ReadQuota, ReadRollups
  <2>2. RequestInv' /\ req'.kind # "events"
    BY <1>1, <1>2, <2>1 DEF RequestInv, ReqFields
  <2> QED BY <2>2 DEF PageInv
<1>4. CASE ReadEvents(t)
  <2> DEFINE found == {i \in rows[t] : Matches(log[i], PageFilter)}
             new == Newest(found, PageLimit + 1)
  <2>1. /\ req.kind = "events"
        /\ req' = [req EXCEPT !.left = @ \ {t}, !.live = @ \cup new]
    BY <1>4 DEF ReadEvents, PageFilter
  <2>2. found \in SUBSET DOMAIN log /\ PageLimit \in Nat /\ PageLimit + 1 \in Nat /\ LogInv
    BY EventDataAssumption DEF DataInv, RowsInv
  <2>3. /\ new \subseteq found /\ IsFiniteSet(new) /\ Cardinality(new) \in Nat
        /\ Cardinality(new) < PageLimit + 1 => new = found
    <3> HIDE DEF found
    <3> QED BY <2>2, NewestAll
  <2> HIDE DEF new
  <2>4. /\ req'.phase = "read" /\ req'.kind = "events" /\ req'.left = req.left \ {t}
        /\ req'.live = req.live \cup new
        /\ \A f \in ReqFields \ {"left", "live"} : req'[f] = req[f]
        /\ req' = [f \in ReqFields |-> req'[f]]
    BY <1>1, <1>2, <2>1 DEF RequestInv, ReqFields
  <2>5. /\ req'.user = req.user /\ req'.model = req.model /\ req'.from = req.from
        /\ req'.to = req.to /\ req'.steady = req.steady /\ req'.archived = req.archived
        /\ req'.manifests = req.manifests
    BY <2>4 DEF ReqFields
  <2>6. RequestInv'
    BY <1>1, <1>2, <2>2, <2>3, <2>4, <2>5 DEF RequestInv
  <2>7. ShownInv'
    <3>1. ASSUME NEW i \in new
          PROVE  /\ log[i].ts \in req.from .. req.to
                 /\ \A u \in req.user : built[i].attrs["user_id"] = {u}
      <4>1. i \in DOMAIN log /\ Matches(log[i], PageFilter)
        BY <2>2, <2>3
      <4>2. /\ \A u \in req.user : log[i].dims["user_id"] = u
            /\ log[i].ts >= req.from /\ log[i].ts <= req.to
        BY <4>1, PageMatches
      <4>3. log[i].ts \in Int /\ req.from \in Int /\ req.to \in Int /\ "" \notin req.user
        BY <1>2, <2>2, <4>1, LogReads DEF RequestInv
      <4>4. ASSUME NEW u \in req.user PROVE built[i].attrs["user_id"] = {u}
        BY <4>1, <4>2, <4>3, <2>2, UserReads
      <4>5. log[i].ts \in req.from .. req.to
        <5>1. \A x, a, b \in Int : x >= a /\ x <= b => x \in a .. b
          OBVIOUS
        <5>2. log[i].ts >= req.from /\ log[i].ts <= req.to
          BY <4>2
        <5> QED BY <4>3, <5>1, <5>2
      <4> QED BY <4>4, <4>5
    <3>2. ShownInv
      BY <1>1, <2>1 DEF PageInv
    <3> QED BY <1>1, <2>4, <2>5, <3>1, <3>2 DEF ShownInv
  <2>8. ReadInv'
    <3>1. IsFiniteSet(req.live) /\ IsFiniteSet(req'.live)
      BY <1>2, <2>2, <2>6, <1>1, NewestAll DEF RequestInv
    <3>2. /\ Cardinality(req.live) \in Nat /\ Cardinality(req'.live) \in Nat
          /\ Cardinality(req.live) <= Cardinality(req'.live)
          /\ Cardinality(new) <= Cardinality(req'.live)
      BY <2>3, <2>4, <3>1, FS_Subset, FS_CardinalityType
    <3>3. Wanted' = Wanted
      BY <1>1, <2>5 DEF Wanted, PageFilter, QueryDims
    <3>4. ReadInv
      BY <1>1, <2>1 DEF PageInv
    <3>5. CASE Cardinality(req.live) > PageLimit \/ Cardinality(new) > PageLimit
      BY <3>2, <3>5, <2>2, <2>3 DEF ReadInv
    <3>6. CASE ~(Cardinality(req.live) > PageLimit \/ Cardinality(new) > PageLimit)
      <4>1. new = found
        BY <3>6, <2>2, <2>3
      <4>2. \A i \in Wanted : InChunk(i) \/ i \in req.live \/ \E x \in req.left : i \in rows[x]
        BY <1>1, <3>4, <3>6 DEF ReadInv
      <4>3. \A i \in Wanted : i \in rows[t] => i \in req'.live
        BY <2>4, <4>1 DEF Wanted
      <4>4. \A i \in Wanted :
              InChunk(i)' \/ i \in req'.live \/ \E x \in req'.left : i \in rows'[x]
        BY <1>1, <2>4, <4>2, <4>3 DEF InChunk
      <4> QED BY <3>3, <4>4 DEF ReadInv
    <3> QED BY <3>5, <3>6
  <2>9. FetchInv' /\ DoneInv'
    BY <2>4 DEF FetchInv, DoneInv
  <2> QED BY <2>6, <2>7, <2>8, <2>9 DEF PageInv
<1> QED BY <1>1, <1>3, <1>4

(* A chunk that holds an event that is wanted is listed.                   *)
LEMMA WantedIsListed ==
  ASSUME DataInv, RequestInv, NEW i \in Wanted, NEW c \in chunks, i \in c.ids
  PROVE  /\ i \in DOMAIN log
         /\ log[i].ts \in Int /\ log[i].ts >= req.from /\ log[i].ts <= req.to
         /\ \A u \in req.user : Stored(i).attrs["user_id"] = {u}
         /\ Overlaps(c, req.from, req.to) /\ \A u \in req.user : c.user = u
<1>1. LogInv /\ ChunkOf(c) /\ i \in DOMAIN log
  BY DEF DataInv, ChunksInv, RequestInv, Wanted
<1>2. /\ \A u \in req.user : log[i].dims["user_id"] = u
      /\ log[i].ts >= req.from /\ log[i].ts <= req.to
  BY PageMatches DEF Wanted
<1>3. log[i].ts \in Int /\ req.from \in Int /\ req.to \in Int /\ "" \notin req.user
  BY <1>1, LogReads DEF RequestInv
<1>4. /\ c.user = UserKey(Stored(i)) /\ c.min_ts \in Int /\ c.max_ts \in Int
      /\ c.min_ts <= log[i].ts /\ log[i].ts <= c.max_ts
  BY <1>1 DEF ChunkOf
<1>5. ASSUME NEW u \in req.user
      PROVE  Stored(i).attrs["user_id"] = {u} /\ c.user = u
  BY <1>1, <1>2, <1>3, <1>4, UserReads
<1>6. Overlaps(c, req.from, req.to)
  <2>1. \A x, a, b, l, h \in Int : x >= a /\ x <= b /\ l <= x /\ x <= h => h >= a /\ l <= b
    OBVIOUS
  <2>2. log[i].ts >= req.from /\ log[i].ts <= req.to
    BY <1>2
  <2> QED BY <2>1, <2>2, <1>3, <1>4 DEF Overlaps
<1> QED BY <1>1, <1>2, <1>3, <1>5, <1>6

(* When the engines are read, what is not found is in a chunk.             *)
LEMMA PageList ==
  ASSUME DataInv, PageInv, ListArchives
  PROVE  PageInv'
<1> DEFINE live == Newest(req.live, PageLimit)
           listed == {c \in chunks : /\ Overlaps(c, req.from, req.to)
                                     /\ \A u \in req.user : c.user = u}
<1>1. /\ req.phase = "read" /\ req.kind = "events" /\ req.left = {}
      /\ req' = [req EXCEPT !.phase = "fetch", !.live = live, !.manifests = listed]
      /\ UNCHANGED <<built, log, rows, chunks>>
  BY DEF ListArchives, storeVars
<1>2. RequestInv /\ ShownInv /\ ReadInv
  BY <1>1 DEF PageInv
<1>3. /\ live \subseteq req.live /\ Cardinality(live) \in Nat
      /\ Cardinality(live) < PageLimit => live = req.live
  BY <1>2, EventDataAssumption, NewestAll DEF RequestInv, DataInv
<1>4. listed \subseteq chunks
  OBVIOUS
<1>5. ASSUME NEW i \in Wanted, InChunk(i) PROVE \E c \in listed : i \in c.ids
  BY <1>2, <1>5, WantedIsListed DEF InChunk
<1> HIDE DEF live, listed
<1>6. /\ req'.phase = "fetch" /\ req'.kind = "events" /\ req'.live = live
      /\ req'.manifests = listed
      /\ \A f \in ReqFields \ {"phase", "live", "manifests"} : req'[f] = req[f]
      /\ req' = [f \in ReqFields |-> req'[f]]
  BY <1>1, <1>2 DEF RequestInv, ReqFields
<1>7. /\ req'.user = req.user /\ req'.model = req.model /\ req'.from = req.from
      /\ req'.to = req.to /\ req'.steady = req.steady /\ req'.archived = req.archived
      /\ req'.left = req.left
  BY <1>6 DEF ReqFields
<1>8. RequestInv'
  BY <1>1, <1>2, <1>3, <1>4, <1>6, <1>7 DEF RequestInv
<1>9. ShownInv' /\ ReadInv' /\ DoneInv'
  BY <1>1, <1>2, <1>3, <1>6, <1>7 DEF ShownInv, ReadInv, DoneInv
<1>10. FetchInv'
  <2>1. Wanted' = Wanted
    BY <1>1, <1>7 DEF Wanted, PageFilter, QueryDims
  <2>2. CASE Cardinality(live) >= PageLimit
    BY <2>2, <1>6 DEF FetchInv
  <2>3. CASE ~(Cardinality(live) >= PageLimit)
    <3>1. live = req.live /\ ~(Cardinality(req.live) > PageLimit)
      BY <2>3, <1>3, EventDataAssumption
    <3>2. \A i \in Wanted : InChunk(i) \/ i \in req.live
      BY <1>1, <1>2, <3>1 DEF ReadInv
    <3>3. \A i \in Wanted : i \in live \/ \E c \in listed : i \in c.ids
      BY <1>5, <3>1, <3>2
    <3> QED BY <2>1, <3>3, <1>6 DEF FetchInv
  <2> QED BY <2>2, <2>3
<1> QED BY <1>8, <1>9, <1>10 DEF PageInv

(* A chunk that is fetched gives what is wanted of it and nothing else;    *)
(* one that is not is remembered.                                          *)
LEMMA PageFetch ==
  ASSUME DataInv, PageInv, NEW c \in chunks, Fetch(c) \/ FetchFails(c)
  PROVE  PageInv'
<1> DEFINE Asked(i) == /\ Restored(Stored(i)).ts >= req.from /\ Restored(Stored(i)).ts <= req.to
                       /\ \A u \in req.user : Restored(Stored(i)).attrs["user_id"] = {u}
           new == {i \in c.ids : Asked(i)}
<1>1. /\ req.phase = "fetch" /\ c \in req.manifests /\ UNCHANGED <<built, log, rows, chunks>>
      /\ \/ req' = [req EXCEPT !.manifests = @ \ {c}, !.archived = @ \cup new]
         \/ req' = [req EXCEPT !.manifests = @ \ {c}, !.failed = TRUE]
  BY DEF Fetch, FetchFails, storeVars
<1>2. RequestInv
  BY <1>1 DEF PageInv
<1>3. LogInv /\ c.ids \subseteq DOMAIN log
  BY DEF DataInv, ChunksInv, ChunkOf
<1>4. \A i \in c.ids : Asked(i) <=> /\ log[i].ts >= req.from /\ log[i].ts <= req.to
                                    /\ \A u \in req.user : Stored(i).attrs["user_id"] = {u}
  <2> SUFFICES ASSUME NEW i \in c.ids
               PROVE  Restored(Stored(i)) = Stored(i) /\ Stored(i).ts = log[i].ts
    OBVIOUS
  <2>1. WellFormed(built[i]) /\ Stored(i) = Kept(built[i])
    BY <1>3, LogReads
  <2> QED BY <2>1, RestoredIsKept DEF Stored, from_event_ref
<1>5. ASSUME NEW i \in new
      PROVE  /\ i \in DOMAIN log /\ log[i].ts \in req.from .. req.to
             /\ \A u \in req.user : built[i].attrs["user_id"] = {u}
  <2>1. i \in DOMAIN log /\ log[i].ts \in Int /\ req.from \in Int /\ req.to \in Int
    BY <1>2, <1>3, LogReads DEF RequestInv
  <2>2. /\ log[i].ts >= req.from /\ log[i].ts <= req.to
        /\ \A u \in req.user : Stored(i).attrs["user_id"] = {u}
    BY <1>4
  <2>3. \A x, a, b \in Int : x >= a /\ x <= b => x \in a .. b
    OBVIOUS
  <2>4. ASSUME NEW u \in req.user PROVE built[i].attrs["user_id"] = {u}
    <3>1. WellFormed(built[i]) /\ Stored(i) = Kept(built[i])
      BY <2>1, <1>3, LogReads
    <3>2. /\ Kept(built[i]).attrs["user_id"] = built[i].attrs["user_id"] \ {""}
          /\ Optional(built[i].attrs["user_id"])
      BY <3>1 DEF Kept, WellFormed, EventFields, Attributes
    <3>3. built[i].attrs["user_id"] \ {""} = {u}
      BY <2>2, <3>1, <3>2
    <3> QED BY <3>2, <3>3 DEF Optional
  <2>5. log[i].ts >= req.from /\ log[i].ts <= req.to
    BY <2>2
  <2> HIDE DEF new
  <2> QED BY <2>1, <2>3, <2>4, <2>5
<1>6. \A i \in Wanted : i \in c.ids => i \in new
  <2> SUFFICES ASSUME NEW i \in Wanted, i \in c.ids PROVE Asked(i)
    OBVIOUS
  <2> HIDE DEF Asked
  <2> QED BY <1>2, <1>4, WantedIsListed
<1> HIDE DEF new, Asked
<1>7. /\ req'.phase = "fetch" /\ req'.kind = req.kind /\ req'.manifests = req.manifests \ {c}
      /\ \/ req'.archived = req.archived \cup new /\ req'.failed = req.failed
         \/ req'.archived = req.archived /\ req'.failed
      /\ \A f \in ReqFields \ {"archived", "failed", "manifests"} : req'[f] = req[f]
      /\ req' = [f \in ReqFields |-> req'[f]]
  BY <1>1, <1>2 DEF RequestInv, ReqFields
<1>8. /\ req'.user = req.user /\ req'.model = req.model /\ req'.from = req.from
      /\ req'.to = req.to /\ req'.steady = req.steady /\ req'.live = req.live
      /\ req'.left = req.left
  BY <1>7 DEF ReqFields
<1>9. RequestInv'
  BY <1>1, <1>2, <1>5, <1>7, <1>8 DEF RequestInv
<1>10. ASSUME req.kind = "events" PROVE ShownInv' /\ ReadInv' /\ FetchInv' /\ DoneInv'
  <2>1. ShownInv /\ FetchInv
    BY <1>1, <1>10 DEF PageInv
  <2>2. ShownInv'
    BY <1>1, <1>5, <1>7, <1>8, <2>1 DEF ShownInv
  <2>3. Wanted' = Wanted
    BY <1>1, <1>8 DEF Wanted, PageFilter, QueryDims
  <2>4. FetchInv'
    BY <1>1, <1>6, <1>7, <1>8, <2>1, <2>3 DEF FetchInv
  <2> QED BY <2>2, <2>4, <1>7 DEF ReadInv, DoneInv
<1> QED BY <1>7, <1>9, <1>10 DEF PageInv

(* The answer is given when nothing is left to fetch.                      *)
LEMMA PageAnswer ==
  ASSUME PageInv, Answer
  PROVE  PageInv'
<1>1. /\ \/ req.phase = "fetch" /\ req.manifests = {}
         \/ req.phase = "read" /\ req.left = {} /\ req.kind # "events"
      /\ req' = [req EXCEPT !.phase = "done"]
      /\ UNCHANGED <<built, log, rows, chunks>>
  BY DEF Answer, storeVars
<1>2. RequestInv
  BY <1>1 DEF PageInv
<1>3. /\ req'.phase = "done" /\ req' = [f \in ReqFields |-> req'[f]]
      /\ \A f \in ReqFields \ {"phase"} : req'[f] = req[f]
  BY <1>1, <1>2 DEF RequestInv, ReqFields
<1>4. /\ req'.user = req.user /\ req'.model = req.model /\ req'.from = req.from
      /\ req'.to = req.to /\ req'.steady = req.steady /\ req'.live = req.live
      /\ req'.left = req.left /\ req'.archived = req.archived
      /\ req'.manifests = req.manifests /\ req'.failed = req.failed /\ req'.kind = req.kind
  BY <1>3 DEF ReqFields
<1>5. RequestInv'
  BY <1>1, <1>2, <1>3, <1>4 DEF RequestInv
<1>6. ASSUME req.kind = "events" PROVE ShownInv' /\ ReadInv' /\ FetchInv' /\ DoneInv'
  <2>1. ShownInv /\ FetchInv /\ req.phase = "fetch" /\ req.manifests = {}
    BY <1>1, <1>6 DEF PageInv
  <2>2. Wanted' = Wanted
    BY <1>1, <1>4 DEF Wanted, PageFilter, QueryDims
  <2>3. FetchInv'
    BY <1>3, <1>4, <2>1, <2>2 DEF FetchInv
  <2>4. ShownInv'
    BY <1>1, <1>4, <2>1 DEF ShownInv
  <2> QED BY <2>1, <2>3, <2>4, <1>3, <1>4 DEF ReadInv, DoneInv
<1> QED BY <1>4, <1>5, <1>6 DEF PageInv

(* Every step leaves a page as good as it was.                             *)
LEMMA PageStep ==
  ASSUME DataInv, PageInv, [Next]_vars
  PROVE  PageInv'
<1>1. CASE \E p \in Payloads, c \in Callers : Post(p, c)
  <2>1. PICK p \in Payloads, c \in Callers : Post(p, c)
    BY <1>1
  <2>2. LogGrows /\ chunks' = chunks /\ req' = req /\ \A t \in Tiers : rows[t] \subseteq rows'[t]
    BY <2>1, DataPost
  <2> QED BY <2>2, PageStore
<1>2. CASE \E S \in SUBSET AllRows : ArchiveChunk(S)
  <2>1. PICK S \in SUBSET AllRows : ArchiveChunk(S)
    BY <1>2
  <2>2. LogGrows /\ chunks \subseteq chunks' /\ req' = req /\ rows' = rows
    BY <2>1, DataArchive
  <2> QED BY <2>2, PageStore
<1>3. CASE \E c \in chunks : DeleteArchived(c)
  <2>1. PICK c \in chunks : DeleteArchived(c)
    BY <1>3
  <2>2. /\ LogGrows /\ chunks' = chunks /\ req' = req
        /\ \A t \in Tiers : rows[t] \subseteq rows'[t] \cup c.ids
    BY <2>1, DataDelete
  <2>3. \A t \in Tiers : \A i \in rows[t] : i \in rows'[t] \/ InChunk(i)
    BY <2>2 DEF InChunk
  <2> QED BY <2>2, <2>3, PageStore
<1>4. CASE RequestStep
  <2>1. ASSUME NEW k \in Kinds, NEW w \in Windows,
               NEW u \in {{}} \cup {Stored(i).attrs["user_id"] : i \in DOMAIN log},
               NEW m \in {{}} \cup {{log[i].dims["model"]} : i \in DOMAIN log},
               StartRequest(k, u, m, w)
        PROVE  PageInv'
    BY <2>1, PageStart
  <2>2. ASSUME NEW t \in Tiers, ReadEngine(t) PROVE PageInv'
    BY <2>2, PageRead
  <2>3. ASSUME ListArchives PROVE PageInv'
    BY <2>3, PageList
  <2>4. ASSUME NEW c \in chunks, Fetch(c) \/ FetchFails(c) PROVE PageInv'
    BY <2>4, PageFetch
  <2>5. ASSUME Answer PROVE PageInv'
    BY <2>5, PageAnswer
  <2> QED BY <1>4, <2>1, <2>2, <2>3, <2>4, <2>5 DEF RequestStep
<1>5. CASE UNCHANGED <<storeVars, req>>
  <2>1. LogGrows /\ req' = req /\ chunks' = chunks /\ rows' = rows
    BY <1>5, DataFrame DEF storeVars
  <2> QED BY <2>1, PageStore
<1> QED BY <1>1, <1>2, <1>3, <1>4, <1>5, StepCases

(* A page with include_archived that is not full misses nothing that was   *)
(* there when the request began, although the archiver moves events        *)
(* between the reads, and shows nothing that was not asked for.            *)
THEOREM PagesAreComplete == Spec => []MergedComplete
<1>1. Init => PageInv
  BY DEF Init, PageInv
<1>2. DataInv /\ PageInv /\ [Next]_vars => PageInv'
  BY PageStep
<1>3. ASSUME DataInv, PageInv PROVE MergedComplete
  <2> SUFFICES ASSUME req.phase = "done", req.kind = "events"
               PROVE  /\ \/ req.failed
                         \/ Cardinality(req.live) + Cardinality(req.archived) >= PageLimit
                         \/ Wanted \subseteq req.live \cup req.archived
                      /\ ShownInv
    BY DEF MergedComplete, Wanted, PageFilter, ShownInv
  <2>1. RequestInv /\ ShownInv /\ FetchInv /\ DoneInv
    BY <1>3 DEF PageInv
  <2>2. IsFiniteSet(req.live) /\ IsFiniteSet(req.archived)
    <3>1. 0 \in Nat /\ LogInv
      BY <1>3 DEF DataInv
    <3> QED BY <2>1, <3>1, NewestAll DEF RequestInv
  <2>3. Cardinality(req.live) \in Nat /\ Cardinality(req.archived) \in Nat /\ PageLimit \in Nat
    BY <2>2, FS_CardinalityType, EventDataAssumption
  <2>4. CASE Cardinality(req.live) >= PageLimit
    BY <2>1, <2>3, <2>4
  <2>5. CASE ~(Cardinality(req.live) >= PageLimit)
    BY <2>1, <2>5 DEF FetchInv, DoneInv
  <2> QED BY <2>4, <2>5
<1> QED BY <1>1, <1>2, <1>3, DataInvariant, PTL DEF Spec

-----------------------------------------------------------------------------
(* Prices *)

(* Only the refresh loop replaces the catalogue.                           *)
LEMMA CatalogSteps ==
  ASSUME [Next]_vars
  PROVE  PricingNext \/ UNCHANGED catalog
BY DEF Next, vars, Post, ArchiveChunk, DeleteArchived, StartRequest, ReadEngine, ListArchives,
       Fetch, FetchFails, Answer

(* The catalogue is always an index of its file.                           *)
LEMMA CatalogInvariant == Spec => []CatalogInv
<1>1. Init => CatalogInv
  BY CatalogInit DEF Init
<1>2. CatalogInv /\ [Next]_vars => CatalogInv'
  BY CatalogSteps, CatalogStep
<1> QED BY <1>1, <1>2, PTL DEF Spec

(* A model with an entry of its own is priced by that entry, whatever the  *)
(* file and the order in which it was loaded.                              *)
THEOREM OwnPricesWin == Spec => []OwnPriceWins
BY OwnPrice, CatalogInvariant, PTL

(* Every variant of every usable entry has a price, in every catalogue     *)
(* that is ever served.                                                    *)
THEOREM VariantsArePriced == Spec => []VariantsPriced
BY Variants, CatalogInvariant, PTL

(* A refresh that brings the same file back changes no price of a name     *)
(* with one source, whatever the order of the two loads.                   *)
THEOREM RefreshesKeepPrices == Spec => RefreshKeepsPrice
<1>1. CatalogInv /\ CatalogInv' /\ [Next]_vars =>
        [catalog'.file = catalog.file =>
           \A n \in DOMAIN catalog.index \cup DOMAIN catalog'.index :
             Cardinality(Sources(catalog.file, n)) = 1 =>
               lookup(catalog'.index, n) = lookup(catalog.index, n)]_catalog
  BY RefreshPrices
<1> QED BY <1>1, CatalogInvariant, PTL DEF Spec, RefreshKeepsPrice

(* The counts of an event, and those of one that is accepted: the limit of *)
(* validate_tokens is on all of them.                                      *)
LEMMA UsageCounts ==
  ASSUME NEW p \in Payloads, NEW f \in UsageFields
  PROVE  /\ usage_from_ingest(p)[f] \in Nat
         /\ validate_tokens(p) => usage_from_ingest(p)[f] <= MaxTokens
<1> DEFINE given == Unwrap(Field(p, "usage"), <<>>)
<1>1. \A x \in DOMAIN given : given[x] \in Nat
  <2>1. CASE Field(p, "usage") = {}
    <3>1. given = <<>>
      BY <2>1 DEF Unwrap
    <3> QED BY <3>1
  <2>2. CASE Field(p, "usage") # {}
    <3>1. given \in Field(p, "usage")
      BY <2>2 DEF Unwrap
    <3> QED BY <3>1, EventDataAssumption
  <2> QED BY <2>1, <2>2
<1>2. usage_from_ingest(p)[f] =
        IF f \in IngestUsageFields THEN Unwrap(Field(given, f), 0) ELSE 0
  BY DEF usage_from_ingest
<1>3. validate_tokens(p) => \A x \in IngestUsageFields \cap DOMAIN given : given[x] <= MaxTokens
  BY DEF validate_tokens
<1> HIDE DEF given
<1>4. Unwrap(Field(given, f), 0) = IF f \in DOMAIN given THEN given[f] ELSE 0
  BY UnwrapOne DEF Field
<1> QED BY <1>1, <1>2, <1>3, <1>4, EventDataAssumption

(* What a step that accepts an event adds to the history.                  *)
LEMMA NewEvent ==
  ASSUME LogInv, [Next]_vars, NEW i \in DOMAIN built' \ DOMAIN built
  PROVE  \E p \in Payloads, c \in Callers : Accepted(p, c) /\ built'[i] = process_event(p, c, i)
<1>1. CASE \E p \in Payloads, c \in Callers : Post(p, c)
  <2>1. PICK p \in Payloads, c \in Callers : Post(p, c)
    BY <1>1
  <2> DEFINE n == Len(built) + 1
             e == process_event(p, c, n)
  <2>2. Accepted(p, c) /\ built' = Append(built, e)
    BY <2>1 DEF Post
  <2>3. PICK S : built \in Seq(S)
    BY DEF LogInv
  <2> HIDE DEF e
  <2>4. DOMAIN built' = DOMAIN built \cup {n} /\ built'[n] = e
    BY <2>2, <2>3, Appended
  <2> QED BY <2>2, <2>4 DEF e
<1>2. CASE UNCHANGED built
  BY <1>2
<1> QED
  BY <1>1, <1>2, StepCases, RequestReads DEF ArchiveChunk, DeleteArchived, storeVars

(* An event the server prices with one price for input and one for output  *)
(* is billed for every token once, whatever the bodies, the catalogue and  *)
(* the options.                                                            *)
THEOREM TokensAreBilledOnce == Spec => BilledOnce
<1> DEFINE Once(i, k) ==
      LET p == PricingOf(catalog.file, k)
          u == built'[i].usage
          v == built'[i].provider.kind
      IN (/\ \A r \in Rates \ {"input", "output"} : p[r] = {}
          /\ v \in CacheExclusive \/ u["cache_read"] <= u["input"]) =>
           \A opts \in CostOpts :
             compute_cost(v, p, u, opts) =
               SaturatedNanos(
                 Unwrap(p["input"], 0) * total_billable_input_tokens(v, u)
                   + Unwrap(p["output"], 0) * total_output_tokens(u))
<1>1. ASSUME DataInv, CatalogInv, [Next]_vars,
             NEW i \in DOMAIN built' \ DOMAIN built, NEW k \in lookup(catalog.index, built'[i].model)
      PROVE  Once(i, k)
  <2> DEFINE pr == PricingOf(catalog.file, k)
             u == built'[i].usage
             v == built'[i].provider.kind
  <2> SUFFICES ASSUME \A r \in Rates \ {"input", "output"} : pr[r] = {},
                      v \in CacheExclusive \/ u["cache_read"] <= u["input"],
                      NEW opts \in CostOpts
               PROVE  compute_cost(v, pr, u, opts) =
                        SaturatedNanos(
                          Unwrap(pr["input"], 0) * total_billable_input_tokens(v, u)
                            + Unwrap(pr["output"], 0) * total_output_tokens(u))
    OBVIOUS
  <2>1. PICK p \in Payloads, c \in Callers : Accepted(p, c) /\ built'[i] = process_event(p, c, i)
    BY <1>1, NewEvent DEF DataInv
  <2>2. u = usage_from_ingest(p) /\ validate_tokens(p)
    <3>1. process_event(p, c, i).usage = usage_from_ingest(p)
      BY DEF process_event
    <3>2. validate_tokens(p)
      BY <2>1, Zenon DEF Accepted, validate
    <3> QED BY <2>1, <3>1, <3>2, Zenon
  <2>3. \A f \in UsageFields : u[f] \in Nat /\ u[f] <= MaxTokens
    BY <2>2, UsageCounts
  <2>4. PICK in \in Nat, out \in Nat : pr["input"] = {in} /\ pr["output"] = {out}
    <3>1. catalog.file \in DOMAIN Files /\ k \in Usable(catalog.file)
      BY <1>1, LookupUsable
    <3> QED BY <3>1, RatesNat
  <2> HIDE DEF u, v, pr
  <2>5. /\ u["input"] + u["cache_creation"] + u["cache_read"] <= MaxCount
        /\ u["output"] + u["reasoning"] <= MaxCount
    <3>1. /\ u["input"] \in Nat /\ u["cache_creation"] \in Nat /\ u["cache_read"] \in Nat
          /\ u["output"] \in Nat /\ u["reasoning"] \in Nat
          /\ u["input"] <= MaxTokens /\ u["cache_creation"] <= MaxTokens
          /\ u["cache_read"] <= MaxTokens /\ u["output"] <= MaxTokens
          /\ u["reasoning"] <= MaxTokens
      BY <2>3 DEF UsageFields
    <3> QED BY <3>1, EventDataAssumption, PricingAssumption
  <2>6. compute_cost(v, pr, u, opts) =
          SaturatedNanos(in * total_billable_input_tokens(v, u) + out * total_output_tokens(u))
    BY <2>3, <2>4, <2>5, FlatBill
  <2>7. Unwrap(pr["input"], 0) = in /\ Unwrap(pr["output"], 0) = out
    BY <2>4, UnwrapOne
  <2> QED BY <2>6, <2>7
<1>2. DataInv /\ CatalogInv /\ [Next]_vars =>
        [\A i \in DOMAIN built' \ DOMAIN built : \A k \in lookup(catalog.index, built'[i].model) :
           Once(i, k)]_built
  <2> HIDE DEF Once
  <2> QED BY <1>1
<1> QED BY <1>2, DataInvariant, CatalogInvariant, PTL DEF Spec, BilledOnce

-----------------------------------------------------------------------------
(* Saturating sums *)

(* What Saturate does to an amount that is not negative.                   *)
LEMMA SaturateCuts ==
  ASSUME NEW f, NEW n \in Nat
  PROVE  /\ Saturate(f, n) = IF f = "cost" /\ n > MaxNanos THEN MaxNanos ELSE n
         /\ Saturate(f, n) \in Nat /\ Saturate(f, n) <= n
BY NanosCut, PricingAssumption DEF Saturate

(* It respects the order.                                                  *)
LEMMA SaturateMonotone ==
  ASSUME NEW f, NEW m \in Nat, NEW n \in Nat, m <= n
  PROVE  Saturate(f, m) <= Saturate(f, n)
BY SaturateCuts, PricingAssumption

(* Sums may be cut off on the way or at the end.                           *)
LEMMA SaturateParts ==
  ASSUME NEW f, NEW m \in Nat, NEW n \in Nat
  PROVE  /\ Saturate(f, Saturate(f, m) + Saturate(f, n)) = Saturate(f, m + n)
         /\ Saturate(f, m + n) = Saturate(f, m + Saturate(f, n))
<1>1. /\ Saturate(f, m) \in Nat /\ Saturate(f, n) \in Nat
      /\ Saturate(f, m) + Saturate(f, n) \in Nat /\ m + n \in Nat /\ m + Saturate(f, n) \in Nat
  BY SaturateCuts
<1>2. CASE f # "cost"
  <2>1. \A x \in Nat : Saturate(f, x) = x
    BY <1>2, SaturateCuts
  <2> QED BY <1>1, <2>1
<1>3. CASE f = "cost"
  <2>1. \A x \in Nat : Saturate(f, x) = IF x > MaxNanos THEN MaxNanos ELSE x
    BY <1>3, SaturateCuts
  <2> QED BY <1>1, <2>1, PricingAssumption
<1> QED BY <1>2, <1>3

-----------------------------------------------------------------------------
(* Tallies: sums over rows of the log, by group *)

(* What the rows S add up to in field f, before saturation.                *)
RowSums(f) == [i \in DOMAIN log |-> RowSum(log[i], f)]
Total(f, S) == SumFunctionOnSet(RowSums(f), S)

(* The rows of S in group k.                                               *)
Group(S, keyOf, k) == {i \in S : keyOf[i] = k}

(* The sums are those of the rows S, each counted once in its group.       *)
Tallies(sums, S, keyOf) ==
  /\ DOMAIN sums = {keyOf[i] : i \in S}
  /\ \A k \in DOMAIN sums : \A f \in SumFields :
       sums[k][f] = Saturate(f, Total(f, Group(S, keyOf, k)))

(* No row takes anything away.                                             *)
Countable == \A i \in DOMAIN log : \A f \in SumFields : RowSum(log[i], f) \in Nat

(* Rows of the log are finitely many and their totals are naturals.        *)
LEMMA TotalNat ==
  ASSUME LogInv, Countable, NEW S \in SUBSET DOMAIN log, NEW f \in SumFields
  PROVE  IsFiniteSet(S) /\ Total(f, S) \in Nat /\ \A i \in S : RowSums(f)[i] \in Nat
<1>1. IsFiniteSet(S)
  <2>1. IsFiniteSet(1 .. Len(built)) /\ S \in SUBSET (1 .. Len(built))
    BY LogReads, FS_Interval
  <2> QED BY <2>1, FS_Subset
<1>2. \A i \in S : RowSums(f)[i] \in Nat
  BY DEF RowSums, Countable
<1> QED BY <1>1, <1>2, SumNat DEF Total

(* More rows, more in total.                                               *)
LEMMA TotalMonotone ==
  ASSUME LogInv, Countable, NEW A, NEW B \in SUBSET DOMAIN log, A \subseteq B, NEW f \in SumFields
  PROVE  Total(f, A) <= Total(f, B)
BY TotalNat, SumMonotone DEF Total

(* The total of two sets of rows that share none.                          *)
LEMMA TotalUnion ==
  ASSUME LogInv, Countable, NEW A \in SUBSET DOMAIN log, NEW B \in SUBSET DOMAIN log,
         A \cap B = {}, NEW f \in SumFields
  PROVE  Total(f, A \cup B) = Total(f, A) + Total(f, B)
<1>1. /\ IsFiniteSet(A) /\ IsFiniteSet(B)
      /\ \A i \in A \cup B : RowSums(f)[i] \in Nat
  BY TotalNat
<1> QED BY <1>1, SumUnion DEF Total

(* No rows, nothing.                                                       *)
LEMMA TotalEmpty ==
  ASSUME NEW f
  PROVE  Total(f, {}) = 0 /\ Saturate(f, 0) = 0
<1>1. 0 \in Nat /\ ~(0 > MaxNanos)
  BY PricingAssumption
<1> QED BY <1>1, SumEmpty, SaturateCuts DEF Total

(* What the engine adds up is the total, cut off.                          *)
LEMMA SumRowsTotal ==
  ASSUME LogInv, Countable, NEW S \in SUBSET DOMAIN log, NEW f \in SumFields
  PROVE  SumRows(S)[f] = Saturate(f, Total(f, S))
<1> DEFINE g == [i \in S |-> RowSum(log[i], f)]
<1>1. SumRows(S)[f] = Saturate(f, SumFunction(g))
  BY Zenon DEF SumRows
<1>2. SumFunction(g) = SumFunctionOnSet(g, S)
  BY Zenon DEF SumFunction
<1>3. \A i \in S : g[i] = RowSums(f)[i]
  BY DEF RowSums
<1> HIDE DEF g
<1>4. SumFunctionOnSet(g, S) = SumFunctionOnSet(RowSums(f), S)
  BY <1>3, TotalNat, SumSame
<1> QED BY <1>1, <1>2, <1>4, Zenon DEF Total

(* So the groups of an engine's answer are tallies.                        *)
LEMMA GroupedTallies ==
  ASSUME LogInv, Countable, NEW S \in SUBSET DOMAIN log, NEW keyOf
  PROVE  Tallies(Grouped(S, keyOf), S, keyOf)
<1> DEFINE sums == Grouped(S, keyOf)
<1>1. /\ DOMAIN sums = {keyOf[i] : i \in S}
      /\ \A k \in DOMAIN sums : sums[k] = SumRows(Group(S, keyOf, k))
  BY Zenon DEF Grouped, Group
<1> HIDE DEF sums
<1>2. \A k : Group(S, keyOf, k) \in SUBSET DOMAIN log
  BY DEF Group
<1>3. \A k \in DOMAIN sums : \A f \in SumFields :
        sums[k][f] = Saturate(f, Total(f, Group(S, keyOf, k)))
  <2> TAKE k \in DOMAIN sums
  <2> TAKE f \in SumFields
  <2>1. SumRows(Group(S, keyOf, k))[f] = Saturate(f, Total(f, Group(S, keyOf, k)))
    BY <1>2, SumRowsTotal
  <2> QED BY <1>1, <2>1, Zenon
<1> QED BY <1>1, <1>3 DEF Tallies, sums

(* A group that is not there has no rows.                                  *)
LEMMA TalliesAt ==
  ASSUME NEW S, NEW keyOf, NEW sums, Tallies(sums, S, keyOf), NEW k, NEW f \in SumFields
  PROVE  At(sums, k)[f] = Saturate(f, Total(f, Group(S, keyOf, k)))
<1>1. CASE k \in DOMAIN sums
  BY <1>1, Zenon DEF At, Tallies
<1>2. CASE k \notin DOMAIN sums
  <2>1. Group(S, keyOf, k) = {}
    BY <1>2 DEF Group, Tallies
  <2>2. Total(f, Group(S, keyOf, k)) = Total(f, {})
    BY <2>1, Zenon
  <2>3. At(sums, k)[f] = 0
    BY <1>2 DEF At, Zero
  <2> QED BY <2>2, <2>3, TotalEmpty
<1> QED BY <1>1, <1>2

(* Tallies depend on the groups of their rows only.                        *)
LEMMA TalliesSame ==
  ASSUME NEW S, NEW keyOf, NEW other, NEW sums, Tallies(sums, S, keyOf),
         \A i \in S : other[i] = keyOf[i]
  PROVE  Tallies(sums, S, other)
<1>1. {keyOf[i] : i \in S} = {other[i] : i \in S}
  OBVIOUS
<1>2. \A k : Group(S, keyOf, k) = Group(S, other, k)
  BY DEF Group
<1>3. \A k, f : Total(f, Group(S, keyOf, k)) = Total(f, Group(S, other, k))
  BY <1>2, Zenon
<1> QED BY <1>1, <1>3 DEF Tallies

(* The merge of two engines' tallies is the tally of the rows of both.     *)
LEMMA MergedTallies ==
  ASSUME LogInv, Countable, NEW A \in SUBSET DOMAIN log, NEW B \in SUBSET DOMAIN log,
         A \cap B = {}, NEW keyOf, NEW a, NEW b, Tallies(a, A, keyOf), Tallies(b, B, keyOf)
  PROVE  Tallies(Merged(a, b), A \cup B, keyOf)
<1> DEFINE sums == Merged(a, b)
<1>1. /\ DOMAIN sums = DOMAIN a \cup DOMAIN b
      /\ \A k \in DOMAIN sums : \A f \in SumFields :
           sums[k][f] = Saturate(f, At(a, k)[f] + At(b, k)[f])
  BY Zenon DEF Merged
<1> HIDE DEF sums
<1>2. DOMAIN sums = {keyOf[i] : i \in A \cup B}
  BY <1>1 DEF Tallies
<1>3. ASSUME NEW k, NEW f \in SumFields
      PROVE  Saturate(f, At(a, k)[f] + At(b, k)[f]) =
               Saturate(f, Total(f, Group(A \cup B, keyOf, k)))
  <2> DEFINE GA == Group(A, keyOf, k)
             GB == Group(B, keyOf, k)
  <2>1. /\ GA \in SUBSET DOMAIN log /\ GB \in SUBSET DOMAIN log /\ GA \cap GB = {}
        /\ Group(A \cup B, keyOf, k) = GA \cup GB
    BY DEF Group
  <2>2. At(a, k)[f] = Saturate(f, Total(f, GA)) /\ At(b, k)[f] = Saturate(f, Total(f, GB))
    BY TalliesAt
  <2> HIDE DEF GA, GB
  <2>3. Total(f, GA \cup GB) = Total(f, GA) + Total(f, GB)
    BY <2>1, TotalUnion
  <2>4. Total(f, Group(A \cup B, keyOf, k)) = Total(f, GA) + Total(f, GB)
    BY <2>1, <2>3, Zenon
  <2>5. Total(f, GA) \in Nat /\ Total(f, GB) \in Nat
    BY <2>1, TotalNat
  <2>6. Saturate(f, Saturate(f, Total(f, GA)) + Saturate(f, Total(f, GB))) =
          Saturate(f, Total(f, GA) + Total(f, GB))
    BY <2>5, SaturateParts
  <2> QED BY <2>2, <2>4, <2>6, Zenon
<1> QED BY <1>1, <1>2, <1>3 DEF Tallies, sums

(* A tally of the rows T is between those of less and of more rows.        *)
LEMMA TalliesBetween ==
  ASSUME LogInv, Countable, NEW A, NEW T, NEW C \in SUBSET DOMAIN log,
         A \subseteq T, T \subseteq C, NEW keyOf, NEW sums, Tallies(sums, T, keyOf)
  PROVE  Between(sums, A, C, keyOf)
<1>1. A \in SUBSET DOMAIN log /\ T \in SUBSET DOMAIN log
  OBVIOUS
<1>2. Tallies(Grouped(A, keyOf), A, keyOf) /\ Tallies(Grouped(C, keyOf), C, keyOf)
  BY <1>1, GroupedTallies
<1>3. ASSUME NEW k, NEW f \in SumFields
      PROVE  /\ At(Grouped(A, keyOf), k)[f] <= At(sums, k)[f]
             /\ At(sums, k)[f] <= At(Grouped(C, keyOf), k)[f]
  <2> DEFINE GA == Group(A, keyOf, k)
             GT == Group(T, keyOf, k)
             GC == Group(C, keyOf, k)
  <2>1. /\ GA \in SUBSET DOMAIN log /\ GT \in SUBSET DOMAIN log /\ GC \in SUBSET DOMAIN log
        /\ GA \subseteq GT /\ GT \subseteq GC
    BY <1>1 DEF Group
  <2>2. /\ At(Grouped(A, keyOf), k)[f] = Saturate(f, Total(f, GA))
        /\ At(sums, k)[f] = Saturate(f, Total(f, GT))
        /\ At(Grouped(C, keyOf), k)[f] = Saturate(f, Total(f, GC))
    BY <1>2, TalliesAt
  <2> HIDE DEF GA, GT, GC
  <2>3. Total(f, GA) <= Total(f, GT) /\ Total(f, GT) <= Total(f, GC)
    BY <2>1, TotalMonotone
  <2>4. Total(f, GA) \in Nat /\ Total(f, GT) \in Nat /\ Total(f, GC) \in Nat
    BY <2>1, TotalNat
  <2> QED BY <2>2, <2>3, <2>4, SaturateMonotone
<1> QED BY <1>3, Zenon DEF Between

(* The groups K of a tally add up to the total of their rows, wherever the *)
(* sums were cut off.                                                      *)
LEMMA GroupsAddUp ==
  ASSUME LogInv, Countable, NEW S \in SUBSET DOMAIN log, NEW keyOf, NEW f \in SumFields,
         NEW K, IsFiniteSet(K), NEW g,
         \A k \in K : g[k] = Saturate(f, Total(f, Group(S, keyOf, k)))
  PROVE  Saturate(f, SumFunctionOnSet(g, K)) =
           Saturate(f, Total(f, {i \in S : keyOf[i] \in K}))
<1> DEFINE Rows(V) == {i \in S : keyOf[i] \in V}
           Good(V) == Saturate(f, SumFunctionOnSet(g, V)) = Saturate(f, Total(f, Rows(V)))
           T == {V \in SUBSET K : ~Good(V)}
<1>1. \A V : Rows(V) \in SUBSET DOMAIN log
  OBVIOUS
<1>2. \A k \in K : g[k] \in Nat
  <2> TAKE k \in K
  <2>1. Group(S, keyOf, k) \in SUBSET DOMAIN log
    BY DEF Group
  <2>2. Total(f, Group(S, keyOf, k)) \in Nat
    BY <2>1, TotalNat
  <2> QED BY <2>2, SaturateCuts
<1>3. K \in SUBSET K
  OBVIOUS
<1> SUFFICES ASSUME ~Good(K) PROVE FALSE
  BY Zenon
<1>4. T \in SUBSET (SUBSET K) /\ T # {}
  <2> HIDE DEF Good
  <2> QED BY <1>3
<1>5. PICK V \in T : \A W \in T : W \subseteq V => W = V
  <2> HIDE DEF T
  <2> QED BY <1>4, LeastSubset
<1> HIDE DEF Rows
<1>6. V \in SUBSET K /\ ~Good(V) /\ IsFiniteSet(V)
  <2>1. V \in SUBSET K /\ ~Good(V)
    <3> HIDE DEF Good
    <3> QED OBVIOUS
  <2> QED BY <2>1, FS_Subset
<1>7. V # {}
  <2> SUFFICES ASSUME V = {} PROVE Good(V)
    BY <1>6
  <2>1. Rows({}) = {}
    BY DEF Rows
  <2>2. SumFunctionOnSet(g, {}) = 0 /\ Total(f, {}) = 0
    BY SumEmpty, TotalEmpty
  <2>3. Total(f, Rows({})) = 0
    BY <2>1, <2>2, Zenon
  <2>4. Good({})
    BY <2>2, <2>3, Zenon
  <2> HIDE DEF Good
  <2> QED BY <2>4, Zenon
<1>8. PICK a : a \in V
  BY <1>7
<1> DEFINE W == V \ {a}
<1>9. W \in SUBSET K /\ IsFiniteSet(W) /\ W # V /\ W \subseteq V
  <2>1. W \in SUBSET V
    OBVIOUS
  <2>2. IsFiniteSet(W)
    <3> HIDE DEF W
    <3> QED BY <2>1, <1>6, FS_Subset
  <2> QED BY <2>2, <1>6, <1>8
<1>10. Good(W)
  <2> HIDE DEF Good, W
  <2> QED BY <1>5, <1>9
<1>11. SumFunctionOnSet(g, V) = g[a] + SumFunctionOnSet(g, W)
  <2>1. \A k \in V : g[k] \in Nat
    BY <1>2, <1>6
  <2> QED BY <2>1, <1>6, <1>8, SumRemove
<1> DEFINE G == Group(S, keyOf, a)
<1>12. /\ G \in SUBSET DOMAIN log /\ Rows(W) \in SUBSET DOMAIN log
       /\ G \cap Rows(W) = {} /\ Rows(V) = G \cup Rows(W)
  BY <1>1, <1>8 DEF Rows, Group
<1> HIDE DEF G, W
<1>13. Total(f, G \cup Rows(W)) = Total(f, G) + Total(f, Rows(W))
  BY <1>12, TotalUnion
<1>14. Total(f, Rows(V)) = Total(f, G) + Total(f, Rows(W))
  BY <1>12, <1>13, Zenon
<1>15. /\ Total(f, G) \in Nat /\ Total(f, Rows(W)) \in Nat
       /\ SumFunctionOnSet(g, W) \in Nat /\ g[a] \in Nat
  <2>1. \A k \in W : g[k] \in Nat
    BY <1>2, <1>9
  <2> QED BY <1>2, <1>6, <1>8, <1>9, <1>12, <2>1, TotalNat, SumNat
<1>16. g[a] = Saturate(f, Total(f, G))
  BY <1>6, <1>8 DEF G
<1>17. Saturate(f, SumFunctionOnSet(g, V)) = Saturate(f, Total(f, Rows(V)))
  <2>1. Saturate(f, g[a] + SumFunctionOnSet(g, W)) =
          Saturate(f, g[a] + Saturate(f, SumFunctionOnSet(g, W)))
    BY <1>15, SaturateParts
  <2>2. Saturate(f, SumFunctionOnSet(g, W)) = Saturate(f, Total(f, Rows(W)))
    BY <1>10
  <2>3. Saturate(f, Saturate(f, Total(f, G)) + Saturate(f, Total(f, Rows(W)))) =
          Saturate(f, Total(f, G) + Total(f, Rows(W)))
    BY <1>15, SaturateParts
  <2> QED BY <1>11, <1>14, <1>16, <2>1, <2>2, <2>3, Zenon
<1> QED BY <1>6, <1>17

(* The rows of one provider, if the request says so.                       *)
OfProvider(S, provider) == {i \in S : \A p \in provider : log[i].dims["provider"] = p}

(* The statistics group of each row.                                       *)
StatsKeys(by_model) == [i \in DOMAIN log |-> StatsKey(RollupKeys[i], by_model)]

(* Statistics made of rollups are tallies of the same rows: what            *)
(* aggregate_stats adds up was cut off before, and that makes no            *)
(* difference.                                                             *)
LEMMA StatsTallies ==
  ASSUME LogInv, Countable, NEW S \in SUBSET DOMAIN log, NEW sums, Tallies(sums, S, RollupKeys),
         NEW provider, NEW by_model
  PROVE  Tallies(aggregate_stats(sums, provider, by_model), OfProvider(S, provider),
                 StatsKeys(by_model))
<1> DEFINE counted == {k \in DOMAIN sums : \A p \in provider : k.provider = p}
           K(g) == {k \in counted : StatsKey(k, by_model) = g}
           stats == aggregate_stats(sums, provider, by_model)
           keyOf == RollupKeys
           O == OfProvider(S, provider)
           R(g) == {i \in S : keyOf[i] \in K(g)}
           row(f) == [k \in counted |-> sums[k][f]]
<1>1. /\ DOMAIN stats = {StatsKey(k, by_model) : k \in counted}
      /\ \A g \in DOMAIN stats : \A f \in SumFields :
           stats[g][f] = Saturate(f, SumFunctionOnSet(row(f), K(g)))
  BY Zenon DEF aggregate_stats
<1>2. \A i \in DOMAIN log : keyOf[i].provider = log[i].dims["provider"]
  BY DEF RollupKeys, RollupKey
<1>3. DOMAIN sums = {keyOf[i] : i \in S}
  BY DEF Tallies
<1>4. \A i \in S : keyOf[i] \in counted <=> i \in O
  <2> HIDE DEF keyOf
  <2> QED BY <1>2, <1>3 DEF OfProvider
<1>5. O \in SUBSET S /\ counted \in SUBSET DOMAIN sums
  BY DEF OfProvider
<1> HIDE DEF stats, keyOf, O
<1>6. {StatsKey(k, by_model) : k \in counted} = {StatsKey(keyOf[i], by_model) : i \in O}
  BY <1>3, <1>4, <1>5
<1>7. \A i \in O : StatsKeys(by_model)[i] = StatsKey(keyOf[i], by_model)
  BY <1>5 DEF StatsKeys, keyOf
<1>8. DOMAIN stats = {StatsKeys(by_model)[i] : i \in O}
  BY <1>1, <1>6, <1>7
<1>9. ASSUME NEW g PROVE R(g) = Group(O, StatsKeys(by_model), g)
  <2>1. \A i \in S : keyOf[i] \in K(g) <=> i \in O /\ StatsKey(keyOf[i], by_model) = g
    <3> HIDE DEF counted
    <3> QED BY <1>4
  <2> HIDE DEF K
  <2> QED BY <2>1, <1>5, <1>7 DEF Group
<1>10. IsFiniteSet(DOMAIN sums)
  <2> DEFINE D == DOMAIN sums
             h == [i \in S |-> keyOf[i]]
  <2>1. h \in Surjection(S, D)
    BY <1>3 DEF Surjection
  <2>2. IsFiniteSet(S)
    <3>1. "events" \in SumFields
      BY DEF SumFields
    <3> QED BY <3>1, TotalNat
  <2> HIDE DEF h, D
  <2>3. IsFiniteSet(D)
    BY <2>1, <2>2, FS_Surjection
  <2> QED BY <2>3 DEF D
<1>11. ASSUME NEW g, NEW f \in SumFields
       PROVE  Saturate(f, SumFunctionOnSet(row(f), K(g))) =
                Saturate(f, Total(f, Group(O, StatsKeys(by_model), g)))
  <2>1. K(g) \in SUBSET counted
    OBVIOUS
  <2>2. \A k \in counted : row(f)[k] = sums[k][f]
    BY Zenon
  <2>3. \A k \in DOMAIN sums : sums[k][f] = Saturate(f, Total(f, Group(S, keyOf, k)))
    BY DEF Tallies, keyOf
  <2> HIDE DEF counted, K, row
  <2>4. IsFiniteSet(K(g))
    BY <1>5, <1>10, <2>1, FS_Subset
  <2>5. \A k \in K(g) : row(f)[k] = Saturate(f, Total(f, Group(S, keyOf, k)))
    BY <1>5, <2>1, <2>2, <2>3
  <2>6. Saturate(f, SumFunctionOnSet(row(f), K(g))) = Saturate(f, Total(f, R(g)))
    BY <2>4, <2>5, GroupsAddUp
  <2>7. Total(f, R(g)) = Total(f, Group(O, StatsKeys(by_model), g))
    <3>1. R(g) = Group(O, StatsKeys(by_model), g)
      BY <1>9 DEF K
    <3> HIDE DEF R
    <3> QED BY <3>1, Zenon
  <2> QED BY <2>6, <2>7, Zenon
<1> QED BY <1>1, <1>8, <1>11, Zenon DEF Tallies, stats, O

-----------------------------------------------------------------------------
(* What the rows of the store can be counted for *)

(* An engine holds events of its own tier alone.                           *)
TiersInv == \A t \in Tiers : \A i \in rows[t] : built[i].tier = t

CountInv == Countable /\ TiersInv

(* What an event is charged is not negative: a cost from outside is        *)
(* validated, one from the catalogue is a sum of prices.                   *)
LEMMA ChargeNat ==
  ASSUME CatalogInv, NEW p \in Payloads, NEW c \in Callers, Accepted(p, c), NEW id
  PROVE  process_event(p, c, id).cost \in Nat
<1> DEFINE provider == normalize_provider(p.provider)
           model == normalize_model(p.model)
           usage == usage_from_ingest(p)
           found == lookup(catalog.index, model)
<1>1. process_event(p, c, id).cost = Unwrap(Field(p, "cost"), PriceOf(provider, model, usage))
  BY DEF process_event
<1>2. Field(p, "cost") \in SUBSET Nat
  <2>1. \A cost \in Field(p, "cost") : cost >= 0 /\ cost <= MaxCost
    BY Zenon DEF Accepted, validate
  <2>2. Field(p, "cost") \subseteq Int
    BY EventDataAssumption
  <2> QED BY <2>1, <2>2
<1>3. \A f \in UsageFields : usage[f] \in Nat
  BY UsageCounts
<1> HIDE DEF provider, model, usage
<1>4. PriceOf(provider, model, usage) \in Nat
  <2>1. CASE found = {}
    <3>1. PriceOf(provider, model, usage) = 0
      BY <2>1, Zenon DEF PriceOf
    <3> QED BY <3>1
  <2>2. CASE found # {}
    <3> DEFINE k == Unwrap(found, <<>>)
    <3>1. k \in found
      BY <2>2 DEF Unwrap
    <3>2. PriceOf(provider, model, usage) =
            compute_cost(provider.kind, PricingOf(catalog.file, k), usage, DefaultOpts)
      BY <2>2, Zenon DEF PriceOf
    <3> HIDE DEF k
    <3>3. catalog.file \in DOMAIN Files /\ k \in Usable(catalog.file)
      BY <3>1, LookupUsable
    <3>4. \A r \in Rates : PricingOf(catalog.file, k)[r] \in SUBSET Nat
      BY <3>3, RatesNat
    <3> QED BY <3>2, <3>4, <1>3, CostNat
  <2> QED BY <2>1, <2>2
<1> QED BY <1>1, <1>2, <1>4, UnwrapNat

(* The row of an accepted event adds nothing negative to any sum.          *)
LEMMA RowCountable ==
  ASSUME CatalogInv, NEW p \in Payloads, NEW c \in Callers, Accepted(p, c), NEW id,
         NEW f \in SumFields
  PROVE  RowSum(to_log_event(process_event(p, c, id)), f) \in Nat
<1> DEFINE e == process_event(p, c, id)
           r == to_log_event(e)
<1>1. e.cost \in Nat
  BY ChargeNat
<1>2. WellFormed(e)
  BY BuiltWellFormed
<1>3. \A x \in UsageFields : e.usage[x] \in Nat
  <2>1. process_event(p, c, id).usage = usage_from_ingest(p)
    BY DEF process_event
  <2>2. \A x \in UsageFields : usage_from_ingest(p)[x] \in Nat
    BY UsageCounts
  <2> QED BY <2>1, <2>2, Zenon
<1> HIDE DEF e
<1>4. r.metric \in Nat /\ \A x \in UsageFields : r.counters[x] \in Nat
  BY <1>1, <1>2, <1>3, RowOf
<1>5. r.counters["is_error"] \in Nat
  <2>1. r.counters["is_error"] = Cardinality(e.error)
    BY DEF to_log_event, Counters
  <2>2. Optional(e.error)
    BY <1>2 DEF WellFormed
  <2>3. IsFiniteSet(e.error)
    <3>1. \A v : IsFiniteSet({v})
      BY FS_Singleton
    <3>2. CASE e.error = {}
      BY <3>2, FS_EmptySet, Zenon
    <3>3. ASSUME NEW v, e.error = {v} PROVE IsFiniteSet(e.error)
      BY <3>1, <3>3, Zenon
    <3> QED BY <2>2, <3>2, <3>3, OptionalCases
  <2> QED BY <2>1, <2>3, FS_CardinalityType
<1> HIDE DEF r
<1>6. RowSum(r, f) \in Nat
  BY <1>4, <1>5 DEF RowSum, SumFields, UsageFields
<1> QED BY <1>6 DEF r, e

(* A new event is a row of its tier; no other row comes into an engine.    *)
LEMMA RowsArrive ==
  ASSUME DataInv, [Next]_vars, NEW t \in Tiers, NEW i \in rows'[t]
  PROVE  /\ i \in rows[t] \/ (i \notin DOMAIN log /\ built'[i].tier = t)
<1>1. CASE \E p \in Payloads, c \in Callers : Post(p, c)
  <2>1. PICK p \in Payloads, c \in Callers : Post(p, c)
    BY <1>1
  <2> DEFINE n == Len(built) + 1
             e == process_event(p, c, n)
  <2>2. built' = Append(built, e) /\ rows' = [rows EXCEPT ![e.tier] = @ \cup {e.id}]
    BY <2>1 DEF Post
  <2>3. e.id = n /\ e.tier \in Tiers
    BY EventDataAssumption DEF process_event
  <2>4. PICK S : built \in Seq(S)
    BY DEF DataInv, LogInv
  <2> HIDE DEF e
  <2>5. built'[n] = e /\ n \notin DOMAIN log
    <3>1. built'[n] = e /\ \A j \in DOMAIN built : j # n
      BY <2>2, <2>4, Appended
    <3> QED BY <3>1, LogReads DEF DataInv
  <2>6. rows'[t] = rows[t] \cup (IF t = e.tier THEN {n} ELSE {})
    BY <2>2, <2>3 DEF DataInv, RowsInv
  <2> HIDE DEF n
  <2> QED BY <2>5, <2>6
<1>2. CASE \E S \in SUBSET AllRows : ArchiveChunk(S)
  BY <1>2 DEF ArchiveChunk
<1>3. CASE \E c \in chunks : DeleteArchived(c)
  BY <1>3 DEF DeleteArchived
<1>4. CASE RequestStep
  BY <1>4, RequestReads DEF storeVars
<1>5. CASE UNCHANGED <<storeVars, req>>
  BY <1>5 DEF storeVars
<1> QED BY <1>1, <1>2, <1>3, <1>4, <1>5, StepCases

(* What is in the log stays there, whatever the step.                      *)
LEMMA LogSteps ==
  ASSUME DataInv, [Next]_vars
  PROVE  LogGrows
<1>1. CASE \E p \in Payloads, c \in Callers : Post(p, c)
  BY <1>1, DataPost
<1>2. CASE \E S \in SUBSET AllRows : ArchiveChunk(S)
  BY <1>2, DataArchive
<1>3. CASE \E c \in chunks : DeleteArchived(c)
  BY <1>3, DataDelete
<1>4. CASE RequestStep
  BY <1>4, RequestReads, DataFrame
<1>5. CASE UNCHANGED <<storeVars, req>>
  BY <1>5, DataFrame
<1> QED BY <1>1, <1>2, <1>3, <1>4, <1>5, StepCases

(* Every step keeps the rows countable and in their tiers.                 *)
LEMMA CountStep ==
  ASSUME DataInv, CatalogInv, CountInv, [Next]_vars
  PROVE  CountInv'
<1>1. DataInv' /\ LogGrows
  BY DataStep, LogSteps
<1>2. ASSUME NEW i \in DOMAIN log', NEW f \in SumFields
      PROVE  RowSum(log'[i], f) \in Nat
  <2>1. CASE i \in DOMAIN log
    <3>1. log'[i] = log[i]
      BY <1>1, <2>1 DEF LogGrows
    <3>2. RowSum(log[i], f) \in Nat
      BY <2>1 DEF CountInv, Countable
    <3> QED BY <3>1, <3>2
  <2>2. CASE i \notin DOMAIN log
    <3>1. i \in DOMAIN built' \ DOMAIN built /\ log'[i] = to_log_event(built'[i])
      BY <1>1, <1>2, <2>2, LogReads DEF DataInv, LogInv
    <3>2. PICK p \in Payloads, c \in Callers :
            Accepted(p, c) /\ built'[i] = process_event(p, c, i)
      BY <3>1, NewEvent DEF DataInv
    <3>3. RowSum(to_log_event(process_event(p, c, i)), f) \in Nat
      BY <3>2, RowCountable
    <3> QED BY <3>1, <3>2, <3>3, Zenon
  <2> QED BY <2>1, <2>2
<1>3. ASSUME NEW t \in Tiers, NEW i \in rows'[t] PROVE built'[i].tier = t
  <2>1. CASE i \in rows[t]
    <3>1. i \in DOMAIN log /\ built[i].tier = t
      BY <2>1 DEF CountInv, TiersInv, DataInv, RowsInv
    <3> QED BY <3>1, <1>1 DEF LogGrows
  <2> QED BY <2>1, RowsArrive
<1> QED BY <1>2, <1>3 DEF CountInv, Countable, TiersInv

(* Rows are always countable and in their tiers.                           *)
LEMMA CountInvariant == Spec => []CountInv
<1>1. Init => CountInv
  BY DEF Init, CountInv, Countable, TiersInv
<1>2. DataInv /\ CatalogInv /\ CountInv /\ [Next]_vars => CountInv'
  BY CountStep
<1> QED BY <1>1, <1>2, DataInvariant, CatalogInvariant, PTL DEF Spec

-----------------------------------------------------------------------------
(* Quotas, rollups and statistics *)

(* The sums of a request are the tally of rows S, all of them in its scope *)
(* and of engines it has read; of these engines, a row in scope that was   *)
(* there when it began and still is is among them.                         *)
Counts(S) ==
  /\ Tallies(req.sums, S, GroupOf)
  /\ \A i \in S : InScope(i) /\ built[i].tier \notin req.left
  /\ \A i \in req.counted \cap AllRows : InScope(i) /\ built[i].tier \notin req.left => i \in S

SumInv ==
  req.phase # "idle" /\ req.kind # "events" =>
    /\ req.phase # "fetch"
    /\ req.model = {}
    /\ req.counted \subseteq DOMAIN log
    /\ req.phase = "done" => req.left = {}
    /\ \E S \in SUBSET DOMAIN log : Counts(S)

(* A tally stays one while the log grows.                                  *)
LEMMA TalliesStay ==
  ASSUME LogInv, Countable, LogGrows, NEW S \in SUBSET DOMAIN log, NEW sums, NEW keyOf, NEW other,
         Tallies(sums, S, keyOf), \A i \in S : other[i] = keyOf[i]
  PROVE  Tallies(sums, S, other)'
<1>1. Tallies(sums, S, other)
  BY TalliesSame
<1>2. ASSUME NEW k, NEW f \in SumFields
      PROVE  Total(f, Group(S, other, k)) = Total(f, Group(S, other, k))'
  <2> DEFINE G == Group(S, other, k)
  <2>1. G \in SUBSET DOMAIN log /\ G' = G
    BY DEF Group
  <2> HIDE DEF G
  <2>2. IsFiniteSet(G)
    BY <2>1, TotalNat
  <2>3. \A i \in G : RowSums(f)[i] = RowSums(f)'[i]
    BY <2>1 DEF RowSums, LogGrows
  <2>4. SumFunctionOnSet(RowSums(f), G) = SumFunctionOnSet(RowSums(f)', G)
    BY <2>2, <2>3, SumSame
  <2> QED BY <2>1, <2>4 DEF Total, G
<1> QED BY <1>1, <1>2 DEF Tallies

(* The rows in an engine, and those that ever were, are of its tier.       *)
LEMMA TierRows ==
  ASSUME DataInv, CountInv, NEW t \in Tiers
  PROVE  /\ rows[t] \subseteq EverIn(t) /\ EverIn(t) \subseteq DOMAIN log
         /\ \A i \in EverIn(t) : built[i].tier = t
         /\ \A i \in AllRows : i \in DOMAIN log /\ (built[i].tier = t => i \in rows[t])
<1>1. DOMAIN log = DOMAIN built /\ RowsInv /\ TiersInv
  BY LogReads DEF DataInv, CountInv
<1> QED BY <1>1 DEF EverIn, RowsInv, TiersInv, AllRows

(* What the filter of a quota asks of a row.                               *)
LEMMA QuotaMatches ==
  ASSUME req.kind = "quota", req.model = {}, NEW i
  PROVE  Matches(log[i], Filter(QueryDims, {req.from}, {}, {}, {})) <=> InScope(i)
<1> DEFINE q == Filter(QueryDims, {req.from}, {}, {}, {})
<1>1. /\ q.dims = QueryDims /\ q.from = {req.from} /\ q.to = {}
      /\ q.status_min = {} /\ q.status_max = {}
  BY DEF Filter
<1>2. /\ QueryDims["user_id"] = req.user
      /\ \A d \in FilterDims \ {"user_id"} : QueryDims[d] = {}
  BY DEF QueryDims, NoDims, FilterDims
<1>3. "user_id" \in FilterDims
  BY DEF FilterDims
<1> HIDE DEF q
<1>4. Matches(log[i], q) <=>
        (\A u \in req.user : log[i].dims["user_id"] = u) /\ log[i].ts >= req.from
  BY <1>1, <1>2, <1>3 DEF Matches
<1> QED BY <1>4 DEF InScope, q

(* While the store changes, the sums stay those of the rows they were made *)
(* of.                                                                     *)
LEMMA SumStore ==
  ASSUME DataInv, CountInv, SumInv, [Next]_vars, req' = req
  PROVE  SumInv'
<1> SUFFICES ASSUME req.phase # "idle", req.kind # "events" PROVE SumInv'
  BY DEF SumInv
<1>1. LogGrows /\ LogInv /\ Countable /\ RowsInv
  BY LogSteps DEF DataInv, CountInv
<1>2. PICK S \in SUBSET DOMAIN log : Counts(S)
  BY DEF SumInv
<1>3. /\ req.phase # "fetch" /\ req.model = {} /\ req.counted \subseteq DOMAIN log
      /\ req.phase = "done" => req.left = {}
  BY DEF SumInv
<1>4. \A i \in DOMAIN log : /\ i \in DOMAIN log' /\ (InScope(i)' <=> InScope(i))
                            /\ built'[i] = built[i] /\ GroupOf'[i] = GroupOf[i]
  <2> TAKE i \in DOMAIN log
  <2>1. i \in DOMAIN log' /\ log'[i] = log[i] /\ built'[i] = built[i]
    BY <1>1 DEF LogGrows
  <2>2. InScope(i)' <=> InScope(i)
    BY <2>1 DEF InScope
  <2>3. GroupOf'[i] = GroupOf[i]
    BY <2>1 DEF GroupOf, RollupKeys
  <2> QED BY <2>1, <2>2, <2>3
<1>5. Tallies(req.sums, S, GroupOf)'
  <2>1. Tallies(req.sums, S, GroupOf) /\ \A i \in S : GroupOf'[i] = GroupOf[i]
    BY <1>2, <1>4 DEF Counts
  <2> QED BY <1>1, <2>1, TalliesStay
<1>6. ASSUME NEW i \in req.counted, i \in AllRows' PROVE i \in AllRows
  <2>1. PICK t \in Tiers : i \in rows'[t]
    BY <1>6 DEF AllRows
  <2>2. i \in rows[t]
    BY <1>3, <1>6, <2>1, RowsArrive
  <2> QED BY <2>2 DEF AllRows
<1>7. Counts(S)'
  BY <1>2, <1>3, <1>4, <1>5, <1>6 DEF Counts
<1> QED BY <1>3, <1>4, <1>7 DEF SumInv

(* A request begins with no sums and every engine to be read.              *)
LEMMA SumStart ==
  ASSUME DataInv, CountInv, NEW k, NEW w, NEW u, NEW m, StartRequest(k, u, m, w)
  PROVE  SumInv'
<1>1. /\ req' = [phase |-> "read", kind |-> k, user |-> u, model |-> m,
                 from |-> w[1], to |-> w[2], left |-> Tiers,
                 live |-> {}, sums |-> <<>>, manifests |-> {}, archived |-> {},
                 failed |-> FALSE,
                 steady |-> AllRows \cup UNION {c.ids : c \in chunks},
                 counted |-> AllRows]
      /\ k # "events" => m = {}
      /\ UNCHANGED <<built, log, rows, chunks>>
  BY DEF StartRequest, storeVars
<1>2. /\ req'.phase = "read" /\ req'.kind = k /\ req'.model = m /\ req'.left = Tiers
      /\ req'.sums = <<>> /\ req'.counted = AllRows
  BY <1>1
<1>3. AllRows \subseteq DOMAIN log /\ AllRows' = AllRows
  BY <1>1 DEF AllRows, DataInv, RowsInv
<1>4. \A i \in AllRows : built'[i].tier \in Tiers
  BY <1>1 DEF AllRows, CountInv, TiersInv
<1>5. Tallies(req.sums, {}, GroupOf)'
  <2>1. DOMAIN req'.sums = {}
    BY <1>2
  <2> QED BY <2>1 DEF Tallies
<1>6. Counts({})'
  BY <1>2, <1>3, <1>4, <1>5 DEF Counts
<1>7. {} \in SUBSET DOMAIN log'
  OBVIOUS
<1> QED BY <1>1, <1>2, <1>3, <1>6, <1>7 DEF SumInv

(* An engine adds rows of its own tier: at least those it holds that are   *)
(* in scope, and none that was never written to it.                        *)
LEMMA SumRead ==
  ASSUME DataInv, CountInv, SumInv, RequestInv, NEW t \in Tiers, ReadEngine(t)
  PROVE  SumInv'
<1>1. /\ req.phase = "read" /\ t \in req.left /\ UNCHANGED <<built, log, rows, chunks>>
      /\ ReadEvents(t) \/ ReadQuota(t) \/ ReadRollups(t)
  BY DEF ReadEngine, storeVars
<1>2. CASE ReadEvents(t)
  <2>1. req'.kind = "events"
    <3>1. \E l : req' = [req EXCEPT !.left = @ \ {t}, !.live = l] /\ req.kind = "events"
      BY <1>2 DEF ReadEvents
    <3> QED BY <3>1 DEF RequestInv, ReqFields
  <2> QED BY <2>1 DEF SumInv
<1>3. CASE ReadQuota(t) \/ ReadRollups(t)
  <2>1. req.kind # "events"
    BY <1>3 DEF ReadQuota, ReadRollups
  <2>2. /\ req.model = {} /\ req.counted \subseteq DOMAIN log
        /\ \E S \in SUBSET DOMAIN log : Counts(S)
    BY <1>1, <2>1 DEF SumInv
  <2>3. PICK S \in SUBSET DOMAIN log : Counts(S)
    BY <2>2
  <2>4. /\ LogInv /\ Countable /\ rows[t] \subseteq EverIn(t) /\ EverIn(t) \subseteq DOMAIN log
        /\ \A i \in EverIn(t) : built[i].tier = t
        /\ \A i \in AllRows : i \in DOMAIN log /\ (built[i].tier = t => i \in rows[t])
    BY TierRows DEF DataInv, CountInv
  <2>5. \E N : /\ \A i \in N : i \in EverIn(t) /\ InScope(i)
               /\ \A i \in rows[t] : InScope(i) => i \in N
               /\ \E keyOf : /\ \A i \in N : keyOf[i] = GroupOf[i]
                             /\ req' = [req EXCEPT !.left = @ \ {t},
                                                   !.sums = Merged(@, Grouped(N, keyOf))]
    <3>1. CASE ReadQuota(t)
      <4> DEFINE q == Filter(QueryDims, {req.from}, {}, {}, {})
                 found == {i \in rows[t] : Matches(log[i], q)}
                 keyOf == [i \in found |-> "all"]
      <4>1. /\ req.kind = "quota"
            /\ req' = [req EXCEPT !.left = @ \ {t}, !.sums = Merged(@, Grouped(found, keyOf))]
        BY <3>1, Zenon DEF ReadQuota
      <4>2. \A i : Matches(log[i], q) <=> InScope(i)
        BY <4>1, <2>2, QuotaMatches
      <4>3. \A i \in found : i \in rows[t] /\ InScope(i)
        <5> HIDE DEF q
        <5> QED BY <4>2
      <4>4. \A i \in rows[t] : InScope(i) => i \in found
        <5> HIDE DEF q
        <5> QED BY <4>2
      <4>5. \A i \in found : keyOf[i] = "all"
        BY Zenon
      <4> HIDE DEF found, keyOf
      <4>6. \A i \in found : keyOf[i] = GroupOf[i]
        BY <4>1, <4>3, <4>5, <2>4 DEF GroupOf
      <4> QED BY <4>1, <4>3, <4>4, <4>6, <2>4
    <3>2. CASE ReadRollups(t)
      <4>1. req.kind = "rollups"
        BY <3>2 DEF ReadRollups
      <4>2. PICK E \in {rows[t], EverIn(t)} :
              req' = [req EXCEPT !.left = @ \ {t},
                        !.sums = Merged(@, Grouped(
                          {i \in E : /\ \A u \in req.user : log[i].dims["user_id"] = u
                                     /\ DayOf(log[i].ts) \in DayOf(req.from) .. DayOf(req.to)},
                          RollupKeys))]
        BY <3>2, Zenon DEF ReadRollups
      <4> DEFINE mine == {i \in E : /\ \A u \in req.user : log[i].dims["user_id"] = u
                                    /\ DayOf(log[i].ts) \in DayOf(req.from) .. DayOf(req.to)}
      <4>3. mine = {i \in E : InScope(i)}
        BY <4>1, Zenon DEF InScope
      <4>4. req' = [req EXCEPT !.left = @ \ {t}, !.sums = Merged(@, Grouped(mine, RollupKeys))]
        BY <4>2, Zenon
      <4> HIDE DEF mine
      <4>5. /\ \A i \in mine : i \in EverIn(t) /\ InScope(i)
            /\ \A i \in rows[t] : InScope(i) => i \in mine
        BY <4>3, <2>4
      <4>6. \A i \in mine : RollupKeys[i] = GroupOf[i]
        BY <4>1 DEF GroupOf
      <4> QED BY <4>4, <4>5, <4>6
    <3> QED BY <1>3, <3>1, <3>2
  <2>6. PICK N : /\ \A i \in N : i \in EverIn(t) /\ InScope(i)
                 /\ \A i \in rows[t] : InScope(i) => i \in N
                 /\ \E keyOf : /\ \A i \in N : keyOf[i] = GroupOf[i]
                               /\ req' = [req EXCEPT !.left = @ \ {t},
                                                     !.sums = Merged(@, Grouped(N, keyOf))]
    BY <2>5
  <2>7. PICK keyOf : /\ \A i \in N : keyOf[i] = GroupOf[i]
                     /\ req' = [req EXCEPT !.left = @ \ {t},
                                           !.sums = Merged(@, Grouped(N, keyOf))]
    BY <2>6
  <2> DEFINE new == Grouped(N, keyOf)
  <2> HIDE DEF new
  <2>8. /\ req'.left = req.left \ {t} /\ req'.sums = Merged(req.sums, new)
        /\ req'.phase = "read" /\ req'.kind = req.kind /\ req'.model = req.model
        /\ req'.user = req.user /\ req'.from = req.from /\ req'.to = req.to
        /\ req'.counted = req.counted
    <3>1. req' = [req EXCEPT !.left = @ \ {t}, !.sums = Merged(@, new)]
      BY <2>7, Zenon DEF new
    <3> QED BY <3>1, <1>1 DEF RequestInv, ReqFields
  <2>9. N \in SUBSET DOMAIN log /\ S \cap N = {} /\ S \cup N \in SUBSET DOMAIN log
    BY <1>1, <2>3, <2>4, <2>6 DEF Counts
  <2>10. Tallies(Merged(req.sums, new), S \cup N, GroupOf)
    <3>1. Tallies(new, N, keyOf)
      BY <2>4, <2>9, GroupedTallies DEF new
    <3>2. Tallies(new, N, GroupOf)
      BY <2>7, <3>1, TalliesSame
    <3> QED BY <2>3, <2>4, <2>9, <3>2, MergedTallies DEF Counts
  <2>11. /\ GroupOf' = GroupOf /\ AllRows' = AllRows /\ \A i : InScope(i)' <=> InScope(i)
    BY <1>1, <2>8 DEF GroupOf, RollupKeys, AllRows, InScope
  <2>12. Tallies(req.sums, S \cup N, GroupOf)'
    BY <1>1, <2>8, <2>10, <2>11 DEF Tallies, Total, RowSums, Group
  <2>13. ASSUME NEW i \in S \cup N PROVE InScope(i) /\ built[i].tier \notin req.left \ {t}
    BY <2>3, <2>4, <2>6 DEF Counts
  <2>14. ASSUME NEW i \in req.counted \cap AllRows, InScope(i), built[i].tier \notin req.left \ {t}
         PROVE  i \in S \cup N
    <3>1. CASE built[i].tier = t
      BY <2>4, <2>6, <2>14, <3>1
    <3>2. CASE built[i].tier # t
      BY <2>3, <2>14, <3>2 DEF Counts
    <3> QED BY <3>1, <3>2
  <2>15. Counts(S \cup N)'
    BY <1>1, <2>8, <2>11, <2>12, <2>13, <2>14 DEF Counts
  <2> QED BY <1>1, <2>2, <2>8, <2>9, <2>15 DEF SumInv
<1> QED BY <1>1, <1>2, <1>3

(* The other steps of a request are of a page of events, or the answer.    *)
LEMMA SumRest ==
  ASSUME SumInv, req.phase # "idle", RequestInv, [Next]_vars,
         ListArchives \/ (\E c \in chunks : Fetch(c) \/ FetchFails(c)) \/ Answer
  PROVE  SumInv'
<1>1. CASE req.kind = "events"
  <2>1. req'.kind = "events"
    BY <1>1 DEF ListArchives, Fetch, FetchFails, Answer, RequestInv, ReqFields
  <2> QED BY <2>1 DEF SumInv
<1>2. CASE req.kind # "events"
  <2>1. req.phase # "fetch"
    BY <1>2 DEF SumInv
  <2>2. /\ req.left = {} /\ req' = [req EXCEPT !.phase = "done"]
        /\ UNCHANGED <<built, log, rows, chunks>>
    BY <1>2, <2>1 DEF ListArchives, Fetch, FetchFails, Answer, storeVars
  <2>3. /\ req'.phase = "done" /\ req'.kind = req.kind /\ req'.left = req.left
        /\ req'.model = req.model /\ req'.user = req.user /\ req'.from = req.from
        /\ req'.to = req.to /\ req'.counted = req.counted /\ req'.sums = req.sums
    BY <2>2 DEF RequestInv, ReqFields
  <2>4. PICK S \in SUBSET DOMAIN log : Counts(S)
    BY <1>2 DEF SumInv
  <2>5. GroupOf' = GroupOf /\ AllRows' = AllRows /\ \A i : InScope(i)' <=> InScope(i)
    BY <2>2, <2>3 DEF GroupOf, RollupKeys, AllRows, InScope
  <2>6. Tallies(req.sums, S, GroupOf)'
    BY <2>2, <2>3, <2>4, <2>5 DEF Tallies, Total, RowSums, Group, Counts
  <2>7. Counts(S)'
    BY <2>2, <2>3, <2>4, <2>5, <2>6 DEF Counts
  <2> QED BY <1>2, <2>2, <2>3, <2>4, <2>7 DEF SumInv
<1> QED BY <1>1, <1>2

(* Every step leaves the sums those of rows in scope.                      *)
LEMMA SumSteps ==
  ASSUME DataInv, CountInv, PageInv, SumInv, [Next]_vars
  PROVE  SumInv'
<1>1. CASE req' = req
  BY <1>1, SumStore
<1>2. CASE RequestStep
  <2>1. ASSUME NEW k \in Kinds, NEW w \in Windows, NEW u, NEW m, StartRequest(k, u, m, w)
        PROVE  SumInv'
    BY <2>1, SumStart
  <2>2. ASSUME req.phase # "idle" PROVE RequestInv
    BY <2>2 DEF PageInv
  <2>3. ASSUME NEW t \in Tiers, ReadEngine(t) PROVE SumInv'
    <3>1. RequestInv
      BY <2>2, <2>3 DEF ReadEngine
    <3> QED BY <2>3, <3>1, SumRead
  <2>4. ASSUME ListArchives \/ (\E c \in chunks : Fetch(c) \/ FetchFails(c)) \/ Answer
        PROVE  SumInv'
    <3>1. req.phase # "idle"
      BY <2>4 DEF ListArchives, Fetch, FetchFails, Answer
    <3> QED BY <2>2, <2>4, <3>1, SumRest
  <2> QED BY <1>2, <2>1, <2>3, <2>4 DEF RequestStep
<1>3. CASE ~RequestStep
  <2>1. req' = req
    BY <1>3, StepCases, DataPost, DataArchive, DataDelete
  <2> QED BY <1>1, <2>1
<1> QED BY <1>2, <1>3

(* The answers of quotas, rollups and statistics count every event that    *)
(* was stored throughout and none that never was, each once, for any       *)
(* number of tiers, events and groups, while the store changes under them. *)
THEOREM AnswersAreBracketed == Spec => []AggregatesBracketed
<1>1. Init => SumInv
  BY DEF Init, SumInv
<1>2. DataInv /\ CountInv /\ PageInv /\ SumInv /\ [Next]_vars => SumInv'
  BY SumSteps
<1>3. ASSUME DataInv, CountInv, SumInv PROVE AggregatesBracketed
  <2> DEFINE stayed == {i \in req.counted \cap AllRows : InScope(i)}
             ever == {i \in DOMAIN log : InScope(i)}
  <2> SUFFICES ASSUME req.phase = "done", req.kind # "events"
               PROVE  /\ Between(req.sums, stayed, ever, GroupOf)
                      /\ req.kind = "rollups" =>
                           \A provider \in {{}} \cup {{log[i].dims["provider"]} : i \in ever},
                              by_model \in BOOLEAN :
                             Between(aggregate_stats(req.sums, provider, by_model),
                                     OfProvider(stayed, provider), OfProvider(ever, provider),
                                     StatsKeys(by_model))
    BY Zenon DEF AggregatesBracketed, OfProvider, StatsKeys
  <2>1. LogInv /\ Countable
    BY <1>3 DEF DataInv, CountInv
  <2>2. req.left = {} /\ \E S \in SUBSET DOMAIN log : Counts(S)
    BY <1>3 DEF SumInv
  <2>3. PICK S \in SUBSET DOMAIN log : Counts(S)
    BY <2>2
  <2>4. stayed \subseteq S /\ S \subseteq ever /\ ever \in SUBSET DOMAIN log
    BY <2>2, <2>3 DEF Counts
  <2>5. Tallies(req.sums, S, GroupOf)
    BY <2>3 DEF Counts
  <2> HIDE DEF stayed, ever
  <2>6. Between(req.sums, stayed, ever, GroupOf)
    BY <2>1, <2>4, <2>5, TalliesBetween
  <2>7. ASSUME req.kind = "rollups", NEW provider, NEW by_model
        PROVE  Between(aggregate_stats(req.sums, provider, by_model),
                       OfProvider(stayed, provider), OfProvider(ever, provider),
                       StatsKeys(by_model))
    <3>1. GroupOf = RollupKeys
      BY <2>7 DEF GroupOf
    <3>2. Tallies(req.sums, S, RollupKeys)
      BY <2>5, <3>1, Zenon
    <3>3. Tallies(aggregate_stats(req.sums, provider, by_model), OfProvider(S, provider),
                  StatsKeys(by_model))
      BY <2>1, <2>3, <3>2, StatsTallies
    <3>4. /\ OfProvider(stayed, provider) \subseteq OfProvider(S, provider)
          /\ OfProvider(S, provider) \subseteq OfProvider(ever, provider)
          /\ OfProvider(ever, provider) \in SUBSET DOMAIN log
      BY <2>4 DEF OfProvider
    <3> QED BY <2>1, <3>3, <3>4, TalliesBetween
  <2> QED BY <2>6, <2>7
<1>4. Init => PageInv
  BY DEF Init, PageInv
<1>5. DataInv /\ PageInv /\ [Next]_vars => PageInv'
  BY PageStep
<1> QED BY <1>1, <1>2, <1>3, <1>4, <1>5, DataInvariant, CountInvariant, PTL DEF Spec
====
