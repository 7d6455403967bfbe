----------------------------- MODULE EventData -----------------------------
(***************************************************************************)
(* What becomes of the data of an event: the request body is parsed,       *)
(* validated, normalised and priced (process_event), written as a row of   *)
(* its tier's engine (to_log_event), read back (from_event_ref), archived  *)
(* and fetched (StoredEvent), and counted in quotas, rollups and stats.    *)
(*                                                                         *)
(* A text is a string whose length matters only as empty or too long.      *)
(***************************************************************************)
EXTENDS Pricing

CONSTANTS
  Payloads,    \* the bodies clients post: sparse records
  Callers,     \* who posts them: the id of the key, if any, and its tier
  Tiers,       \* the mounted engines
  LongTexts,   \* texts over the length limits of validate
  MaxTokens,   \* MAX_TOKENS
  MaxCost,     \* MAX_COST_NANODOLLARS
  MinTs,       \* MIN_TS_NS
  Now,         \* the server's clock
  DayLength,   \* a day, in the unit of the clock
  Windows,     \* the [from, to] ranges readers ask for
  PageLimit,   \* the limit of a page of events
  MaxPosts     \* bound on the events of a behaviour

(* The id of a key is optional; clocks, costs and status codes are         *)
(* integers, token counts are not negative.  MAX_TOKENS is far below       *)
(* u32::MAX: three counts add up without overflow.                         *)
ASSUME EventDataAssumption ==
  /\ \A c \in Callers : c.tier \in Tiers /\ \A k, l \in c.id : k = l
  /\ \A p \in Payloads : /\ \A ts \in Field(p, "timestamp") : ts.at \in Int
                         /\ Field(p, "http_status") \subseteq Nat
                         /\ Field(p, "cost") \subseteq Int
                         /\ \A u \in Field(p, "usage") : \A x \in DOMAIN u : u[x] \in Nat
  /\ MaxTokens \in Nat /\ 3 * MaxTokens <= MaxCount
  /\ Windows \subseteq Int \X Int
  /\ Now \in Int
  /\ DayLength \in Nat \ {0}
  /\ PageLimit \in Nat
  /\ MaxPosts \in Nat

VARIABLES
  built,    \* history: the events accepted, in order; an id is a position
  log,      \* log[i]: the row of event i
  rows,     \* rows[t]: the ids whose rows the engine of tier t holds
  chunks,   \* the archived chunks with their manifests: sets of ids
  req       \* a request that reads the store

storeVars == <<built, log, rows, chunks>>
vars == <<catalog, storeVars, req>>

-----------------------------------------------------------------------------
(* The schema of a request body *)

IngestUsageFields ==
  {"input", "output", "cache_read", "cache_creation", "reasoning", "audio_in",
   "audio_out", "image", "tool_use"}

IngestFlags == {"streaming", "tool_calls", "reasoning", "stream_incomplete", "cache_used"}

(* deny_unknown_fields is on the body itself; an unknown field of one of   *)
(* its objects is ignored.                                                 *)
IngestEventFields ==
  {"model", "provider", "cost", "usage", "latency", "timestamp", "method",
   "endpoint", "http_status", "source", "user_id", "api_key_id", "org_id",
   "project_id", "route_id", "flags", "error", "trace_id", "request_id",
   "client_ip", "user_agent", "metadata"}

Parses(p) == DOMAIN p \subseteq IngestEventFields

(* usage_from_ingest, with the defaults of the missing counters.           *)
usage_from_ingest(p) ==
  LET given == Unwrap(Field(p, "usage"), <<>>) IN
  [f \in UsageFields |-> IF f \in IngestUsageFields THEN Unwrap(Field(given, f), 0) ELSE 0]

-----------------------------------------------------------------------------
(* Validation and normalisation *)

check_len(o) == o \cap LongTexts = {}

validate_tokens(p) ==
  LET given == Unwrap(Field(p, "usage"), <<>>) IN
  \A f \in IngestUsageFields \cap DOMAIN given : given[f] <= MaxTokens

(* A timestamp in nanoseconds is bounded, one in ISO 8601 is not.          *)
ValidTimestamp(p) ==
  \A ts \in Field(p, "timestamp") :
    ts.kind = "nanos" => ts.at >= MinTs /\ ts.at <= Now + DayLength

(* validate, after the key's id has replaced the client's.                 *)
validate(p, key_id) ==
  /\ [p.model EXCEPT !.upper = FALSE] #
       [path |-> <<>>, base |-> "", date |-> "", upper |-> FALSE, padded |-> FALSE]
  /\ p.provider.key # ""
  /\ check_len({p.model.base, p.provider.key})
  /\ validate_tokens(p)
  /\ \A cost \in Field(p, "cost") : cost >= 0 /\ cost <= MaxCost
  /\ ValidTimestamp(p)
  /\ check_len(key_id)
  /\ \A f \in {"user_id", "org_id", "project_id", "route_id", "endpoint"} :
       check_len(Field(p, f))
  /\ \A m \in Field(p, "metadata") : ~m.big

(* The provider kinds, by id_key; any other text is an OpenAI-compatible   *)
(* base URL.                                                               *)
KnownProviders ==
  {"openai", "anthropic", "gemini", "gemini_vertex", "bedrock", "azure_openai",
   "mistral", "groq", "xai", "deepseek", "cohere", "openrouter", "ollama",
   "opencode", "opencode_zen"}

from_id_key(key) ==
  IF key \in KnownProviders
  THEN [kind |-> key, url |-> {}]
  ELSE [kind |-> "openai_compatible", url |-> {[key |-> key, upper |-> FALSE]}]

(* from_id_key_ignore_case also takes a hyphen in opencode-zen.            *)
normalize_provider(raw) ==
  CASE raw.key \in KnownProviders -> [kind |-> raw.key, url |-> {}]
    [] raw.key = "opencode-zen" -> [kind |-> "opencode_zen", url |-> {}]
    [] OTHER -> [kind |-> "openai_compatible", url |-> {raw}]

normalize_model(raw) == [raw EXCEPT !.upper = FALSE, !.padded = FALSE]

-----------------------------------------------------------------------------
(* process_event *)

(* The kinds of ProviderError, by type key.                                *)
ErrorKinds ==
  {"rate_limited", "invalid_request", "auth_failed", "context_length_exceeded",
   "content_filtered", "upstream_timeout", "upstream_unavailable", "other"}

WithMessage == {"invalid_request", "content_filtered", "other"}

(* An unknown kind is Other, with the status it came with.                 *)
error_from_ingest(e) ==
  LET kind == IF e.kind \in ErrorKinds THEN e.kind ELSE "other" IN
  [kind |-> kind,
   message |-> When(kind \in WithMessage, {Unwrap(Field(e, "message"), "")}),
   status |-> When(kind = "other", {Unwrap(Field(e, "status"), 0)}),
   limit |-> When(kind = "context_length_exceeded", {0}),
   retry_after |-> {}]

(* The optional texts of an event.                                         *)
Attributes ==
  {"user_id", "api_key_id", "org_id", "project_id", "source", "user_agent", "request_id"}

(* Pipeline::compute_cost: one snapshot of the catalogue; an unknown model *)
(* costs nothing.                                                          *)
PriceOf(provider, model, usage) ==
  LET found == lookup(catalog.index, model) IN
  IF found = {} THEN 0
  ELSE compute_cost(provider.kind, PricingOf(catalog.file, Unwrap(found, <<>>)), usage, DefaultOpts)

(* parse_iso8601 may fail after validation has passed.                     *)
TimestampReadable(p) == \A ts \in Field(p, "timestamp") : ts.kind # "bad"

Accepted(p, caller) ==
  /\ Parses(p)
  /\ validate(p, OrElse(caller.id, Field(p, "api_key_id")))
  /\ TimestampReadable(p)

(* parse().ok(): text that does not parse is left out.                     *)
Parsed(o) == {v \in o : v.ok}

(* build_llm_event.  The key's id replaces what the client claims.         *)
process_event(p, caller, id) ==
  LET provider == normalize_provider(p.provider)
      model == normalize_model(p.model)
      usage == usage_from_ingest(p)
      latency == Unwrap(Field(p, "latency"), <<>>)
      at == Unwrap({ts.at : ts \in Field(p, "timestamp")}, Now)
  IN [id |-> id,
      ts |-> at,
      attrs |-> [a \in Attributes |->
                  IF a = "api_key_id" THEN OrElse(caller.id, Field(p, a)) ELSE Field(p, a)],
      route_id |-> Unwrap(Field(p, "route_id"), "default"),
      provider |-> provider,
      model |-> model,
      model_family |-> {},
      endpoint |-> Unwrap(Field(p, "endpoint"), ""),
      method |-> Unwrap(Parsed(Field(p, "method")), [ok |-> TRUE, verb |-> "POST"]),
      http_status |-> Field(p, "http_status"),
      usage |-> usage,
      cost |-> Unwrap(Field(p, "cost"), PriceOf(provider, model, usage)),
      ttft |-> Field(latency, "ttft"),
      total |-> Unwrap(Field(latency, "total"), 0),
      close |-> Field(latency, "close"),
      flags |-> Unwrap(Field(p, "flags"), {}) \cap IngestFlags,
      error |-> {error_from_ingest(e) : e \in Field(p, "error")},
      client_ip |-> Parsed(Field(p, "client_ip")),
      trace_id |-> Parsed(Field(p, "trace_id")),
      metadata |-> Field(p, "metadata"),
      ingested_at |-> Now,
      tier |-> caller.tier]

-----------------------------------------------------------------------------
(* Rows: the dimensions, counters, labels and flag bits of mapping.rs *)

Dims ==
  {"user_id", "api_key_id", "model", "provider", "source", "org_id", "project_id",
   "route_id", "model_family", "endpoint", "tier", "error_type", "user_tag", "session_tag"}

Counters == UsageFields \cup {"close_ms", "is_error"}

Labels ==
  {"error_json", "request_id", "trace_id", "client_ip", "user_agent",
   "metadata_json", "method", "provider_variant"}

FlagBits == IngestFlags \cup {"budget_blocked", "has_ttft", "has_http_status", "has_error",
                              "has_close_ms"}

(* Mutant: a status is taken to be there when it is not zero.              *)
PackFlagsNonZero(e) ==
  e.flags
    \cup When(e.ttft # {}, {"has_ttft"})
    \cup When(Unwrap(e.http_status, 0) # 0, {"has_http_status"})
    \cup When(e.error # {}, {"has_error"})
    \cup When(e.close # {}, {"has_close_ms"})

pack_flags(e) ==
  e.flags
    \cup When(e.ttft # {}, {"has_ttft"})
    \cup When(e.http_status # {}, {"has_http_status"})
    \cup When(e.error # {}, {"has_error"})
    \cup When(e.close # {}, {"has_close_ms"})

unpack_event_flags(bits) == bits \cap (IngestFlags \cup {"budget_blocked"})

(* Only a string in an object is a tag.                                    *)
extract_tag(e, tag) ==
  Unwrap(UNION {When(m.object, Field(m.tags, tag)) : m \in e.metadata}, "")

encode_error(x) ==
  [t |-> x.kind, m |-> x.message, s |-> x.status, l |-> x.limit, r |-> x.retry_after]

decode_error(j) ==
  [kind |-> j.t,
   message |-> When(j.t \in WithMessage, {Unwrap(j.m, "")}),
   status |-> When(j.t = "other", {Unwrap(j.s, 0)}),
   limit |-> When(j.t = "context_length_exceeded", {Unwrap(j.l, 0)}),
   retry_after |-> When(j.t = "rate_limited", j.r)]

(* Mutant: the provider is stored as the client wrote it.                  *)
ProviderDimRaw(e) == Unwrap({u.key : u \in e.provider.url}, e.provider.kind)

(* id_key *)
ProviderDim(e) == e.provider.kind

DimOf(e, d) ==
  CASE d \in Attributes -> Unwrap(e.attrs[d], "")
    [] d = "model" -> e.model
    [] d = "provider" -> ProviderDim(e)
    [] d = "route_id" -> e.route_id
    [] d = "model_family" -> Unwrap(e.model_family, "")
    [] d = "endpoint" -> e.endpoint
    [] d = "tier" -> e.tier
    [] d = "error_type" -> Unwrap({x.kind : x \in e.error}, "")
    [] OTHER -> extract_tag(e, d)

(* A label is the text of a value, or empty.                               *)
LabelOf(e, l) ==
  CASE l = "error_json" -> {encode_error(x) : x \in e.error}
    [] l \in Attributes -> e.attrs[l] \ {""}
    [] l = "trace_id" -> e.trace_id
    [] l = "client_ip" -> e.client_ip
    [] l = "metadata_json" -> e.metadata
    [] l = "method" -> {e.method}
    [] OTHER -> e.provider.url

to_log_event(e) ==
  [id |-> e.id,
   ts |-> e.ts,
   metric |-> e.cost,
   counters |-> [c \in Counters |->
                  CASE c = "close_ms" -> Unwrap(e.close, 0)
                    [] c = "is_error" -> Cardinality(e.error)
                    [] OTHER -> e.usage[c]],
   latency_ms |-> e.total,
   latency_detail_ms |-> Unwrap(e.ttft, 0),
   status |-> Unwrap(e.http_status, 0),
   flags |-> pack_flags(e),
   dims |-> [d \in Dims |-> DimOf(e, d)],
   labels |-> [l \in Labels |-> LabelOf(e, l)]]

read_provider(id_key, variant) ==
  IF id_key = "openai_compatible"
  THEN [kind |-> id_key, url |-> variant] ELSE from_id_key(id_key)

(* A row decodes when its trace id, address and method parse; query fails  *)
(* as a whole on a row that does not.                                      *)
Decodes(r) ==
  \A l \in {"trace_id", "client_ip", "method"} : \A v \in r.labels[l] : v.ok

NonEmpty(text) == {text} \ {""}

from_event_ref(r) ==
  [id |-> r.id,
   ts |-> r.ts,
   attrs |-> [a \in Attributes |->
               IF a \in Dims THEN NonEmpty(r.dims[a]) ELSE r.labels[a]],
   route_id |-> r.dims["route_id"],
   provider |-> read_provider(r.dims["provider"], r.labels["provider_variant"]),
   model |-> r.dims["model"],
   model_family |-> NonEmpty(r.dims["model_family"]),
   endpoint |-> r.dims["endpoint"],
   method |-> Unwrap(r.labels["method"], [ok |-> TRUE, verb |-> "POST"]),
   http_status |-> When("has_http_status" \in r.flags, {r.status}),
   usage |-> [f \in UsageFields |-> r.counters[f]],
   cost |-> r.metric,
   ttft |-> When("has_ttft" \in r.flags, {r.latency_detail_ms}),
   total |-> r.latency_ms,
   close |-> When("has_close_ms" \in r.flags, {r.counters["close_ms"]}),
   flags |-> unpack_event_flags(r.flags),
   error |-> When("has_error" \in r.flags, {decode_error(j) : j \in r.labels["error_json"]}),
   client_ip |-> r.labels["client_ip"],
   trace_id |-> r.labels["trace_id"],
   metadata |-> r.labels["metadata_json"],
   ingested_at |-> r.ts,
   tier |-> r.dims["tier"]]

(* What a row keeps of an event: an empty text is as good as none, and the *)
(* time of receipt is not kept.                                            *)
Kept(e) ==
  [e EXCEPT !.attrs = [a \in Attributes |-> e.attrs[a] \ {""}], !.ingested_at = e.ts]

-----------------------------------------------------------------------------
(* The archive's form of an event *)

(* ProviderError is tagged with its kind, and serde cannot put the tag     *)
(* into the text of InvalidRequest: to_writer fails, and the chunk with it. *)
Serializable(e) == \A x \in e.error : x.kind # "invalid_request"

(* LlmEvent to StoredEvent to JSON and back.                               *)
Restored(e) ==
  [e EXCEPT !.client_ip = Parsed(@),
            !.method = Unwrap(Parsed({@}), [ok |-> TRUE, verb |-> "POST"])]

-----------------------------------------------------------------------------
(* Responses and filters *)

ShownCounters == {"input", "output", "cache_read", "cache_creation", "reasoning"}

(* EventSummary, the narrow form of an event that query_summary returns.   *)
llm_to_summary(e) ==
  [id |-> e.id, ts |-> e.ts, provider |-> e.provider.kind, model |-> e.model,
   attrs |-> [a \in {"user_id", "api_key_id", "source", "user_agent"} |-> e.attrs[a]],
   endpoint |-> e.endpoint, http_status |-> e.http_status,
   counters |-> [f \in ShownCounters |-> e.usage[f]], cost |-> e.cost,
   ttft |-> e.ttft, total |-> e.total, streaming |-> "streaming" \in e.flags,
   error_type |-> {x.kind : x \in e.error}, metadata |-> e.metadata, client_ip |-> e.client_ip]

(* EventResponse, from the summary of a live event.                        *)
Response(s) ==
  [id |-> s.id, timestamp |-> s.ts, model |-> s.model, provider |-> s.provider,
   usage |-> s.counters, cost |-> s.cost, latency_total |-> s.total, latency_ttft |-> s.ttft,
   http_status |-> s.http_status, attrs |-> s.attrs, endpoint |-> s.endpoint,
   streaming |-> s.streaming, error |-> s.error_type, metadata |-> s.metadata,
   client_ip |-> s.client_ip]

(* EventResponse, from an archived event.                                  *)
llm_event_to_response(e) ==
  [id |-> e.id, timestamp |-> e.ts, model |-> e.model, provider |-> e.provider.kind,
   usage |-> [f \in ShownCounters |-> e.usage[f]],
   cost |-> e.cost, latency_total |-> e.total, latency_ttft |-> e.ttft,
   http_status |-> e.http_status,
   attrs |-> [a \in {"user_id", "api_key_id", "source", "user_agent"} |-> e.attrs[a]],
   endpoint |-> e.endpoint, streaming |-> "streaming" \in e.flags,
   error |-> {x.kind : x \in e.error}, metadata |-> e.metadata, client_ip |-> e.client_ip]

FilterDims == {"user_id", "api_key_id", "model", "provider", "source", "user_tag", "session_tag"}

(* EventFilter and to_query_filter: dims, an inclusive time range and a    *)
(* range of status codes without its upper end.                            *)
Filter(dims, from, to, status_min, status_max) ==
  [dims |-> dims, from |-> from, to |-> to,
   status_min |-> status_min, status_max |-> status_max]

NoDims == [d \in FilterDims |-> {}]

(* How the engine applies a filter to a row.                               *)
Matches(r, q) ==
  /\ \A d \in FilterDims : \A v \in q.dims[d] : r.dims[d] = v
  /\ \A t \in q.from : r.ts >= t
  /\ \A t \in q.to : r.ts <= t
  /\ \A s \in q.status_min : r.status >= s
  /\ \A s \in q.status_max : r.status < s

-----------------------------------------------------------------------------
(* Sums *)

AllRows == UNION {rows[t] : t \in Tiers}

(* The event that comes out of the row of event i.                         *)
Stored(i) == from_event_ref(log[i])

(* Every event that was ever written to the engine of tier t.              *)
EverIn(t) == {i \in DOMAIN built : built[i].tier = t}

SumFields == {"events", "errors", "input", "output", "cache_read", "cache_creation", "cost"}

RowSum(r, f) ==
  CASE f = "events" -> 1
    [] f = "errors" -> r.counters["is_error"]
    [] f = "cost" -> r.metric
    [] OTHER -> r.counters[f]

Saturate(f, n) == IF f = "cost" THEN SaturatedNanos(n) ELSE n

SumRows(S) ==
  [f \in SumFields |-> Saturate(f, SumFunction([i \in S |-> RowSum(log[i], f)]))]

Zero == [f \in SumFields |-> 0]

(* ns_to_day_epoch *)
DayOf(ts) == ts - (ts % DayLength)

RollupKey(r) ==
  [day |-> DayOf(r.ts), user |-> r.dims["user_id"], api_key |-> r.dims["api_key_id"],
   model |-> r.dims["model"], provider |-> r.dims["provider"]]

(* The group of each row that is in the log.                               *)
RollupKeys == [i \in DOMAIN log |-> RollupKey(log[i])]

(* What the engine answers: sums over the rows of the ids S, by key.       *)
Grouped(S, keyOf) ==
  [k \in {keyOf[i] : i \in S} |-> SumRows({i \in S : keyOf[i] = k})]

At(sums, k) == IF k \in DOMAIN sums THEN sums[k] ELSE Zero

(* Mutant: an engine's sums replace those of the engines before it.        *)
MergedLast(a, b) == [k \in DOMAIN a \cup DOMAIN b |-> IF k \in DOMAIN b THEN b[k] ELSE a[k]]

(* The merge across engines of query_rollups and quota_summary.            *)
Merged(a, b) ==
  [k \in DOMAIN a \cup DOMAIN b |->
    [f \in SumFields |-> Saturate(f, At(a, k)[f] + At(b, k)[f])]]

(* aggregate_stats: the rollups are added up, those of one provider alone  *)
(* if the request says so, by provider and model or all of them.           *)
StatsKey(k, by_model) ==
  IF by_model THEN [provider |-> k.provider, model |-> {k.model}]
  ELSE [provider |-> "", model |-> {}]

aggregate_stats(rollups, provider, by_model) ==
  LET counted == {k \in DOMAIN rollups : \A p \in provider : k.provider = p} IN
  [g \in {StatsKey(k, by_model) : k \in counted} |->
    [f \in SumFields |->
      Saturate(f, SumFunctionOnSet([k \in counted |-> rollups[k][f]],
                                   {k \in counted : StatsKey(k, by_model) = g}))]]

-----------------------------------------------------------------------------
(* Storing and archiving *)

Init ==
  /\ PricingInit
  /\ built = <<>>
  /\ log = <<>>
  /\ rows = [t \in Tiers |-> {}]
  /\ chunks = {}
  /\ req = [phase |-> "idle"]

(* A body that does not parse or is not valid is answered 422 or 400 and   *)
(* leaves no trace; the others become a row of the tier of their key.      *)
Post(p, caller) ==
  /\ Len(built) < MaxPosts
  /\ Accepted(p, caller)
  /\ LET e == process_event(p, caller, Len(built) + 1) IN
     /\ built' = Append(built, e)
     /\ log' = Append(log, to_log_event(e))
     /\ rows' = [rows EXCEPT ![e.tier] = @ \cup {e.id}]
  /\ UNCHANGED <<catalog, chunks, req>>

UserKey(e) == Unwrap(e.attrs["user_id"], "_none")

(* Archive shows how a chunk is uploaded and listed; here it is one step.  *)
(* A chunk is of one user and one day.                                     *)
ArchiveChunk(S) ==
  /\ S # {}
  /\ \A i \in S : Decodes(log[i]) /\ Serializable(Stored(i))
  /\ \A i, j \in S : /\ UserKey(Stored(i)) = UserKey(Stored(j))
                     /\ DayOf(log[i].ts) = DayOf(log[j].ts)
  /\ \A c \in chunks : S \cap c.ids = {}
  /\ chunks' = chunks \cup {[user |-> UserKey(Stored(Min(S))),
                             min_ts |-> Min({log[i].ts : i \in S}),
                             max_ts |-> Max({log[i].ts : i \in S}),
                             ids |-> S]}
  /\ UNCHANGED <<catalog, built, log, rows, req>>

(* The archiver deletes what it has archived.                              *)
DeleteArchived(c) ==
  /\ c \in chunks
  /\ c.ids \cap AllRows # {}
  /\ rows' = [t \in Tiers |-> rows[t] \ c.ids]
  /\ UNCHANGED <<catalog, built, log, chunks, req>>

-----------------------------------------------------------------------------
(* Requests that read: a page of events with include_archived, a quota, or *)
(* rollups and the statistics made of them, of a user or of everyone       *)

Kinds == {"events", "quota", "rollups"}

(* query_quota refuses a request without a user or a key, and only a page  *)
(* of events can be asked for by model.                                    *)
StartRequest(kind, user, model, window) ==
  /\ req.phase = "idle"
  /\ kind = "quota" => user # {}
  /\ kind # "events" => model = {}
  /\ req' = [phase |-> "read", kind |-> kind, user |-> user, model |-> model,
             from |-> window[1], to |-> window[2], left |-> Tiers,
             live |-> {}, sums |-> <<>>, manifests |-> {}, archived |-> {},
             failed |-> FALSE,
             steady |-> AllRows \cup UNION {c.ids : c \in chunks},
             counted |-> AllRows]
  /\ UNCHANGED <<catalog, storeVars>>

QueryDims == [NoDims EXCEPT !["user_id"] = req.user, !["model"] = req.model]

(* query_summary and the page: the newest of what matches.                 *)
Newest(S, n) ==
  {i \in S : Cardinality({j \in S : log[j].ts > log[i].ts
                                   \/ (log[j].ts = log[i].ts /\ j > i)}) < n}

ReadEvents(t) ==
  LET q == Filter(QueryDims, {req.from}, {req.to}, {}, {})
      found == {i \in rows[t] : Matches(log[i], q)}
  IN
  /\ req.kind = "events"
  /\ \A i \in found : Decodes(log[i])
  /\ req' = [req EXCEPT !.left = @ \ {t}, !.live = @ \cup Newest(found, PageLimit + 1)]

(* quota_summary has no upper end.                                         *)
ReadQuota(t) ==
  LET q == Filter(QueryDims, {req.from}, {}, {}, {})
      found == {i \in rows[t] : Matches(log[i], q)}
  IN
  /\ req.kind = "quota"
  /\ req' = [req EXCEPT !.left = @ \ {t},
                        !.sums = Merged(@, Grouped(found, [i \in found |-> "all"]))]

(* The rollups of an engine are whole days.  They are kept as events are   *)
(* written, and whether a deletion is taken out of them is the engine's.   *)
ReadRollups(t) ==
  /\ req.kind = "rollups"
  /\ \E S \in {rows[t], EverIn(t)} :
       LET mine == {i \in S : /\ \A u \in req.user : log[i].dims["user_id"] = u
                              /\ DayOf(log[i].ts) \in DayOf(req.from) .. DayOf(req.to)}
       IN req' = [req EXCEPT !.left = @ \ {t}, !.sums = Merged(@, Grouped(mine, RollupKeys))]

ReadEngine(t) ==
  /\ req.phase = "read"
  /\ t \in req.left
  /\ ReadEvents(t) \/ ReadQuota(t) \/ ReadRollups(t)
  /\ UNCHANGED <<catalog, storeVars>>

(* Mutant: a chunk that begins where the window ends is left out.          *)
OverlapsStrictly(c, from, to) == c.max_ts > from /\ c.min_ts < to

(* ManifestStore::list *)
Overlaps(c, from, to) == c.max_ts >= from /\ c.min_ts <= to

(* merge_archived_events starts when the live page is complete.            *)
ListArchives ==
  /\ req.phase = "read"
  /\ req.kind = "events"
  /\ req.left = {}
  /\ req' = [req EXCEPT !.phase = "fetch",
                        !.live = Newest(@, PageLimit),
                        !.manifests = {c \in chunks : /\ Overlaps(c, req.from, req.to)
                                                      /\ \A u \in req.user : c.user = u}]
  /\ UNCHANGED <<catalog, storeVars>>

(* fetch_one, and the filters the merge repeats: the user and the window,  *)
(* but neither the model nor any other dimension of the request.           *)
Fetch(c) ==
  /\ req.phase = "fetch"
  /\ c \in req.manifests
  /\ req' = [req EXCEPT !.manifests = @ \ {c},
       !.archived = @ \cup {i \in c.ids :
         LET e == Restored(Stored(i)) IN
         /\ e.ts >= req.from /\ e.ts <= req.to
         /\ \A u \in req.user : e.attrs["user_id"] = {u}}]
  /\ UNCHANGED <<catalog, storeVars>>

(* A chunk that cannot be fetched is skipped.                              *)
FetchFails(c) ==
  /\ req.phase = "fetch"
  /\ c \in req.manifests
  /\ req' = [req EXCEPT !.manifests = @ \ {c}, !.failed = TRUE]
  /\ UNCHANGED <<catalog, storeVars>>

(* The answer: the merged page, or the sums, all of which fit their page.  *)
Answer ==
  /\ \/ req.phase = "fetch" /\ req.manifests = {}
     \/ req.phase = "read" /\ req.left = {} /\ req.kind # "events"
  /\ req' = [req EXCEPT !.phase = "done"]
  /\ UNCHANGED <<catalog, storeVars>>

-----------------------------------------------------------------------------

Next ==
  \/ PricingNext /\ UNCHANGED <<storeVars, req>>
  \/ \E p \in Payloads, c \in Callers : Post(p, c)
  \/ \E S \in SUBSET AllRows : ArchiveChunk(S)
  \/ \E c \in chunks : DeleteArchived(c)
  \/ \E k \in Kinds, w \in Windows,
        u \in {{}} \cup {Stored(i).attrs["user_id"] : i \in DOMAIN log},
        m \in {{}} \cup {{log[i].dims["model"]} : i \in DOMAIN log} : StartRequest(k, u, m, w)
  \/ \E t \in Tiers : ReadEngine(t)
  \/ ListArchives
  \/ \E c \in chunks : Fetch(c) \/ FetchFails(c)
  \/ Answer

Spec == Init /\ [][Next]_vars

-----------------------------------------------------------------------------
(* Properties *)

(* An event reads back as it was built, from its row and from the archive: *)
(* every row can be decoded (one that cannot fails every query it matches) *)
(* and nothing but the time of receipt and the difference between an empty *)
(* text and none is lost on the way through dims, labels, counters, flag   *)
(* bits and JSON.  A client is shown the same before and after the event   *)
(* is archived.                                                            *)
RoundTrip ==
  /\ \A i \in DOMAIN log : Decodes(log[i]) /\ Stored(i) = Kept(built[i])
  /\ \A c \in chunks : \A i \in c.ids :
       LET e == Restored(Stored(i)) IN
       /\ e = Kept(built[i])
       /\ llm_event_to_response(e) = Response(llm_to_summary(Stored(i)))

(* What a response shows can be asked for: the filter made of the fields   *)
(* of an event's response, its timestamp and its status finds its row.     *)
(* The response comes from the decoded event and the filter meets the      *)
(* stored dims, so the two must agree on model, provider and ids.          *)
FoundAsShown ==
  \A i \in AllRows :
    LET shown == Response(llm_to_summary(Stored(i)))
        dims == [d \in FilterDims |->
                  CASE d \in {"model", "provider"} -> {shown[d]}
                    [] d \in {"user_id", "api_key_id", "source"} -> shown.attrs[d]
                    [] OTHER -> {}]
        above == {s + 1 : s \in shown.http_status}
    IN Matches(log[i], Filter(dims, {shown.timestamp}, {shown.timestamp}, shown.http_status, above))

(* The rows a quota, a rollup or a statistic is about, and their group.    *)
InScope(i) ==
  /\ \A u \in req.user : log[i].dims["user_id"] = u
  /\ IF req.kind = "quota" THEN log[i].ts >= req.from
     ELSE DayOf(log[i].ts) \in DayOf(req.from) .. DayOf(req.to)

GroupOf == IF req.kind = "quota" THEN [i \in DOMAIN log |-> "all"] ELSE RollupKeys

(* Between the sums over the rows S and T, group by group.                 *)
Between(sums, S, T, keyOf) ==
  LET least == Grouped(S, keyOf)
      most == Grouped(T, keyOf)
  IN \A k \in DOMAIN least \cup DOMAIN sums \cup DOMAIN most : \A f \in SumFields :
       At(least, k)[f] <= At(sums, k)[f] /\ At(sums, k)[f] <= At(most, k)[f]

(* Quotas, rollups and statistics are summed over the engines one after    *)
(* the other while events arrive, are archived and are deleted.  For each  *)
(* group and field the answer counts every event that was stored           *)
(* throughout and none that never was, each of them once.                  *)
AggregatesBracketed ==
  req.phase = "done" /\ req.kind # "events" =>
    LET stayed == {i \in req.counted \cap AllRows : InScope(i)}
        ever == {i \in DOMAIN log : InScope(i)}
        Of(S, provider) == {i \in S : \A p \in provider : log[i].dims["provider"] = p}
    IN /\ Between(req.sums, stayed, ever, GroupOf)
       /\ req.kind = "rollups" =>
            \A provider \in {{}} \cup {{log[i].dims["provider"]} : i \in ever}, by_model \in BOOLEAN :
              LET StatsOf == [i \in DOMAIN log |-> StatsKey(RollupKeys[i], by_model)] IN
              Between(aggregate_stats(req.sums, provider, by_model),
                      Of(stayed, provider), Of(ever, provider), StatsOf)

(* A page with include_archived that is not full, and for which every      *)
(* chunk was fetched, shows every matching event that was stored or        *)
(* archived when the request began, although the archiver moves events     *)
(* from the engines to the archive between the two reads; and it shows no  *)
(* event outside the user and the window that were asked for.              *)
MergedComplete ==
  req.phase = "done" /\ req.kind = "events" =>
    LET page == req.live \cup req.archived
        full == Cardinality(req.live) + Cardinality(req.archived) >= PageLimit
        q == Filter(QueryDims, {req.from}, {req.to}, {}, {})
    IN /\ req.failed \/ full \/ {i \in req.steady : Matches(log[i], q)} \subseteq page
       /\ \A i \in page : /\ log[i].ts \in req.from .. req.to
                          /\ \A u \in req.user : built[i].attrs["user_id"] = {u}

(* When the model's entry has one price for input and one for output, an   *)
(* event the server prices is billed for every token exactly once: for the *)
(* tokens Usage itself calls billable, cached or not, whatever the options *)
(* of compute_cost, up to saturation.                                      *)
BilledOnce ==
  [][\A i \in DOMAIN built' \ DOMAIN built : \A k \in lookup(catalog.index, built'[i].model) :
       LET p == PricingOf(catalog.file, k)
           u == built'[i].usage
           v == built'[i].provider.kind
       IN (/\ \A r \in Rates \ {"input", "output"} : p[r] = {}
           /\ v \in CacheExclusive \/ u["cache_read"] <= u["input"]) =>
            \A opts \in CostOpts :
              compute_cost(v, p, u, opts) =
                SaturatedNanos(
                  Unwrap(p["input"], 0) * total_billable_input_tokens(v, u)
                    + Unwrap(p["output"], 0) * total_output_tokens(u))]_built

====
