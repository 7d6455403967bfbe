------------------------------ MODULE Pricing ------------------------------
(***************************************************************************)
(* The pricing catalogue of keplor-pricing: how a file is indexed, how a   *)
(* model name is looked up, what compute_cost bills, and how the server    *)
(* replaces the catalogue while events are priced from it.                 *)
(*                                                                         *)
(* An optional value is a set of at most one element, and a sparse JSON    *)
(* object is a record without the fields it omits.                         *)
(***************************************************************************)
EXTENDS Integers, FiniteSets, Sequences, FiniteSetsExt, Functions

CONSTANTS
  Files,         \* Files[f]: a catalogue file, from raw names to raw entries
  Bundled,       \* the file compiled into the binary
  MaxNanos,      \* i64::MAX, nanodollars
  MaxCount       \* u32::MAX, tokens

(* The parts of a name: see the section on names.                          *)
NameFields == {"path", "base", "date", "upper", "padded"}

ASSUME PricingAssumption ==
  /\ Bundled \in DOMAIN Files
  /\ \A f \in DOMAIN Files :
       /\ IsFiniteSet(DOMAIN Files[f])
       /\ \A k \in DOMAIN Files[f] : k = [x \in NameFields |-> k[x]]
  /\ MaxNanos \in Nat
  /\ MaxCount \in Nat

VARIABLE catalog   \* the catalogue events are priced from: its file and its index

-----------------------------------------------------------------------------
(* Optional values *)

Field(r, f) == IF f \in DOMAIN r THEN {r[f]} ELSE {}
Unwrap(o, default) == IF o = {} THEN default ELSE CHOOSE v \in o : TRUE
OrElse(o, p) == IF o = {} THEN p ELSE o
When(b, o) == IF b THEN o ELSE {}

-----------------------------------------------------------------------------
(* Model names: a path of prefixes, a base name, an optional date suffix,  *)
(* and whether the text has upper-case letters or surrounding blanks.      *)

ModelKey(name) == [name EXCEPT !.upper = FALSE]

strip_date_suffix(name) == IF name.date = "" THEN {} ELSE {[name EXCEPT !.date = ""]}

(* split_once('/') drops the first prefix only.                            *)
Unprefixed(name) == IF name.path = <<>> THEN {} ELSE {[name EXCEPT !.path = Tail(@)]}

(* Mutant: the unprefixed name keeps its date.                             *)
FallbacksDated(key) == strip_date_suffix(key) \cup Unprefixed(key)

(* The names under which from_json indexes an entry besides its own.       *)
Fallbacks(key) ==
  strip_date_suffix(key) \cup Unprefixed(key)
    \cup UNION {strip_date_suffix(n) : n \in Unprefixed(key)}

-----------------------------------------------------------------------------
(* Entries *)

(* The prices of ModelPricing.  Prices per image, limits, capabilities and *)
(* the other metadata have no effect on a cost.                            *)
Rates ==
  {"input", "output", "cache_read", "cache_creation", "cache_creation_1hr",
   "cache_creation_200k", "reasoning", "audio", "video", "input_batches",
   "output_batches", "search", "input_200k", "output_200k", "cache_read_200k"}

(* No price is negative, as the tests of the cost engine have it; a price  *)
(* of searches is an object.                                               *)
ASSUME PriceAssumption ==
  \A f \in DOMAIN Files : \A k \in DOMAIN Files[f] : \A raw \in Files[f][k] :
    \A r \in Rates \cap DOMAIN raw :
      IF r = "search" THEN \A s \in DOMAIN raw[r] : raw[r][s] \in Nat ELSE raw[r] \in Nat

(* A raw price is in tenths of a nanodollar, so that rounding shows.       *)
dollars_to_nanos(tenths) == (tenths + 5) \div 10

(* A flat number, or the first of medium, high and low that is there.      *)
SearchCost(s) ==
  Unwrap(OrElse(Field(s, "flat"), OrElse(Field(s, "medium"),
    OrElse(Field(s, "high"), Field(s, "low")))), 0)

into_pricing(raw) ==
  [r \in Rates |->
    CASE r \in {"input", "output"} -> {dollars_to_nanos(Unwrap(Field(raw, r), 0))}
      [] r = "search" -> {dollars_to_nanos(SearchCost(s)) : s \in Field(raw, r)}
      [] OTHER -> {dollars_to_nanos(v) : v \in Field(raw, r)}]

(* The entries from_json indexes: not the sample, not one that fails to    *)
(* parse, and not one without any price per token.                         *)
Usable(f) ==
  {k \in DOMAIN Files[f] :
    /\ ~(k.base = "sample_spec" /\ k.path = <<>> /\ k.date = "" /\ ~k.upper)
    /\ Files[f][k] # {}
    /\ \E raw \in Files[f][k] : DOMAIN raw \cap {"input", "output"} # {}}

PricingOf(f, k) == into_pricing(CHOOSE raw \in Files[f][k] : TRUE)

(* Mutant: an entry does not replace what a fallback put in its place.     *)
IndexedIfAbsent(index, k) ==
  [n \in DOMAIN index \cup {ModelKey(k)} \cup Fallbacks(ModelKey(k)) |->
    IF n \in DOMAIN index THEN index[n] ELSE k]

(* One round of from_json's loop: the entry's own name is inserted, its    *)
(* fallbacks are taken only when they are free.  The index holds the entry *)
(* that prices a name.                                                     *)
Indexed(index, k) ==
  [n \in DOMAIN index \cup {ModelKey(k)} \cup Fallbacks(ModelKey(k)) |->
    IF n \in DOMAIN index /\ n # ModelKey(k) THEN index[n] ELSE k]

(* from_json visits a hash map, whose order is arbitrary: every index some *)
(* order of the usable entries leads to.                                   *)
from_json(f) ==
  LET after[S \in SUBSET Usable(f)] ==
        IF S = {} THEN {<<>>}
        ELSE UNION {{Indexed(index, k) : index \in after[S \ {k}]} : k \in S}
  IN after[Usable(f)]

Catalogs == [f \in DOMAIN Files |-> from_json(f)]

(* Catalog::lookup: the exact key, then the key without its date.          *)
lookup(index, key) ==
  LET known == ({key} \cup strip_date_suffix(key)) \cap DOMAIN index IN
  {index[n] : n \in IF key \in known THEN {key} ELSE known}

-----------------------------------------------------------------------------
(* compute_cost *)

UsageFields ==
  {"input", "output", "cache_read", "cache_creation", "reasoning", "audio_in",
   "audio_out", "image", "video_seconds", "tool_use", "search_queries"}

CostOpts ==
  [batch : BOOLEAN, hours1 : BOOLEAN, above200k : BOOLEAN]

(* The service tier and the geography of CostOpts have no effect: no       *)
(* catalogue entry has a geo multiplier.                                   *)
DefaultOpts == [batch |-> FALSE, hours1 |-> FALSE, above200k |-> FALSE]

SaturatedNanos(n) == Min({n, MaxNanos})
SaturatedCount(n) == Min({n, MaxCount})

pick_input_rate(p, opts) ==
  Unwrap(OrElse(When(opts.batch, p["input_batches"]),
    OrElse(When(opts.above200k, p["input_200k"]), p["input"])), 0)

pick_output_rate(p, opts) ==
  Unwrap(OrElse(When(opts.batch, p["output_batches"]),
    OrElse(When(opts.above200k, p["output_200k"]), p["output"])), 0)

pick_cache_read_rate(p, opts) ==
  Unwrap(OrElse(When(opts.above200k, p["cache_read_200k"]),
    OrElse(p["cache_read"], p["input"])), 0)

pick_cache_create_rate(p, opts) ==
  Unwrap(OrElse(When(opts.above200k, p["cache_creation_200k"]),
    OrElse(When(opts.hours1, p["cache_creation_1hr"]),
      OrElse(p["cache_creation"], p["input"]))), 0)

(* Anthropic and Bedrock report input tokens without the cached ones.      *)
CacheExclusive == {"anthropic", "bedrock"}

(* Mutant: cached tokens are billed in full once more.                     *)
InputLinesTwice(provider, p, u, opts) ==
  LET rate == pick_input_rate(p, opts) IN
  << u["input"] * rate, u["cache_read"] * Unwrap(p["cache_read"], rate),
     u["cache_creation"] * Unwrap(p["cache_creation"], 0) >>

(* What the input side of a request is billed: uncached input, cache reads *)
(* and cache creation.                                                     *)
InputLines(provider, p, u, opts) ==
  LET rate == pick_input_rate(p, opts) IN
  IF provider \in CacheExclusive
  THEN << u["input"] * rate,
          u["cache_read"] * pick_cache_read_rate(p, opts),
          u["cache_creation"] * pick_cache_create_rate(p, opts) >>
  ELSE << Max({u["input"] - u["cache_read"], 0}) * rate,
          u["cache_read"] * Unwrap(p["cache_read"], rate),
          u["cache_creation"] * Unwrap(p["cache_creation"], 0) >>

compute_cost(provider, p, u, opts) ==
  LET out == pick_output_rate(p, opts)
      lines == InputLines(provider, p, u, opts) \o
        << u["output"] * out,
           u["reasoning"] * Unwrap(p["reasoning"], out),
           u["audio_in"] * Unwrap(p["audio"], 0),
           u["video_seconds"] * Unwrap(p["video"], 0),
           u["search_queries"] * Unwrap(p["search"], 0) >>
  IN SaturatedNanos(SumFunction([i \in DOMAIN lines |-> SaturatedNanos(lines[i])]))

(* Usage::total_billable_input_tokens and total_output_tokens.             *)
total_billable_input_tokens(provider, u) ==
  IF provider \in CacheExclusive
  THEN SaturatedCount(u["input"] + u["cache_creation"] + u["cache_read"])
  ELSE u["input"]

total_output_tokens(u) == SaturatedCount(u["output"] + u["reasoning"])

-----------------------------------------------------------------------------
(* Refreshing: pricing_refresh_loop *)

(* The server reads the bundled file before it serves anything.            *)
PricingInit ==
  \E index \in Catalogs[Bundled] : catalog = [file |-> Bundled, index |-> index]

(* A file is fetched, changed or not, and the finished catalogue is        *)
(* swapped in as a whole.                                                  *)
Refresh(f) ==
  \E index \in Catalogs[f] : catalog' = [file |-> f, index |-> index]

(* Mutant: a failed fetch leaves an empty catalogue behind.                *)
RefreshFailsEmpty == catalog' = [catalog EXCEPT !.index = <<>>]

(* The download or the parse of the document fails: the loop keeps what it *)
(* has and tries again after the interval.                                 *)
RefreshFails == UNCHANGED catalog

PricingNext == RefreshFails \/ \E f \in DOMAIN Files : Refresh(f)

-----------------------------------------------------------------------------
(* Properties *)

(* Whatever the order of the load, a model that has an entry of its own is *)
(* priced by that entry, never by a prefixed or dated relative that came   *)
(* first.  (Names that differ in case alone are one name.)                 *)
OwnPriceWins ==
  \A k \in Usable(catalog.file) :
    \A j \in lookup(catalog.index, ModelKey(k)) : ModelKey(j) = ModelKey(k)

(* A served catalogue prices every variant of every entry: without its     *)
(* first prefix, without its date, and with any other date, as the         *)
(* fallback of lookup promises for models newer than the catalogue.        *)
VariantsPriced ==
  \A k \in Usable(catalog.file) :
    \A n \in {ModelKey(k)} \cup Unprefixed(ModelKey(k)) :
      \A d \in {"", "2024-08-06", "20991231"} :
        lookup(catalog.index, [n EXCEPT !.date = d]) # {}

(* The entries that could price name n.                                    *)
Sources(f, n) ==
  {k \in Usable(f) :
     ({n} \cup strip_date_suffix(n)) \cap ({ModelKey(k)} \cup Fallbacks(ModelKey(k))) # {}}

(* A refresh that brings the same file back changes no price, except of    *)
(* names that only several different entries fall back to: which of those  *)
(* wins depends on the order of the load.                                  *)
RefreshKeepsPrice ==
  [][catalog'.file = catalog.file =>
       \A n \in DOMAIN catalog.index \cup DOMAIN catalog'.index :
         Cardinality(Sources(catalog.file, n)) = 1 =>
           lookup(catalog'.index, n) = lookup(catalog.index, n)]_catalog

====
