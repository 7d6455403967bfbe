---------------------------- MODULE MCEventData ----------------------------
(***************************************************************************)
(* An instance of EventData: a catalogue whose names collide through       *)
(* prefixes, dates and case, and payloads that exercise the optional       *)
(* fields.                                                                 *)
(***************************************************************************)
EXTENDS EventData, TLC

Name(path, base, date, upper) ==
  [path |-> path, base |-> base, date |-> date, upper |-> upper, padded |-> FALSE]

(* A model with prices of its own beside a prefixed and dated relative,    *)
(* two entries that fall back to the same name, one nested deeper, one     *)
(* without prices, one that does not parse and the sample.                 *)
BundledFile ==
  (Name(<<>>, "gpt", "", FALSE) :> {[input |-> 14, output |-> 26]}) @@
  (Name(<<"azure">>, "gpt", "2024-08-06", FALSE) :>
     {[input |-> 25, output |-> 40, cache_read |-> 10, reasoning |-> 90]}) @@
  (Name(<<"azure">>, "mini", "", TRUE) :> {[input |-> 30]}) @@
  (Name(<<"groq">>, "mini", "20240620", FALSE) :> {[output |-> 50]}) @@
  (Name(<<"bedrock", "us">>, "claude", "20240620", FALSE) :>
     {[input |-> 31, output |-> 150, cache_read |-> 3, cache_creation |-> 37,
       search |-> [low |-> 100, medium |-> 200]]}) @@
  (Name(<<>>, "free", "", FALSE) :> {[mode |-> 1]}) @@
  (Name(<<>>, "broken", "", FALSE) :> {}) @@
  (Name(<<>>, "sample_spec", "", FALSE) :> {[input |-> 1]})

MCFiles == [f \in {"bundled"} |-> BundledFile]

MCCallers == {[id |-> {"k1"}, tier |-> "pro"], [id |-> {}, tier |-> "free"]}

(* A body with most of its fields, some of them empty or zero.  Its        *)
(* provider counts cached tokens beside the input, that of the next one    *)
(* among it; both models have one price for input and one for output.      *)
Full ==
  [model |-> Name(<<>>, "gpt", "20991231", TRUE),
   provider |-> [key |-> "anthropic", upper |-> TRUE],
   usage |-> [input |-> 5, output |-> 2, cache_read |-> 3, image |-> 1],
   latency |-> [ttft |-> 0, total |-> 7], timestamp |-> [kind |-> "nanos", at |-> 11],
   method |-> [ok |-> TRUE, verb |-> "GET"], endpoint |-> "/v1", http_status |-> 0,
   source |-> "app", user_id |-> "ann", api_key_id |-> "spoofed", org_id |-> "",
   flags |-> {"streaming", "cache_used"}, trace_id |-> [ok |-> TRUE, v |-> 1],
   request_id |-> "r1", client_ip |-> [ok |-> TRUE, v |-> 9],
   metadata |-> [object |-> TRUE, tags |-> [user_tag |-> "t"], big |-> FALSE]]

(* A provider by URL, an unknown error, and texts that do not parse.       *)
Compatible ==
  [model |-> Name(<<>>, "gpt", "20991231", FALSE),
   provider |-> [key |-> "https://x", upper |-> TRUE],
   usage |-> [input |-> 5, output |-> 1, cache_read |-> 3, reasoning |-> 1],
   trace_id |-> [ok |-> FALSE, v |-> 2], client_ip |-> [ok |-> FALSE, v |-> 0],
   method |-> [ok |-> FALSE, verb |-> "G T"], timestamp |-> [kind |-> "iso", at |-> 20],
   error |-> [kind |-> "teapot", message |-> "m", status |-> 418], http_status |-> 418,
   metadata |-> [object |-> FALSE, tags |-> [user_tag |-> "t"], big |-> FALSE]]

(* An event with a cost of its own that cannot be archived.                *)
Refused ==
  [model |-> Name(<<>>, "mini", "", FALSE), provider |-> [key |-> "opencode-zen", upper |-> FALSE],
   cost |-> 6, error |-> [kind |-> "invalid_request"], latency |-> [close |-> 0],
   usage |-> [input |-> 1], user_id |-> "ann", timestamp |-> [kind |-> "nanos", at |-> 12]]

(* Bodies that are not accepted, each for a reason of its own.             *)
Invalid ==
  { [Refused EXCEPT !.timestamp = [kind |-> "bad", at |-> 0]],
    [Refused EXCEPT !.timestamp = [kind |-> "nanos", at |-> 4]],
    [Refused EXCEPT !.usage = [input |-> 1000]],
    [Refused EXCEPT !.user_id = "toolong"],
    [Refused EXCEPT !.cost = 1000],
    [colour |-> "red"] @@ Refused }

MCPayloads == {Full, Compatible, Refused} \cup Invalid

MCWindows == {<<11, 12>>}

(* Readers do not look at the catalogue: it is enough to change it between *)
(* requests.                                                               *)
CatalogSteadyWhileReading == req.phase = "idle" \/ UNCHANGED catalog

====
