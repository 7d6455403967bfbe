----------------------------- MODULE MCGateway -----------------------------
(* A small instance of Gateway for TLC.  Its tiers are not among the eager *)
(* ones of KdbConfig::new, so their engines have to be mounted.            *)
EXTENDS Gateway, TLC

CONSTANTS r1, r2, r3

Config(parses, api_keys, entries, default_tier) ==
  [parses |-> parses, api_keys |-> api_keys, entries |-> entries,
   tiers |-> {"basic"}, default_tier |-> default_tier,
   settings |-> [request_timeout_secs |-> 30, size_check_interval_ms |-> 1000]]

(* One simple key, of the default tier.                                    *)
Before == Config(TRUE, <<[id |-> "", secret |-> "s"]>>, <<>>, "basic")

(* The key is listed a second time, with another id and tier.              *)
After ==
  Config(TRUE, <<[id |-> "", secret |-> "s"]>>,
         <<[id |-> "k", secret |-> "s", tier |-> "gold"]>>, "basic")

Broken == Config(FALSE, <<>>, <<>>, "basic")

MCConfigs == {Before, After, Broken}

SameSecret == [r \in Requests |-> "s"]

(* What is flushed and collected matters to the size check only, and what  *)
(* times out or fails adds nothing to a segment that another request would *)
(* not: they do not meet in one behaviour.                                 *)
Apart ==
  (\E r \in Requests : flushedAt'[r] # None) =>
    \A r \in Requests : answer'[r] # 408 /\ job'[r] # "failed"

====
