------------------------------ MODULE MCQuery ------------------------------
(* Small instances of Query for TLC.                                       *)
EXTENDS Query, TLC

CONSTANTS hot, cold, pager, exporter

(* Events in two tiers, with distinct timestamps.                          *)
DistinctAt == [e \in Events |-> e]
TwoTiers == [e \in Events |-> IF e = 2 THEN cold ELSE hot]

(* The second and the third event share a timestamp.                       *)
TiedAt == [e \in Events |-> IF e = 3 THEN 2 ELSE e]

====
