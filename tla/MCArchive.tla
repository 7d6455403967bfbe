----------------------------- MODULE MCArchive -----------------------------
(* Small instances of Archive for TLC.                                     *)
EXTENDS Archive, TLC

CONSTANTS alice, bob

(* Two events of one user and day, and a later one of another user.        *)
TwoDays == (1 :> 0) @@ (2 :> 0) @@ (3 :> 1)
TwoUsers == (1 :> alice) @@ (2 :> alice) @@ (3 :> bob)

(* Three events of one user and day, and a later one of another user.      *)
SplitDays == (1 :> 0) @@ (2 :> 0) @@ (3 :> 0) @@ (4 :> 1)
SplitUsers == (1 :> alice) @@ (2 :> alice) @@ (3 :> alice) @@ (4 :> bob)

(* The third event of a partition, which the batch size splits off, comes  *)
(* only into behaviours without the other user's event, without garbage    *)
(* collection and without erasure.                                         *)
SplitAlone ==
  3 \in ingested' =>
    4 \notin ingested' /\ gced' = {} /\ \A u \in Erasures : erasing'[u] = "no"

(* Events of one user and day.                                             *)
OneDay == [e \in Events |-> 0]
OneUser == [e \in Events |-> alice]

====
