--------------------------- MODULE MCSearchFanout ---------------------------
(* SearchFanout for TLC: two sources with one run each, one that is live   *)
(* and has a fallback and one that serves fixtures.                        *)
EXTENDS SearchFanout

TwoSources == {"slack", "web"}
OneRunEach == [r \in 1..2 |-> IF r = 1 THEN "slack" ELSE "web"]
SlackLive == [s \in TwoSources |-> IF s = "slack" THEN "live" ELSE "mock"]
=============================================================================
