---------------------------- MODULE MCConnections ----------------------------
(* Connections for TLC: an account of each provider to choose from, a      *)
(* server, and a worker process whose executions are interchangeable.      *)
EXTENDS Connections, FiniteSets, TLC

CONSTANTS worker, api

OfEach == [a \in {"gmail", "slack"} |-> a]
InOne == [w \in Workers |-> worker]
Symmetric == Permutations(Workers)

(* Bound: once a process has read an older keyring than the one mounted,   *)
(* and after a report, the workers take turns.                             *)
Scope ==
    \/ report = "none" /\ \A p \in Processes : ring[p] = keys
    \/ Cardinality({w \in Workers : loc[w].pc # "idle"}) <= 1
=============================================================================
