--------------------------- MODULE AbstractSearch ---------------------------
(***************************************************************************)
(* What a search promises to whoever reads it: a run per source, each of   *)
(* which is started, perhaps more than once, and each time either stores   *)
(* what its source found, all of it at once and in place of what was there *)
(* before, or fails; and a search that is closed at a moment when no run   *)
(* is outstanding. Nothing is said of jobs, workers, retries or crashes.   *)
(***************************************************************************)
EXTENDS Integers, Sequences

CONSTANTS
    NRuns,     \* the runs a search can have, in the order of the snapshot
    Sources,   \* the registered sources
    SourceOf,  \* the source of each run: several if it has more connections
    Lists      \* the lists of results that a source may return

Runs == 1..NRuns

(* A source without a connection to use still gets a run. *)
ASSUME SearchAssumption ==
    /\ NRuns \in Nat \ {0}
    /\ SourceOf \in [Runs -> Sources]
    /\ \A s \in Sources : \E r \in Runs : SourceOf[r] = s

VARIABLES
    run,       \* the adapter_runs rows: status and result_count
    results,   \* the search_results rows of each run, best first
    finished   \* searches.finished_at IS NOT NULL

Outstanding == {"pending", "running"}
NoRun == [status |-> "none", count |-> 0]
Planned == {r \in Runs : run[r].status # "none"}
Complete == \A r \in Planned : run[r].status \notin Outstanding

NothingYet ==
    /\ run = [r \in Runs |-> NoRun]
    /\ results = [r \in Runs |-> <<>>]
    /\ finished = FALSE

Plan(chosen) ==
    /\ Planned = {} /\ chosen # {}
    /\ run' = [r \in Runs |-> IF SourceOf[r] \in chosen
                              THEN [NoRun EXCEPT !.status = "pending"] ELSE NoRun]
    /\ UNCHANGED <<results, finished>>

Start(r) ==
    /\ r \in Planned
    /\ run' = [run EXCEPT ![r].status = "running"]
    /\ UNCHANGED <<results, finished>>

(* Mutant: what was there before stays. *)
StoreMore(r, found) ==
    /\ run[r].status = "running"
    /\ results' = [results EXCEPT ![r] = @ \o found]
    /\ run' = [run EXCEPT ![r] = [status |-> "done", count |-> Len(found)]]
    /\ UNCHANGED finished

Store(r, found) ==
    /\ run[r].status = "running"
    /\ results' = [results EXCEPT ![r] = found]
    /\ run' = [run EXCEPT ![r] = [status |-> "done", count |-> Len(found)]]
    /\ UNCHANGED finished

Fail(r, status) ==
    /\ run[r].status = "running"
    /\ run' = [run EXCEPT ![r].status = status]
    /\ UNCHANGED <<results, finished>>

Close ==
    /\ Planned # {} /\ Complete
    /\ finished' = TRUE
    /\ UNCHANGED <<run, results>>

Proceed ==
    \/ \E chosen \in SUBSET Sources : Plan(chosen)
    \/ \E r \in Runs : \/ Start(r)
                       \/ \E found \in Lists : Store(r, found)
                       \/ \E status \in {"failed", "needs_reconnect"} : Fail(r, status)
    \/ Close

Search == NothingYet /\ [][Proceed]_<<run, results, finished>>
=============================================================================
