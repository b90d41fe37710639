---------------------------- MODULE SearchFanout ----------------------------
(***************************************************************************)
(* One search: plan_search writes a run and a job per source, workers      *)
(* execute the jobs and store what each source found, and whoever ends     *)
(* last closes the search. Implements AbstractSearch, on which SearchView  *)
(* builds what a client sees.                                              *)
(*                                                                         *)
(* Adapter jobs have no partition, so the runs of a search execute side by *)
(* side; of one run there is one execution at a time, because its lease    *)
(* (90 s) outlives its deadline (30 s), and loc is indexed by the run.     *)
(* Every transaction is an action. A source finds one result or none, and  *)
(* a stored result is known by the attempt that found it, and how: Slack's *)
(* adapter reads the channels itself where it may not search.              *)
(***************************************************************************)
EXTENDS Integers, Sequences

CONSTANTS
    NRuns,        \* the runs a search can have, in the order of the snapshot
    Sources,      \* the registered sources
    SourceOf,     \* the source of each run: several if it has more connections
    ModeOf,       \* what each source is registered as: "live" or "mock"
    Degradable,   \* the sources whose adapter has a fallback
    Faults,       \* what may go wrong beyond crashing (see FaultKinds)
    MaxAttempts,  \* settings.max_attempts
    MaxCrashes    \* bound: deaths of a worker

Runs == 1..NRuns

(* cancel:   the job's deadline cancels the handler;                       *)
(* db_error: a statement of the handler raises.                            *)
FaultKinds == {"cancel", "db_error"}

(* A source without a connection to use still gets a run. *)
ASSUME FanoutAssumption ==
    /\ NRuns \in Nat \ {0}
    /\ SourceOf \in [Runs -> Sources]
    /\ \A s \in Sources : \E r \in Runs : SourceOf[r] = s
    /\ ModeOf \in [Sources -> {"live", "mock"}] /\ Degradable \subseteq Sources
    /\ Faults \subseteq FaultKinds
    /\ MaxAttempts \in Nat \ {0}
    /\ MaxCrashes \in Nat

VARIABLES
    run,       \* the adapter_runs rows: status, result_count and mode
    results,   \* the search_results rows of each run
    finished,  \* searches.finished_at IS NOT NULL
    jobs,      \* the jobs rows, one per run
    loc,       \* local state of each worker
    lost,      \* history: jobs put to rest with their handler cut short
    crashes    \* workers that died

vars == <<run, results, finished, jobs, loc, lost, crashes>>

Outstanding == {"pending", "running"}
Statuses == Outstanding \cup {"none", "done", "failed", "needs_reconnect"}
AtRest == {"succeeded", "failed", "parked"}
(* ErrorClass; config fares as permanent does. *)
Classes == {"transient", "permanent", "needs_reconnect"}
HandlerPcs == {"start", "search", "scan", "store", "record_failure", "close", "close_failed"}

Ways == {"search", "scan"}
Result == [attempt: 1..MaxAttempts, way: Ways]
RunRow == [status: Statuses, count: 0..1, mode: {"live", "mock", "degraded"}]
JobRow == [state: {"none", "ready", "running"} \cup AtRest, attempts: 0..MaxAttempts]
Local == [pc: {"idle", "finish", "raise"} \cup HandlerPcs, found: 0..1, way: Ways,
          class: Classes, cut: BOOLEAN]

NoRun == [status |-> "none", count |-> 0, mode |-> "live"]
Idle == [pc |-> "idle", found |-> 0, way |-> "search", class |-> "transient",
         cut |-> FALSE]

(* The rows have the types of the schema; JobRow bounds attempts as        *)
(* jobs_attempts_bounded does, so the claim never raises it.               *)
TypeOK ==
    /\ run \in [Runs -> RunRow]
    /\ results \in [Runs -> Seq(Result)]
    /\ finished \in BOOLEAN
    /\ jobs \in [Runs -> JobRow]
    /\ loc \in [Runs -> Local]
    /\ lost \subseteq Runs
    /\ crashes \in 0..MaxCrashes

Init ==
    /\ run = [r \in Runs |-> NoRun]
    /\ results = [r \in Runs |-> <<>>]
    /\ finished = FALSE
    /\ jobs = [r \in Runs |-> [state |-> "none", attempts |-> 0]]
    /\ loc = [r \in Runs |-> Idle]
    /\ lost = {}
    /\ crashes = 0

Planned == {r \in Runs : run[r].status # "none"}
Become(r, l) == loc' = [loc EXCEPT ![r] = l]

-----------------------------------------------------------------------------
(* The API *)

(* plan_search: the search, its runs and their jobs in one transaction. *)
PlanSearch(chosen) ==
    LET planned == {r \in Runs : SourceOf[r] \in chosen}
    IN /\ Planned = {} /\ chosen # {}
       /\ run' = [r \in Runs |-> IF r \in planned
                                 THEN [status |-> "pending", count |-> 0,
                                       mode |-> ModeOf[SourceOf[r]]] ELSE NoRun]
       /\ jobs' = [r \in Runs |-> IF r \in planned
                                  THEN [state |-> "ready", attempts |-> 0] ELSE jobs[r]]
       /\ UNCHANGED <<results, finished, loc, lost, crashes>>

-----------------------------------------------------------------------------
(* A worker executes a run *)

Claimable(r) == jobs[r].state = "ready" /\ jobs[r].attempts < MaxAttempts

Claim(r) ==
    /\ loc[r].pc = "idle"
    /\ Claimable(r)
    /\ jobs' = [jobs EXCEPT ![r] = [state |-> "running", attempts |-> @.attempts + 1]]
    /\ Become(r, [Idle EXCEPT !.pc = "start"])
    /\ UNCHANGED <<run, results, finished, lost, crashes>>

(* _mark_run_started, whatever the run or the search had become. *)
MarkRunStarted(r) ==
    /\ loc[r].pc = "start"
    /\ run' = [run EXCEPT ![r].status = "running"]
    /\ Become(r, [loc[r] EXCEPT !.pc = "search"])
    /\ UNCHANGED <<results, finished, jobs, lost, crashes>>

Found(r, way) ==
    \/ \E n \in 0..1 : Become(r, [loc[r] EXCEPT !.pc = "store", !.found = n, !.way = way])
    \/ \E c \in Classes :
          Become(r, [loc[r] EXCEPT !.pc = "record_failure", !.class = c])

(* adapter.search under its own deadline: results, or an error by class;   *)
(* if it is one of FALLBACK_TRIGGERS, Slack's goes on to scan.             *)
Search(r) ==
    /\ loc[r].pc = "search"
    /\ \/ Found(r, "search")
       \/ /\ SourceOf[r] \in Degradable
          /\ Become(r, [loc[r] EXCEPT !.pc = "scan"])
    /\ UNCHANGED <<run, results, finished, jobs, lost, crashes>>

(* _scan: a channel it cannot read is skipped, the list of them is not. *)
Scan(r) ==
    /\ loc[r].pc = "scan"
    /\ Found(r, "scan")
    /\ UNCHANGED <<run, results, finished, jobs, lost, crashes>>

NewRows(r, l) ==
    IF l.found = 1 THEN <<[attempt |-> jobs[r].attempts, way |-> l.way]>> ELSE <<>>

(* Mutant: what an earlier execution stored is left in place. *)
AddRows(r, l) == results[r] \o NewRows(r, l)

(* DELETE, then INSERT. *)
Rows(r, l) == NewRows(r, l)

(* Mutant: what the source was registered as stands. *)
KeepMode(r, l) == run[r].mode

(* COALESCE(reported_mode, mode) *)
Mode(r, l) == IF l.way = "scan" THEN "degraded" ELSE run[r].mode

(* Mutant: the count of an earlier execution is added to. *)
AddCount(r, l) == run[r].count + l.found

Count(r, l) == l.found

(* The rows, their count, the status and the mode commit together. *)
StoreResults(r) ==
    LET l == loc[r]
    IN /\ l.pc = "store"
       /\ results' = [results EXCEPT ![r] = Rows(r, l)]
       /\ run' = [run EXCEPT ![r] = [status |-> "done", count |-> Count(r, l),
                                     mode |-> Mode(r, l)]]
       /\ Become(r, [Idle EXCEPT !.pc = "close"])
       /\ UNCHANGED <<finished, jobs, lost, crashes>>

(* Mutant: only the success path closes the search. *)
NeverCloses(r, l) == "raise"

WillRetry(r, l) == l.class = "transient" /\ jobs[r].attempts < MaxAttempts

AfterFailure(r, l) == IF WillRetry(r, l) THEN "raise" ELSE "close_failed"

(* _record_run_failure: the status says failed also when a retry is due. *)
RecordRunFailure(r) ==
    LET l == loc[r]
    IN /\ l.pc = "record_failure"
       /\ run' = [run EXCEPT ![r].status =
                    IF l.class = "needs_reconnect" THEN "needs_reconnect" ELSE "failed"]
       /\ Become(r, [l EXCEPT !.pc = AfterFailure(r, l)])
       /\ UNCHANGED <<results, finished, jobs, lost, crashes>>

(* Mutant: a run that nobody has started yet is not waited for. *)
NoneRunning == \A r \in Planned : run[r].status # "running"

(* close_search_if_complete, after the run's status has committed. *)
Complete == \A r \in Planned : run[r].status \notin Outstanding

CloseSearch(r) ==
    /\ loc[r].pc \in {"close", "close_failed"}
    /\ finished' = (finished \/ Complete)
    /\ Become(r, [loc[r] EXCEPT !.pc = IF @ = "close" THEN "finish" ELSE "raise"])
    /\ UNCHANGED <<run, results, jobs, lost, crashes>>

(* queue.succeed or queue.fail. *)
Outcome(r, l) ==
    IF l.pc = "finish" THEN "succeeded"
    ELSE IF l.class # "transient" THEN "failed"
    ELSE IF jobs[r].attempts >= MaxAttempts THEN "parked" ELSE "ready"

FinishJob(r) ==
    LET l == loc[r]
    IN /\ l.pc \in {"finish", "raise"}
       /\ jobs' = [jobs EXCEPT ![r].state = Outcome(r, l)]
       /\ lost' = IF Outcome(r, l) \in AtRest /\ l.cut THEN lost \cup {r} ELSE lost
       /\ Become(r, Idle)
       /\ UNCHANGED <<run, results, finished, crashes>>

(* wait_for cancels run_adapter. Its except Exception does not see a       *)
(* CancelledError, so no failure is recorded; the TimeoutError is          *)
(* transient. The job's deadline is not longer than the adapter's own.     *)
CancelHandler(r) ==
    /\ "cancel" \in Faults
    /\ loc[r].pc \in HandlerPcs
    /\ Become(r, [loc[r] EXCEPT !.pc = "raise", !.class = "transient", !.cut = TRUE])
    /\ UNCHANGED <<run, results, finished, jobs, lost, crashes>>

(* An unclassified error is permanent; only the adapter's half of          *)
(* run_adapter is inside its try.                                          *)
DbError(r) ==
    /\ "db_error" \in Faults
    /\ loc[r].pc \in (HandlerPcs \cup {"finish"}) \ {"search", "scan"}
    /\ Become(r, [loc[r] EXCEPT !.class = "permanent",
                     !.pc = IF @ = "store" THEN "record_failure" ELSE "raise",
                     !.cut = loc[r].pc \notin {"store", "finish"}])
    /\ UNCHANGED <<run, results, finished, jobs, lost, crashes>>

Crash(r) ==
    /\ loc[r].pc # "idle" /\ crashes < MaxCrashes
    /\ crashes' = crashes + 1
    /\ Become(r, Idle)
    /\ UNCHANGED <<run, results, finished, jobs, lost>>

(* The sweep's RETRY branch: requeue, or park after the last attempt. *)
Sweep(r) ==
    /\ jobs[r].state = "running" /\ loc[r].pc = "idle"
    /\ IF jobs[r].attempts >= MaxAttempts
       THEN /\ jobs' = [jobs EXCEPT ![r].state = "parked"]
            /\ lost' = lost \cup {r}
       ELSE /\ jobs' = [jobs EXCEPT ![r].state = "ready"]
            /\ UNCHANGED lost
    /\ UNCHANGED <<run, results, finished, loc, crashes>>

-----------------------------------------------------------------------------
RunAdapter(r) ==
    \/ MarkRunStarted(r) \/ Search(r) \/ Scan(r) \/ StoreResults(r)
    \/ RecordRunFailure(r) \/ CloseSearch(r) \/ FinishJob(r)

Next ==
    \/ \E chosen \in SUBSET Sources : PlanSearch(chosen)
    \/ \E r \in Runs :
          \/ Claim(r) \/ RunAdapter(r) \/ CancelHandler(r) \/ DbError(r) \/ Crash(r)
          \/ Sweep(r)

Spec == Init /\ [][Next]_vars

(* Workers and the sweep are called for ever; a handler keeps stepping.    *)
Fairness ==
    \A r \in Runs : WF_vars(RunAdapter(r)) /\ WF_vars(Claim(r)) /\ WF_vars(Sweep(r))

FairSpec == Spec /\ Fairness

-----------------------------------------------------------------------------
(* Properties *)

(* A run that is executed again replaces what it stored before: a search   *)
(* never shows a result twice, and result_count is the number of rows of   *)
(* every run that is done.                                                 *)
ResultsOnce ==
    \A r \in Runs : /\ Len(results[r]) <= 1
                    /\ run[r].status = "done" => Len(results[r]) = run[r].count

(* No source fakes quietly: while rows that the fallback found, or that a  *)
(* stand-in made up, are shown, the mode shown beside them says so, also   *)
(* after a later execution of the run has failed or been cut short.        *)
ModeHonest ==
    \A r \in Runs : results[r] # <<>>
        => /\ ModeOf[SourceOf[r]] = "mock" => run[r].mode # "live"
           /\ \A i \in DOMAIN results[r] : results[r][i].way = "scan"
                                          => run[r].mode = "degraded"

(* The last committer closes: once every job of a search is at rest, and   *)
(* no handler was cut short on its way there, finished_at is set, in       *)
(* whatever order the runs ended.                                          *)
LastCloses ==
    /\ Planned # {}
    /\ \A r \in Planned : jobs[r].state \in AtRest
    /\ lost = {}
    => finished

(* Every planned search is closed in the end unless one of its jobs came   *)
(* to rest with its handler cut short, by a deadline, an error of the      *)
(* database or a crash on the last attempt.                                *)
SearchCloses == Planned # {} ~> finished \/ lost # {}

(* The jobs, with their retries, crashes and errors, amount to no more     *)
(* than AbstractSearch allows: a run stores or fails only after it was     *)
(* started and at most once each time, its rows, count and status change   *)
(* together, and the search is closed only while no run is outstanding.    *)
Abstract == INSTANCE AbstractSearch
              WITH Lists <- {<<>>} \cup {<<x>> : x \in Result},
                   run <- [r \in Runs |-> [status |-> run[r].status,
                                            count |-> run[r].count]]

ImplementsSearch == Abstract!Search

-----------------------------------------------------------------------------
(* What the code says of itself and does not do *)

(* close_search_if_complete: finished_at means no source will change again.*)
FinishedIsFinal == [][finished => UNCHANGED <<run, results>>]_vars

(* A search where one adapter died is finished, not permanently in         *)
(* progress.                                                               *)
AlwaysFinishes == Planned # {} ~> finished
=============================================================================
