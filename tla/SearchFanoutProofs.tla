------------------------- MODULE SearchFanoutProofs -------------------------
(***************************************************************************)
(* For every number of runs, attempts and crashes, and under every fault:  *)
(* SearchFanout keeps its types, stores results once and honestly          *)
(* labelled, lets the last run close the search, and implements            *)
(* AbstractSearch.                                                         *)
(***************************************************************************)
EXTENDS SearchFanout, TLAPS

-----------------------------------------------------------------------------
(* Types *)

(* Whoever executes a run holds its job, claimed at least once: what it    *)
(* stores is labelled with that attempt.                                   *)
Held ==
    \A r \in Runs : loc[r].pc # "idle" => jobs[r].state = "running" /\ jobs[r].attempts >= 1

(* A run has its job from the transaction that planned both. *)
Booked == \A r \in Runs : run[r].status = "none" <=> jobs[r].state = "none"

TypeInv == TypeOK /\ Held /\ Booked

LEMMA IdleTyped == Idle \in Local
BY DEF Idle, Local, Classes, Ways

LEMMA AfreshTyped ==
    ASSUME NEW pc \in {"start", "close"}
    PROVE  [Idle EXCEPT !.pc = pc] \in Local
BY IdleTyped DEF Local, HandlerPcs

LEMMA InitTyped == Init => TypeInv
<1> SUFFICES ASSUME Init PROVE TypeInv
  OBVIOUS
<1>1. run \in [Runs -> RunRow]
  BY DEF Init, NoRun, RunRow, Statuses
<1>2. results \in [Runs -> Seq(Result)]
  BY DEF Init
<1>3. jobs \in [Runs -> JobRow]
  BY FanoutAssumption DEF Init, JobRow
<1>4. loc \in [Runs -> Local]
  BY IdleTyped DEF Init
<1>5. crashes \in 0..MaxCrashes
  BY FanoutAssumption DEF Init
<1>6. Held
  BY DEF Init, Held, Idle
<1>7. Booked
  BY DEF Init, Booked, NoRun
<1> QED
  BY <1>1, <1>2, <1>3, <1>4, <1>5, <1>6, <1>7 DEF TypeInv, TypeOK, Init

(* A worker that goes on and touches none of the rows. *)
LEMMA OnlyMoves ==
    ASSUME TypeInv, NEW r \in Runs, NEW l \in Local, Become(r, l),
           loc[r].pc # "idle", UNCHANGED <<run, results, jobs, lost, crashes>>,
           finished' \in BOOLEAN
    PROVE  TypeInv'
<1>1. loc' \in [Runs -> Local]
  BY DEF TypeInv, TypeOK, Become
<1>2. Held' /\ Booked'
  BY DEF TypeInv, TypeOK, Held, Booked, Become
<1> QED
  BY <1>1, <1>2 DEF TypeInv, TypeOK

(* Where the handlers' next places come from. *)
LEMMA SearchMoves ==
    ASSUME TypeInv, NEW r \in Runs, NEW way \in Ways, Found(r, way)
    PROVE  \E l \in Local : /\ Become(r, l)
                            /\ l.pc \in {"store", "record_failure"} /\ l.cut = loc[r].cut
<1>1. loc[r] \in Local
  BY DEF TypeInv, TypeOK
<1>2. ASSUME NEW n \in 0..1,
             Become(r, [loc[r] EXCEPT !.pc = "store", !.found = n, !.way = way])
      PROVE  \E l \in Local : /\ Become(r, l)
                              /\ l.pc \in {"store", "record_failure"} /\ l.cut = loc[r].cut
  <2> DEFINE l == [loc[r] EXCEPT !.pc = "store", !.found = n, !.way = way]
  <2>1. l \in Local /\ l.pc = "store" /\ l.cut = loc[r].cut
    BY <1>1 DEF Local, HandlerPcs
  <2> QED BY <1>2, <2>1
<1>3. ASSUME NEW c \in Classes,
             Become(r, [loc[r] EXCEPT !.pc = "record_failure", !.class = c])
      PROVE  \E l \in Local : /\ Become(r, l)
                              /\ l.pc \in {"store", "record_failure"} /\ l.cut = loc[r].cut
  <2> DEFINE l == [loc[r] EXCEPT !.pc = "record_failure", !.class = c]
  <2>1. l \in Local /\ l.pc = "record_failure" /\ l.cut = loc[r].cut
    BY <1>1 DEF Local, HandlerPcs
  <2> QED BY <1>3, <2>1
<1> QED
  BY <1>2, <1>3 DEF Found

LEMMA NextTyped == TypeInv /\ [Next]_vars => TypeInv'
<1> SUFFICES ASSUME TypeInv, [Next]_vars PROVE TypeInv'
  OBVIOUS
<1>1. ASSUME NEW chosen \in SUBSET Sources, PlanSearch(chosen) PROVE TypeInv'
  <2>1. run' \in [Runs -> RunRow]
    BY <1>1, FanoutAssumption DEF PlanSearch, NoRun, RunRow, Statuses, Outstanding
  <2>2. jobs' \in [Runs -> JobRow]
    BY <1>1, FanoutAssumption DEF PlanSearch, JobRow, TypeInv, TypeOK
  <2>3. \A r \in Runs : run[r].status = "none" /\ jobs[r].state = "none" /\ loc[r].pc = "idle"
    BY <1>1 DEF PlanSearch, TypeInv, Held, Booked, Planned
  <2>4. Held'
    BY <1>1, <2>3 DEF PlanSearch, Held
  <2>5. Booked'
    BY <1>1, <2>3 DEF PlanSearch, Booked, NoRun
  <2> QED
    BY <1>1, <2>1, <2>2, <2>4, <2>5 DEF PlanSearch, TypeInv, TypeOK
<1>2. ASSUME NEW r \in Runs, Claim(r) PROVE TypeInv'
  <2>1. loc' \in [Runs -> Local]
    <3>1. [Idle EXCEPT !.pc = "start"] \in Local
      BY AfreshTyped
    <3> QED BY <1>2, <3>1 DEF Claim, Become, TypeInv, TypeOK
  <2>2. jobs' \in [Runs -> JobRow] /\ jobs'[r].attempts >= 1 /\ jobs'[r].state = "running"
    BY <1>2, FanoutAssumption DEF Claim, Claimable, JobRow, TypeInv, TypeOK
  <2>3. Held' /\ Booked'
    BY <1>2, <2>2 DEF Claim, Claimable, TypeInv, TypeOK, Held, Booked, Become
  <2> QED
    BY <1>2, <2>1, <2>2, <2>3 DEF Claim, TypeInv, TypeOK
<1>3. ASSUME NEW r \in Runs, MarkRunStarted(r) PROVE TypeInv'
  <2>1. loc' \in [Runs -> Local] /\ Held'
    <3>1. [loc[r] EXCEPT !.pc = "search"] \in Local
      BY DEF Local, HandlerPcs, TypeInv, TypeOK
    <3> QED BY <1>3, <3>1 DEF MarkRunStarted, Become, TypeInv, TypeOK, Held
  <2>2. "running" \in Statuses
    BY DEF Statuses, Outstanding
  <2>3. run' \in [Runs -> RunRow]
    BY <1>3, <2>2 DEF MarkRunStarted, TypeInv, TypeOK, RunRow
  <2>4. Booked'
    BY <1>3 DEF MarkRunStarted, TypeInv, TypeOK, RunRow, Held, Booked
  <2> QED
    BY <1>3, <2>1, <2>3, <2>4 DEF MarkRunStarted, TypeInv, TypeOK
<1>4. ASSUME NEW r \in Runs, Search(r) PROVE TypeInv'
  <2>1. CASE Found(r, "search")
    BY <1>4, <2>1, SearchMoves, OnlyMoves DEF Search, Ways, TypeInv, TypeOK
  <2>2. CASE Become(r, [loc[r] EXCEPT !.pc = "scan"])
    <3>1. [loc[r] EXCEPT !.pc = "scan"] \in Local
      BY DEF Local, HandlerPcs, TypeInv, TypeOK
    <3> QED BY <1>4, <2>2, <3>1, OnlyMoves DEF Search, TypeInv, TypeOK
  <2> QED
    BY <1>4, <2>1, <2>2 DEF Search
<1>5. ASSUME NEW r \in Runs, Scan(r) PROVE TypeInv'
  BY <1>5, SearchMoves, OnlyMoves DEF Scan, Ways, TypeInv, TypeOK
<1>6. ASSUME NEW r \in Runs, StoreResults(r) PROVE TypeInv'
  <2>1. loc' \in [Runs -> Local] /\ Held'
    <3>1. [Idle EXCEPT !.pc = "close"] \in Local
      BY AfreshTyped
    <3> QED BY <1>6, <3>1 DEF StoreResults, Become, TypeInv, TypeOK, Held
  <2>2. jobs[r].attempts \in 1..MaxAttempts /\ loc[r].way \in Ways /\ loc[r].found \in 0..1
    BY <1>6 DEF StoreResults, TypeInv, TypeOK, Held, JobRow, Local
  <2>3. Rows(r, loc[r]) \in Seq(Result)
    <3> DEFINE x == [attempt |-> jobs[r].attempts, way |-> loc[r].way]
    <3>1. x \in Result
      BY <2>2 DEF Result
    <3>2. Rows(r, loc[r]) \in {<<>>, <<x>>}
      BY DEF Rows, NewRows
    <3> HIDE DEF x
    <3>3. <<>> \in Seq(Result) /\ <<x>> \in Seq(Result)
      BY <3>1
    <3> QED BY <3>2, <3>3
  <2>4. [status |-> "done", count |-> Count(r, loc[r]), mode |-> Mode(r, loc[r])] \in RunRow
    BY <2>2 DEF Count, Mode, RunRow, Statuses, TypeInv, TypeOK
  <2>5. Booked'
    BY <1>6 DEF StoreResults, TypeInv, TypeOK, Held, Booked
  <2> QED
    BY <1>6, <2>1, <2>3, <2>4, <2>5 DEF StoreResults, TypeInv, TypeOK
<1>7. ASSUME NEW r \in Runs, RecordRunFailure(r) PROVE TypeInv'
  <2>1. loc' \in [Runs -> Local] /\ Held'
    <3>1. AfterFailure(r, loc[r]) \in {"raise", "close_failed"}
      BY DEF AfterFailure
    <3>2. [loc[r] EXCEPT !.pc = AfterFailure(r, loc[r])] \in Local
      BY <3>1 DEF Local, HandlerPcs, TypeInv, TypeOK
    <3> QED BY <1>7, <3>2 DEF RecordRunFailure, Become, TypeInv, TypeOK, Held
  <2>2. run' \in [Runs -> RunRow]
    <3> DEFINE s == IF loc[r].class = "needs_reconnect" THEN "needs_reconnect" ELSE "failed"
    <3>1. s \in Statuses /\ run' = [run EXCEPT ![r].status = s]
      BY <1>7 DEF RecordRunFailure, Statuses
    <3> HIDE DEF s
    <3> QED BY <3>1 DEF TypeInv, TypeOK, RunRow
  <2>3. Booked'
    BY <1>7 DEF RecordRunFailure, TypeInv, TypeOK, RunRow, Held, Booked
  <2> QED
    BY <1>7, <2>1, <2>2, <2>3 DEF RecordRunFailure, TypeInv, TypeOK
<1>8. ASSUME NEW r \in Runs, CloseSearch(r) PROVE TypeInv'
  <2> DEFINE p == IF loc[r].pc = "close" THEN "finish" ELSE "raise"
  <2>1. p \in {"finish", "raise"} /\ Become(r, [loc[r] EXCEPT !.pc = p])
    BY <1>8 DEF CloseSearch
  <2>2. finished' \in BOOLEAN
    BY <1>8 DEF CloseSearch, TypeInv, TypeOK
  <2> HIDE DEF p
  <2>3. [loc[r] EXCEPT !.pc = p] \in Local
    BY <2>1 DEF Local, TypeInv, TypeOK
  <2> QED
    BY <1>8, <2>1, <2>2, <2>3, OnlyMoves DEF CloseSearch
<1>9. ASSUME NEW r \in Runs, FinishJob(r) PROVE TypeInv'
  <2>1. loc' \in [Runs -> Local] /\ Held'
    BY <1>9, IdleTyped DEF FinishJob, Become, Idle, TypeInv, TypeOK, Held
  <2>2. jobs' \in [Runs -> JobRow]
    <3>1. Outcome(r, loc[r]) \in {"ready"} \cup AtRest
      BY DEF Outcome, AtRest
    <3> QED BY <1>9, <3>1 DEF FinishJob, TypeInv, TypeOK, JobRow
  <2>3. Booked'
    <3>1. Outcome(r, loc[r]) # "none"
      BY DEF Outcome
    <3> QED BY <1>9, <3>1 DEF FinishJob, TypeInv, TypeOK, JobRow, Held, Booked
  <2> QED
    BY <1>9, <2>1, <2>2, <2>3 DEF FinishJob, TypeInv, TypeOK
<1>10. ASSUME NEW r \in Runs, CancelHandler(r) PROVE TypeInv'
  <2>1. [loc[r] EXCEPT !.pc = "raise", !.class = "transient", !.cut = TRUE] \in Local
    BY DEF Local, Classes, TypeInv, TypeOK
  <2> QED
    BY <1>10, <2>1, OnlyMoves DEF CancelHandler, HandlerPcs, TypeInv, TypeOK
<1>11. ASSUME NEW r \in Runs, DbError(r) PROVE TypeInv'
  <2> DEFINE p == IF loc[r].pc = "store" THEN "record_failure" ELSE "raise"
             c == loc[r].pc \notin {"store", "finish"}
  <2>1. /\ p \in {"record_failure", "raise"} /\ c \in BOOLEAN
        /\ Become(r, [loc[r] EXCEPT !.class = "permanent", !.pc = p, !.cut = c])
    BY <1>11 DEF DbError
  <2>2. loc[r].pc # "idle"
    BY <1>11 DEF DbError, HandlerPcs
  <2> HIDE DEF p, c
  <2>3. [loc[r] EXCEPT !.class = "permanent", !.pc = p, !.cut = c] \in Local
    BY <2>1 DEF Local, Classes, HandlerPcs, TypeInv, TypeOK
  <2> QED
    BY <1>11, <2>1, <2>2, <2>3, OnlyMoves DEF DbError, TypeInv, TypeOK
<1>12. ASSUME NEW r \in Runs, Crash(r) PROVE TypeInv'
  <2>1. loc' \in [Runs -> Local] /\ Held'
    BY <1>12, IdleTyped DEF Crash, Become, Idle, TypeInv, TypeOK, Held
  <2> QED
    BY <1>12, <2>1, FanoutAssumption DEF Crash, TypeInv, TypeOK, Booked
<1>13. ASSUME NEW r \in Runs, Sweep(r) PROVE TypeInv'
  <2>1. PICK s \in {"ready", "parked"} : jobs' = [jobs EXCEPT ![r].state = s]
    BY <1>13 DEF Sweep
  <2>2. jobs' \in [Runs -> JobRow]
    BY <2>1 DEF TypeInv, TypeOK, JobRow, AtRest
  <2>3. lost' \subseteq Runs
    <3>1. lost' \in {lost, lost \cup {r}}
      BY <1>13 DEF Sweep
    <3> QED BY <3>1 DEF TypeInv, TypeOK
  <2>4. Held' /\ Booked'
    BY <1>13, <2>1 DEF Sweep, TypeInv, TypeOK, JobRow, Held, Booked
  <2> QED
    BY <1>13, <2>2, <2>3, <2>4 DEF Sweep, TypeInv, TypeOK
<1>14. CASE UNCHANGED vars
  BY <1>14 DEF vars, TypeInv, TypeOK, Held, Booked
<1> QED
  BY <1>1, <1>2, <1>3, <1>4, <1>5, <1>6, <1>7, <1>8, <1>9, <1>10, <1>11, <1>12, <1>13,
     <1>14 DEF Next, RunAdapter

(* The rows have the types of the schema; jobs_attempts_bounded is never   *)
(* violated by a claim, however often a run is retried, cut short, swept   *)
(* and claimed again.                                                      *)
THEOREM FanoutTyped == Spec => []TypeOK
<1>1. Init => TypeInv
  BY InitTyped
<1>2. TypeInv /\ [Next]_vars => TypeInv'
  BY NextTyped
<1>3. TypeInv => TypeOK
  BY DEF TypeInv
<1> QED
  BY <1>1, <1>2, <1>3, PTL DEF Spec

-----------------------------------------------------------------------------
(* Results *)

(* A run that nobody planned has no rows; one that was planned has the     *)
(* mode of its registration until a fallback is stored.                    *)
Labelled ==
    \A r \in Runs : /\ run[r].status = "none" => results[r] = <<>>
                    /\ run[r].status # "none" => run[r].mode \in {ModeOf[SourceOf[r]], "degraded"}

ResultInv == TypeInv /\ ResultsOnce /\ ModeHonest /\ Labelled

(* The steps that touch neither rows nor runs. *)
LEMMA ResultsUntouched ==
    ASSUME ResultInv, TypeInv', UNCHANGED <<run, results>>
    PROVE  ResultInv'
BY DEF ResultInv, ResultsOnce, ModeHonest, Labelled

(* The steps that give a run another status and nothing else. *)
LEMMA StatusOnlyChanges ==
    ASSUME ResultInv, TypeInv', UNCHANGED results, NEW r \in Runs, NEW s \in Statuses,
           s \notin {"none", "done"}, run[r].status # "none",
           run' = [run EXCEPT ![r].status = s]
    PROVE  ResultInv'
<1>1. run \in [Runs -> RunRow]
  BY DEF ResultInv, TypeInv, TypeOK
<1>2. /\ run'[r].status = s /\ run'[r].count = run[r].count /\ run'[r].mode = run[r].mode
      /\ \A q \in Runs : q # r => run'[q] = run[q]
  BY <1>1 DEF RunRow
<1>3. ResultsOnce'
  BY <1>2 DEF ResultInv, ResultsOnce
<1>4. ModeHonest'
  BY <1>2 DEF ResultInv, ModeHonest
<1>5. Labelled'
  BY <1>2 DEF ResultInv, Labelled
<1> QED
  BY <1>3, <1>4, <1>5 DEF ResultInv

LEMMA ResultNext == ResultInv /\ [Next]_vars => ResultInv'
<1> SUFFICES ASSUME ResultInv, [Next]_vars PROVE ResultInv'
  OBVIOUS
<1>t. TypeInv /\ TypeInv'
  BY NextTyped DEF ResultInv
<1>1. ASSUME NEW chosen \in SUBSET Sources, PlanSearch(chosen) PROVE ResultInv'
  <2>1. \A r \in Runs : run[r].status = "none" /\ results'[r] = <<>>
    BY <1>1 DEF PlanSearch, Planned, ResultInv, Labelled
  <2>2. \A r \in Runs : /\ run'[r].status \in {"none", "pending"}
                        /\ run'[r].status = "pending" => run'[r].mode = ModeOf[SourceOf[r]]
    BY <1>1 DEF PlanSearch, NoRun
  <2>3. ResultsOnce'
    BY <2>1, <2>2 DEF ResultsOnce
  <2>4. ModeHonest' /\ Labelled'
    BY <2>1, <2>2 DEF ModeHonest, Labelled
  <2> QED
    BY <1>t, <2>3, <2>4 DEF ResultInv
<1>2. ASSUME NEW r \in Runs, MarkRunStarted(r) PROVE ResultInv'
  <2>1. "running" \in Statuses /\ run[r].status # "none"
    BY <1>t, <1>2 DEF Statuses, Outstanding, MarkRunStarted, TypeInv, Held, Booked
  <2> QED
    BY <1>t, <1>2, <2>1, StatusOnlyChanges DEF MarkRunStarted
<1>3. ASSUME NEW r \in Runs, RecordRunFailure(r) PROVE ResultInv'
  <2> DEFINE s == IF loc[r].class = "needs_reconnect" THEN "needs_reconnect" ELSE "failed"
  <2>1. s \in Statuses /\ s \notin {"none", "done"} /\ run' = [run EXCEPT ![r].status = s]
    BY <1>3 DEF RecordRunFailure, Statuses
  <2>2. run[r].status # "none"
    BY <1>t, <1>3 DEF RecordRunFailure, TypeInv, Held, Booked
  <2> HIDE DEF s
  <2> QED
    BY <1>t, <1>3, <2>1, <2>2, StatusOnlyChanges DEF RecordRunFailure
<1>4. ASSUME NEW r \in Runs, StoreResults(r) PROVE ResultInv'
  <2> DEFINE x == [attempt |-> jobs[r].attempts, way |-> loc[r].way]
             rows == Rows(r, loc[r])
             row == [status |-> "done", count |-> Count(r, loc[r]), mode |-> Mode(r, loc[r])]
  <2>1. loc[r].found \in 0..1
    BY <1>t DEF TypeInv, TypeOK, Local
  <2>2. /\ rows = (IF loc[r].found = 1 THEN <<x>> ELSE <<>>) /\ x.way = loc[r].way
        /\ row.count = loc[r].found
    BY DEF Rows, NewRows, Count
  <2>3. Len(rows) = row.count /\ Len(rows) <= 1
    <3> HIDE DEF x, row, rows
    <3>1. CASE loc[r].found = 1
      BY <2>2, <3>1
    <3>2. CASE loc[r].found = 0
      BY <2>2, <3>2
    <3> QED BY <2>1, <3>1, <3>2
  <2>4. \A i \in DOMAIN rows : rows[i].way = loc[r].way
    <3> HIDE DEF x, row, rows
    <3>1. CASE loc[r].found = 1
      BY <2>2, <3>1
    <3>2. CASE loc[r].found = 0
      BY <2>2, <3>2
    <3> QED BY <2>1, <3>1, <3>2
  <2>5. row.status = "done" /\ row.mode = Mode(r, loc[r])
    OBVIOUS
  <2>6. run[r].status # "none"
    BY <1>t, <1>4 DEF StoreResults, TypeInv, Held, Booked
  <2>7. /\ row.mode \in {ModeOf[SourceOf[r]], "degraded"}
        /\ loc[r].way = "scan" => row.mode = "degraded"
    BY <2>5, <2>6 DEF Mode, ResultInv, Labelled
  <2>8. /\ run' = [run EXCEPT ![r] = row] /\ results' = [results EXCEPT ![r] = rows]
        /\ run \in [Runs -> RunRow] /\ results \in [Runs -> Seq(Result)]
    BY <1>4, <1>t DEF StoreResults, TypeInv, TypeOK
  <2> HIDE DEF x, row, rows
  <2>9. ResultsOnce'
    BY <2>3, <2>8 DEF ResultInv, ResultsOnce
  <2>10. ModeHonest'
    BY <2>4, <2>7, <2>8 DEF ResultInv, ModeHonest
  <2>11. Labelled'
    BY <2>5, <2>7, <2>8 DEF ResultInv, Labelled
  <2> QED
    BY <1>t, <2>9, <2>10, <2>11 DEF ResultInv
<1>5. ASSUME UNCHANGED <<run, results>> PROVE ResultInv'
  BY <1>t, <1>5, ResultsUntouched
<1> QED
  BY <1>1, <1>2, <1>3, <1>4, <1>5
     DEF Next, RunAdapter, Claim, Search, Scan, CloseSearch, FinishJob, CancelHandler,
         DbError, Crash, Sweep, vars

LEMMA ResultInit == Init => ResultInv
<1> SUFFICES ASSUME Init PROVE ResultInv
  OBVIOUS
<1>1. \A r \in Runs : results[r] = <<>> /\ run[r].status = "none"
  BY DEF Init, NoRun
<1>2. ResultsOnce
  BY <1>1 DEF ResultsOnce
<1>3. ModeHonest /\ Labelled
  BY <1>1 DEF ModeHonest, Labelled
<1> QED
  BY <1>2, <1>3, InitTyped DEF ResultInv

(* However often a run is executed, a search shows each of its results     *)
(* once, and a run that is done counts the rows it has.                    *)
THEOREM FanoutResultsOnce == Spec => []ResultsOnce
<1>1. ResultInv => ResultsOnce
  BY DEF ResultInv
<1> QED
  BY <1>1, ResultInit, ResultNext, PTL DEF Spec

(* Rows that a fallback found or a stand-in made up are labelled for as    *)
(* long as they are shown.                                                 *)
THEOREM FanoutModeHonest == Spec => []ModeHonest
<1>1. ResultInv => ModeHonest
  BY DEF ResultInv
<1> QED
  BY <1>1, ResultInit, ResultNext, PTL DEF Spec

-----------------------------------------------------------------------------
(* Closing *)

(* The executions whose run has its outcome on record. *)
Reported(r) ==
    \/ loc[r].pc \in {"close", "close_failed", "finish"}
    \/ loc[r].pc = "raise" /\ ~loc[r].cut

(* Only a handler that is over was cut short. *)
UncutAt(r) == loc[r].cut => loc[r].pc = "raise"

(* A run that is reported, or whose job is at rest and was not cut short,  *)
(* is no longer outstanding.                                               *)
EndedAt(r) ==
    Reported(r) \/ (jobs[r].state \in AtRest /\ r \notin lost)
        => run[r].status \notin Outstanding

(* This run will reach close_search_if_complete again, or be lost. *)
ToCome(r) ==
    \/ jobs[r].state = "ready"
    \/ /\ jobs[r].state = "running"
       /\ \/ loc[r].pc \in HandlerPcs \cup {"idle"}
          \/ loc[r].pc = "raise" /\ (loc[r].cut \/ WillRetry(r, loc[r]))

(* An open search always has a run that will yet try to close it. *)
CloseToCome ==
    Planned # {} /\ lost = {} => finished \/ \E r \in Planned : ToCome(r)

ClosingInv ==
    /\ TypeInv
    /\ \A r \in Runs : UncutAt(r) /\ EndedAt(r)
    /\ CloseToCome

(* A step of one run leaves the others where they were. *)
OnlyAt(r) ==
    /\ \A q \in Runs : q # r => /\ run'[q] = run[q] /\ jobs'[q] = jobs[q]
                                /\ loc'[q] = loc[q] /\ (q \in lost' <=> q \in lost)
    /\ run'[r].status = "none" <=> run[r].status = "none"
    /\ lost \subseteq lost'

LEMMA EndedElsewhere ==
    ASSUME ClosingInv, NEW r \in Runs, OnlyAt(r), UncutAt(r)', EndedAt(r)'
    PROVE  \A q \in Runs : UncutAt(q)' /\ EndedAt(q)'
<1> SUFFICES ASSUME NEW q \in Runs, q # r PROVE UncutAt(q)' /\ EndedAt(q)'
  OBVIOUS
<1>1. run'[q] = run[q] /\ jobs'[q] = jobs[q] /\ loc'[q] = loc[q] /\ (q \in lost' <=> q \in lost)
  BY DEF OnlyAt
<1>2. UncutAt(q) /\ EndedAt(q)
  BY DEF ClosingInv
<1> QED
  BY <1>1, <1>2 DEF UncutAt, EndedAt, Reported

LEMMA ComesElsewhere ==
    ASSUME ClosingInv, NEW r \in Runs, OnlyAt(r), finished' = finished,
           lost' = {} /\ ToCome(r) => ToCome(r)'
    PROVE  CloseToCome'
<1> SUFFICES ASSUME Planned' # {}, lost' = {}, ~finished'
             PROVE  \E q \in Planned' : ToCome(q)'
  BY DEF CloseToCome
<1>1. Planned' = Planned
  BY DEF Planned, OnlyAt
<1>2. PICK q \in Planned : ToCome(q)
  BY <1>1 DEF ClosingInv, CloseToCome, OnlyAt
<1>3. CASE q = r
  BY <1>1, <1>2, <1>3
<1>4. CASE q # r
  <2>1. q \in Runs
    BY DEF Planned
  <2>2. jobs'[q] = jobs[q] /\ loc'[q] = loc[q]
    BY <1>4, <2>1 DEF OnlyAt
  <2> QED
    BY <1>1, <1>2, <2>2 DEF ToCome, WillRetry
<1> QED
  BY <1>3, <1>4

(* A worker that goes on, and touches no row. *)
LEMMA MovesOn ==
    ASSUME ClosingInv, TypeInv', NEW r \in Runs, NEW l \in Local, Become(r, l),
           loc[r].pc # "idle", UNCHANGED <<run, jobs, lost, finished>>,
           \/ l.pc \in {"search", "scan", "store", "record_failure"} /\ ~l.cut
           \/ l.pc = "raise" /\ l.cut
    PROVE  ClosingInv'
<1>1. loc'[r] = l /\ OnlyAt(r)
  BY DEF Become, OnlyAt, ClosingInv, TypeInv, TypeOK
<1>2. UncutAt(r)' /\ ~Reported(r)'
  BY <1>1 DEF UncutAt, Reported
<1>3. jobs'[r].state = "running"
  BY DEF ClosingInv, TypeInv, Held
<1>4. EndedAt(r)' /\ ToCome(r)'
  BY <1>1, <1>2, <1>3 DEF EndedAt, AtRest, ToCome, HandlerPcs
<1> QED
  BY <1>1, <1>2, <1>4, EndedElsewhere, ComesElsewhere DEF ClosingInv

LEMMA ClosingInit == Init => ClosingInv
<1> SUFFICES ASSUME Init PROVE ClosingInv
  OBVIOUS
<1>1. \A r \in Runs : /\ loc[r].pc = "idle" /\ ~loc[r].cut
                      /\ run[r].status = "none" /\ jobs[r].state = "none"
  BY DEF Init, Idle, NoRun
<1>2. Planned = {}
  BY <1>1 DEF Planned
<1> QED
  BY <1>1, <1>2, InitTyped DEF ClosingInv, UncutAt, EndedAt, Reported, AtRest, CloseToCome

LEMMA ClosingNext == ClosingInv /\ [Next]_vars => ClosingInv'
<1> SUFFICES ASSUME ClosingInv, [Next]_vars PROVE ClosingInv'
  OBVIOUS
<1>t. TypeInv /\ TypeInv'
  BY NextTyped DEF ClosingInv
<1>l. \A r \in Runs : loc[r] \in Local /\ UncutAt(r) /\ EndedAt(r)
  BY DEF ClosingInv, TypeInv, TypeOK
<1>1. ASSUME NEW chosen \in SUBSET Sources, PlanSearch(chosen) PROVE ClosingInv'
  <2>1. \A r \in Runs : run[r].status = "none" /\ jobs[r].state = "none" /\ loc[r].pc = "idle"
    BY <1>1 DEF PlanSearch, ClosingInv, TypeInv, Held, Booked, Planned
  <2>2. \A r \in Runs : /\ jobs'[r].state \in {"none", "ready"} /\ loc'[r].pc = "idle"
                        /\ ~loc'[r].cut
    BY <1>1, <1>l, <2>1 DEF PlanSearch, UncutAt, Local
  <2>3. PICK r \in Runs : SourceOf[r] \in chosen
    BY <1>1, FanoutAssumption DEF PlanSearch
  <2>4. run'[r].status = "pending" /\ jobs'[r].state = "ready"
    BY <1>1, <2>3 DEF PlanSearch
  <2>5. r \in Planned' /\ ToCome(r)'
    BY <2>4 DEF Planned, ToCome
  <2> QED
    BY <1>t, <2>2, <2>5 DEF ClosingInv, UncutAt, EndedAt, Reported, AtRest, CloseToCome
<1>2. ASSUME NEW r \in Runs, Claim(r) PROVE ClosingInv'
  <2>1. /\ loc'[r] = [Idle EXCEPT !.pc = "start"] /\ jobs'[r].state = "running"
        /\ OnlyAt(r) /\ finished' = finished
    BY <1>t, <1>2 DEF Claim, Become, OnlyAt, TypeInv, TypeOK, JobRow
  <2>2. loc'[r].pc = "start" /\ ~loc'[r].cut
    BY <2>1 DEF Idle
  <2>3. UncutAt(r)' /\ EndedAt(r)' /\ ToCome(r)'
    BY <2>1, <2>2 DEF UncutAt, EndedAt, Reported, AtRest, ToCome, HandlerPcs
  <2> QED
    BY <1>t, <2>1, <2>3, EndedElsewhere, ComesElsewhere DEF ClosingInv
<1>3. ASSUME NEW r \in Runs, MarkRunStarted(r) PROVE ClosingInv'
  <2>1. /\ loc'[r] = [loc[r] EXCEPT !.pc = "search"] /\ jobs'[r].state = "running"
        /\ finished' = finished
    BY <1>t, <1>3 DEF MarkRunStarted, Become, TypeInv, TypeOK, Held
  <2>2. OnlyAt(r)
    BY <1>t, <1>3 DEF MarkRunStarted, Become, OnlyAt, TypeInv, TypeOK, RunRow, Held, Booked
  <2>3. loc'[r].pc = "search" /\ ~loc'[r].cut
    BY <1>3, <1>l, <2>1 DEF MarkRunStarted, UncutAt, Local
  <2>4. UncutAt(r)' /\ EndedAt(r)' /\ ToCome(r)'
    BY <2>1, <2>3 DEF UncutAt, EndedAt, Reported, AtRest, ToCome, HandlerPcs
  <2> QED
    BY <1>t, <2>1, <2>2, <2>4, EndedElsewhere, ComesElsewhere DEF ClosingInv
<1>4. ASSUME NEW r \in Runs, Found(r, "search") \/ Found(r, "scan"),
             loc[r].pc \in {"search", "scan"}, UNCHANGED <<run, jobs, lost, finished>>
      PROVE  ClosingInv'
  <2>1. PICK l \in Local : /\ Become(r, l)
                           /\ l.pc \in {"store", "record_failure"} /\ l.cut = loc[r].cut
    BY <1>t, <1>4, SearchMoves DEF Ways
  <2>2. ~l.cut
    BY <1>4, <1>l, <2>1 DEF UncutAt
  <2> QED
    BY <1>t, <1>4, <2>1, <2>2, MovesOn
<1>5. ASSUME NEW r \in Runs, Search(r) PROVE ClosingInv'
  <2>1. CASE Become(r, [loc[r] EXCEPT !.pc = "scan"])
    <3> DEFINE l == [loc[r] EXCEPT !.pc = "scan"]
    <3>1. l \in Local /\ l.pc = "scan" /\ ~l.cut
      BY <1>5, <1>l DEF Search, UncutAt, Local, HandlerPcs
    <3> HIDE DEF l
    <3>2. Become(r, l)
      BY <2>1 DEF l
    <3> QED BY <1>t, <1>5, <3>1, <3>2, MovesOn DEF Search
  <2> QED
    BY <1>4, <1>5, <2>1 DEF Search
<1>6. ASSUME NEW r \in Runs, Scan(r) PROVE ClosingInv'
  BY <1>4, <1>6 DEF Scan
<1>7. ASSUME NEW r \in Runs, StoreResults(r) PROVE ClosingInv'
  <2>1. /\ loc'[r] = [Idle EXCEPT !.pc = "close"] /\ jobs'[r].state = "running"
        /\ finished' = finished /\ run'[r].status = "done"
    BY <1>t, <1>7 DEF StoreResults, Become, TypeInv, TypeOK, Held
  <2>2. OnlyAt(r)
    BY <1>t, <1>7 DEF StoreResults, Become, OnlyAt, TypeInv, TypeOK, Held, Booked
  <2>3. loc'[r].pc = "close" /\ ~loc'[r].cut
    BY <2>1 DEF Idle
  <2>4. UncutAt(r)' /\ EndedAt(r)' /\ ToCome(r)'
    BY <2>1, <2>3 DEF UncutAt, EndedAt, Outstanding, ToCome, HandlerPcs
  <2> QED
    BY <1>t, <2>1, <2>2, <2>4, EndedElsewhere, ComesElsewhere DEF ClosingInv
<1>8. ASSUME NEW r \in Runs, RecordRunFailure(r) PROVE ClosingInv'
  <2>1. PICK s \in {"failed", "needs_reconnect"} : run' = [run EXCEPT ![r].status = s]
    BY <1>8 DEF RecordRunFailure
  <2>2. PICK p : p = AfterFailure(r, loc[r])
    OBVIOUS
  <2>3. /\ loc'[r] = [loc[r] EXCEPT !.pc = p] /\ jobs' = jobs /\ jobs[r].state = "running"
        /\ finished' = finished
    BY <1>t, <1>8, <2>2 DEF RecordRunFailure, Become, TypeInv, TypeOK, Held
  <2>4. run'[r].status = s
    BY <1>t, <2>1 DEF TypeInv, TypeOK, RunRow
  <2>5. OnlyAt(r)
    BY <1>t, <1>8, <2>1, <2>4 DEF RecordRunFailure, Become, OnlyAt, TypeInv, TypeOK, Held, Booked
  <2>6. loc'[r].pc = p /\ loc'[r].cut = loc[r].cut /\ loc'[r].class = loc[r].class
    BY <1>l, <2>3 DEF Local
  <2>7. ~loc[r].cut
    BY <1>8, <1>l DEF RecordRunFailure, UncutAt
  <2>8. p = "close_failed" \/ (p = "raise" /\ WillRetry(r, loc[r])')
    BY <2>2, <2>3, <2>6 DEF AfterFailure, WillRetry
  <2>9. UncutAt(r)' /\ EndedAt(r)' /\ ToCome(r)'
    BY <2>3, <2>4, <2>6, <2>7, <2>8 DEF UncutAt, EndedAt, Outstanding, ToCome, HandlerPcs
  <2> QED
    BY <1>t, <2>3, <2>5, <2>9, EndedElsewhere, ComesElsewhere DEF ClosingInv
<1>9. ASSUME NEW r \in Runs, CloseSearch(r) PROVE ClosingInv'
  <2>1. PICK p : p = IF loc[r].pc = "close" THEN "finish" ELSE "raise"
    OBVIOUS
  <2>2. /\ loc'[r] = [loc[r] EXCEPT !.pc = p] /\ jobs' = jobs /\ run' = run /\ lost' = lost
        /\ OnlyAt(r)
    BY <1>t, <1>9, <2>1 DEF CloseSearch, Become, OnlyAt, TypeInv, TypeOK
  <2>3. ~loc[r].cut
    BY <1>9, <1>l DEF CloseSearch, UncutAt
  <2>4. loc'[r].pc \in {"finish", "raise"} /\ ~loc'[r].cut
    BY <1>l, <2>1, <2>2, <2>3 DEF Local
  <2>5. run[r].status \notin Outstanding
    BY <1>9, <1>l DEF CloseSearch, EndedAt, Reported
  <2>6. UncutAt(r)' /\ EndedAt(r)'
    BY <2>2, <2>4, <2>5 DEF UncutAt, EndedAt
  <2>7. CloseToCome'
    <3>1. CASE Complete
      BY <1>9, <3>1 DEF CloseSearch, CloseToCome
    <3>2. CASE ~Complete
      <4> SUFFICES ASSUME lost = {} PROVE CloseToCome'
        BY <2>2 DEF CloseToCome
      <4>1. PICK q \in Planned : run[q].status \in Outstanding
        BY <3>2 DEF Complete
      <4>2. q \in Runs /\ q # r /\ run[q].status # "none"
        BY <2>5, <4>1 DEF Planned
      <4>3. ~Reported(q) /\ jobs[q].state \notin AtRest
        BY <1>l, <4>1, <4>2 DEF EndedAt
      <4>4. jobs[q].state \in {"ready", "running"}
        BY <1>t, <4>2, <4>3 DEF TypeInv, TypeOK, JobRow, Booked
      <4>5. ToCome(q)
        BY <1>l, <4>2, <4>3, <4>4 DEF Reported, ToCome, Local, HandlerPcs
      <4>6. jobs'[q] = jobs[q] /\ loc'[q] = loc[q]
        BY <2>2, <4>2 DEF OnlyAt
      <4>7. ToCome(q)' /\ q \in Planned'
        BY <2>2, <4>1, <4>5, <4>6 DEF ToCome, WillRetry, Planned
      <4> QED BY <4>7 DEF CloseToCome
    <3> QED BY <3>1, <3>2
  <2> QED
    BY <1>t, <2>2, <2>6, <2>7, EndedElsewhere DEF ClosingInv
<1>10. ASSUME NEW r \in Runs, FinishJob(r) PROVE ClosingInv'
  <2>1. PICK s : s = Outcome(r, loc[r])
    OBVIOUS
  <2>2. /\ jobs' = [jobs EXCEPT ![r].state = s]
        /\ lost' = IF s \in AtRest /\ loc[r].cut THEN lost \cup {r} ELSE lost
        /\ loc'[r] = Idle /\ run' = run /\ finished' = finished
    BY <1>t, <1>10, <2>1 DEF FinishJob, Become, TypeInv, TypeOK
  <2>3. jobs'[r].state = s
    BY <1>t, <2>2 DEF TypeInv, TypeOK, JobRow
  <2>4. OnlyAt(r)
    BY <1>t, <1>10, <2>2 DEF FinishJob, Become, OnlyAt, TypeInv, TypeOK
  <2>5. loc'[r].pc = "idle" /\ ~loc'[r].cut
    BY <2>2 DEF Idle
  <2>6. UncutAt(r)'
    BY <2>5 DEF UncutAt
  <2>7. EndedAt(r)'
    <3> SUFFICES ASSUME s \in AtRest, r \notin lost' PROVE run[r].status \notin Outstanding
      BY <2>2, <2>3, <2>5 DEF EndedAt, Reported
    <3>1. ~loc[r].cut
      BY <2>2
    <3> QED BY <1>10, <1>l, <3>1 DEF FinishJob, EndedAt, Reported
  <2>8. ASSUME lost' = {}, ToCome(r) PROVE ToCome(r)'
    <3>1. loc[r].pc = "raise" /\ (loc[r].cut \/ WillRetry(r, loc[r]))
      <4>1. jobs[r].state = "running" /\ loc[r].pc \in {"finish", "raise"}
        BY <1>t, <1>10 DEF FinishJob, TypeInv, Held
      <4> QED BY <2>8, <4>1 DEF ToCome, HandlerPcs
    <3>2. s \notin AtRest \/ ~loc[r].cut
      BY <2>2, <2>8
    <3>3. jobs[r].attempts \in Nat
      BY <1>t DEF TypeInv, TypeOK, JobRow
    <3>4. s = "ready"
      BY <2>1, <3>1, <3>2, <3>3, FanoutAssumption DEF Outcome, WillRetry, AtRest
    <3> QED BY <2>3, <3>4 DEF ToCome
  <2> QED
    BY <1>t, <2>2, <2>4, <2>6, <2>7, <2>8, EndedElsewhere, ComesElsewhere DEF ClosingInv
<1>11. ASSUME NEW r \in Runs, CancelHandler(r) PROVE ClosingInv'
  <2> DEFINE l == [loc[r] EXCEPT !.pc = "raise", !.class = "transient", !.cut = TRUE]
  <2>1. l \in Local /\ l.pc = "raise" /\ l.cut
    BY <1>l DEF Local, Classes
  <2>2. Become(r, l) /\ loc[r].pc # "idle"
    BY <1>11 DEF CancelHandler, HandlerPcs
  <2> HIDE DEF l
  <2> QED
    BY <1>t, <1>11, <2>1, <2>2, MovesOn DEF CancelHandler
<1>12. ASSUME NEW r \in Runs, DbError(r) PROVE ClosingInv'
  <2>1. PICK p : p = IF loc[r].pc = "store" THEN "record_failure" ELSE "raise"
    OBVIOUS
  <2>2. PICK c \in BOOLEAN : c = (loc[r].pc \notin {"store", "finish"})
    OBVIOUS
  <2> DEFINE l == [loc[r] EXCEPT !.class = "permanent", !.pc = p, !.cut = c]
  <2>3. Become(r, l) /\ loc[r].pc # "idle" /\ UNCHANGED <<run, jobs, lost, finished>>
    BY <1>12, <2>1, <2>2 DEF DbError, HandlerPcs
  <2>4. l \in Local /\ l.pc = p /\ l.cut = c
    BY <1>l, <2>1, <2>2 DEF Local, Classes, HandlerPcs
  <2> HIDE DEF l
  <2>5. CASE loc[r].pc # "finish"
    BY <1>t, <2>1, <2>2, <2>3, <2>4, <2>5, MovesOn
  <2>6. CASE loc[r].pc = "finish"
    <3>1. loc'[r] = l /\ OnlyAt(r)
      BY <1>t, <2>3 DEF Become, OnlyAt, TypeInv, TypeOK
    <3>2. loc'[r].pc = "raise" /\ ~loc'[r].cut
      BY <2>1, <2>2, <2>4, <2>6, <3>1
    <3>3. UncutAt(r)' /\ EndedAt(r)'
      BY <1>l, <2>3, <2>6, <3>2 DEF UncutAt, EndedAt, Reported
    <3>4. ~ToCome(r)
      BY <1>t, <2>6 DEF ToCome, HandlerPcs, TypeInv, Held
    <3> QED
      BY <1>t, <2>3, <3>1, <3>3, <3>4, EndedElsewhere, ComesElsewhere DEF ClosingInv
  <2> QED
    BY <2>5, <2>6
<1>13. ASSUME NEW r \in Runs, Crash(r) PROVE ClosingInv'
  <2>1. /\ loc'[r] = Idle /\ jobs' = jobs /\ jobs[r].state = "running" /\ OnlyAt(r)
        /\ finished' = finished
    BY <1>t, <1>13 DEF Crash, Become, OnlyAt, TypeInv, TypeOK, Held
  <2>2. loc'[r].pc = "idle" /\ ~loc'[r].cut
    BY <2>1 DEF Idle
  <2>3. UncutAt(r)' /\ EndedAt(r)' /\ ToCome(r)'
    BY <2>1, <2>2 DEF UncutAt, EndedAt, Reported, AtRest, ToCome
  <2> QED
    BY <1>t, <2>1, <2>3, EndedElsewhere, ComesElsewhere DEF ClosingInv
<1>14. ASSUME NEW r \in Runs, Sweep(r) PROVE ClosingInv'
  <2>1. PICK s \in {"ready", "parked"} :
           /\ jobs' = [jobs EXCEPT ![r].state = s]
           /\ lost' = IF s = "parked" THEN lost \cup {r} ELSE lost
    BY <1>14 DEF Sweep
  <2>2. jobs'[r].state = s /\ loc' = loc /\ run' = run /\ finished' = finished
    BY <1>t, <1>14, <2>1 DEF Sweep, TypeInv, TypeOK, JobRow
  <2>3. OnlyAt(r)
    BY <1>t, <1>14, <2>1 DEF Sweep, OnlyAt, TypeInv, TypeOK
  <2>4. loc[r].pc = "idle" /\ UncutAt(r)
    BY <1>14, <1>l DEF Sweep
  <2>5. UncutAt(r)' /\ EndedAt(r)'
    BY <2>1, <2>2, <2>4 DEF UncutAt, EndedAt, Reported, AtRest
  <2>6. lost' = {} => ToCome(r)'
    BY <2>1, <2>2 DEF ToCome
  <2> QED
    BY <1>t, <2>2, <2>3, <2>5, <2>6, EndedElsewhere, ComesElsewhere DEF ClosingInv
<1>15. CASE UNCHANGED vars
  <2>1. \A r \in Runs : UncutAt(r)' /\ EndedAt(r)'
    BY <1>15, <1>l DEF vars, UncutAt, EndedAt, Reported
  <2>2. CloseToCome'
    BY <1>15 DEF vars, ClosingInv, CloseToCome, Planned, ToCome, WillRetry
  <2> QED
    BY <1>t, <2>1, <2>2 DEF ClosingInv
<1> QED
  BY <1>1, <1>2, <1>3, <1>5, <1>6, <1>7, <1>8, <1>9, <1>10, <1>11, <1>12, <1>13, <1>14,
     <1>15 DEF Next, RunAdapter

(* The last committer closes: in whatever order the runs of a search end,  *)
(* fail, retry and crash, once all of their jobs are at rest and none was  *)
(* cut short on its way there, the search is finished.                     *)
THEOREM FanoutLastCloses == Spec => []LastCloses
<1>1. ClosingInv => LastCloses
  <2> SUFFICES ASSUME ClosingInv, Planned # {}, lost = {},
                      \A r \in Planned : jobs[r].state \in AtRest
               PROVE  finished
    BY DEF LastCloses
  <2>1. \A r \in Planned : ~ToCome(r)
    BY DEF ToCome, AtRest
  <2> QED
    BY <2>1 DEF ClosingInv, CloseToCome
<1> QED
  BY <1>1, ClosingInit, ClosingNext, PTL DEF Spec

-----------------------------------------------------------------------------
(* Refinement *)

(* While its handler searches and stores, a run is marked as running. *)
StartedAt(r) ==
    loc[r].pc \in {"search", "scan", "store", "record_failure"} => run[r].status = "running"

StartedInv == TypeInv /\ \A r \in Runs : StartedAt(r)

LEMMA StartedElsewhere ==
    ASSUME StartedInv, NEW r \in Runs, StartedAt(r)',
           \A q \in Runs : q # r => run'[q] = run[q] /\ loc'[q] = loc[q]
    PROVE  \A q \in Runs : StartedAt(q)'
<1> SUFFICES ASSUME NEW q \in Runs, q # r PROVE StartedAt(q)'
  OBVIOUS
<1> QED
  BY DEF StartedInv, StartedAt

(* A worker that goes on, and touches no run, was started where it needs   *)
(* to be.                                                                  *)
LEMMA StartedMoves ==
    ASSUME StartedInv, TypeInv', NEW r \in Runs, NEW l, Become(r, l), run' = run,
           \/ l.pc \in {"idle", "start", "close", "close_failed", "finish", "raise"}
           \/ /\ l.pc \in {"scan", "store", "record_failure"}
              /\ loc[r].pc \in {"search", "scan", "store"}
    PROVE  StartedInv'
<1>1. loc'[r] = l /\ \A q \in Runs : q # r => loc'[q] = loc[q]
  BY DEF Become, StartedInv, TypeInv, TypeOK
<1>2. StartedAt(r)'
  BY <1>1 DEF StartedInv, StartedAt
<1> QED
  BY <1>1, <1>2, StartedElsewhere DEF StartedInv

LEMMA StartedNext == StartedInv /\ [Next]_vars => StartedInv'
<1> SUFFICES ASSUME StartedInv, [Next]_vars PROVE StartedInv'
  OBVIOUS
<1>t. TypeInv /\ TypeInv' /\ \A r \in Runs : loc[r] \in Local
  BY NextTyped DEF StartedInv, TypeInv, TypeOK
<1>1. ASSUME NEW chosen \in SUBSET Sources, PlanSearch(chosen) PROVE StartedInv'
  <2>1. \A r \in Runs : loc'[r].pc = "idle"
    BY <1>1 DEF PlanSearch, StartedInv, TypeInv, Held, Booked, Planned
  <2> QED
    BY <1>t, <2>1 DEF StartedInv, StartedAt
<1>2. ASSUME NEW r \in Runs, Claim(r) PROVE StartedInv'
  <2>1. [Idle EXCEPT !.pc = "start"].pc = "start"
    BY DEF Idle
  <2> QED
    BY <1>t, <1>2, <2>1, StartedMoves DEF Claim
<1>3. ASSUME NEW r \in Runs, MarkRunStarted(r) PROVE StartedInv'
  <2>1. run'[r].status = "running" /\ \A q \in Runs : q # r => run'[q] = run[q] /\ loc'[q] = loc[q]
    BY <1>t, <1>3 DEF MarkRunStarted, Become, TypeInv, TypeOK, RunRow
  <2>2. StartedAt(r)'
    BY <2>1 DEF StartedAt
  <2> QED
    BY <1>t, <2>1, <2>2, StartedElsewhere DEF StartedInv
<1>4. ASSUME NEW r \in Runs, NEW way \in Ways, Found(r, way), run' = run,
             loc[r].pc \in {"search", "scan"}
      PROVE  StartedInv'
  <2>1. PICK l \in Local : Become(r, l) /\ l.pc \in {"store", "record_failure"}
    BY <1>t, <1>4, SearchMoves
  <2> QED
    BY <1>t, <1>4, <2>1, StartedMoves
<1>5. ASSUME NEW r \in Runs, Search(r) PROVE StartedInv'
  <2>1. CASE Become(r, [loc[r] EXCEPT !.pc = "scan"])
    <3>1. [loc[r] EXCEPT !.pc = "scan"].pc = "scan"
      BY <1>t DEF Local
    <3> QED BY <1>t, <1>5, <2>1, <3>1, StartedMoves DEF Search
  <2> QED
    BY <1>4, <1>5, <2>1 DEF Search, Ways
<1>6. ASSUME NEW r \in Runs, Scan(r) PROVE StartedInv'
  BY <1>4, <1>6 DEF Scan, Ways
<1>7. ASSUME NEW r \in Runs, StoreResults(r) PROVE StartedInv'
  <2>1. [Idle EXCEPT !.pc = "close"].pc = "close"
    BY DEF Idle
  <2>2. loc'[r].pc = "close" /\ \A q \in Runs : q # r => run'[q] = run[q] /\ loc'[q] = loc[q]
    BY <1>t, <1>7, <2>1 DEF StoreResults, Become, TypeInv, TypeOK
  <2>3. StartedAt(r)'
    BY <2>2 DEF StartedAt
  <2> QED
    BY <1>t, <2>2, <2>3, StartedElsewhere DEF StartedInv
<1>8. ASSUME NEW r \in Runs, RecordRunFailure(r) PROVE StartedInv'
  <2>1. PICK p \in {"raise", "close_failed"} : p = AfterFailure(r, loc[r])
    BY DEF AfterFailure
  <2>2. [loc[r] EXCEPT !.pc = p].pc = p
    BY <1>t DEF Local
  <2>3. loc'[r].pc = p /\ \A q \in Runs : q # r => run'[q] = run[q] /\ loc'[q] = loc[q]
    BY <1>t, <1>8, <2>1, <2>2 DEF RecordRunFailure, Become, TypeInv, TypeOK
  <2>4. StartedAt(r)'
    BY <2>3 DEF StartedAt
  <2> QED
    BY <1>t, <2>3, <2>4, StartedElsewhere DEF StartedInv
<1>9. ASSUME NEW r \in Runs, CloseSearch(r) PROVE StartedInv'
  <2>1. PICK p \in {"finish", "raise"} : p = IF loc[r].pc = "close" THEN "finish" ELSE "raise"
    OBVIOUS
  <2>2. Become(r, [loc[r] EXCEPT !.pc = p]) /\ [loc[r] EXCEPT !.pc = p].pc = p
    BY <1>t, <1>9, <2>1 DEF CloseSearch, Local
  <2> QED
    BY <1>t, <1>9, <2>2, StartedMoves DEF CloseSearch
<1>10. ASSUME NEW r \in Runs, FinishJob(r) \/ Crash(r) PROVE StartedInv'
  BY <1>t, <1>10, StartedMoves DEF FinishJob, Crash, Idle
<1>11. ASSUME NEW r \in Runs, CancelHandler(r) PROVE StartedInv'
  <2>1. [loc[r] EXCEPT !.pc = "raise", !.class = "transient", !.cut = TRUE].pc = "raise"
    BY <1>t DEF Local
  <2> QED
    BY <1>t, <1>11, <2>1, StartedMoves DEF CancelHandler
<1>12. ASSUME NEW r \in Runs, DbError(r) PROVE StartedInv'
  <2>1. PICK p \in {"record_failure", "raise"} :
           p = IF loc[r].pc = "store" THEN "record_failure" ELSE "raise"
    OBVIOUS
  <2>2. PICK c : c = (loc[r].pc \notin {"store", "finish"})
    OBVIOUS
  <2> DEFINE l == [loc[r] EXCEPT !.class = "permanent", !.pc = p, !.cut = c]
  <2>3. Become(r, l) /\ l.pc = p
    BY <1>t, <1>12, <2>1, <2>2 DEF DbError, Local
  <2> HIDE DEF l
  <2> QED
    BY <1>t, <1>12, <2>1, <2>3, StartedMoves DEF DbError
<1>13. ASSUME UNCHANGED <<run, loc>> PROVE StartedInv'
  BY <1>t, <1>13 DEF StartedInv, StartedAt
<1> QED
  BY <1>1, <1>2, <1>3, <1>5, <1>6, <1>7, <1>8, <1>9, <1>10, <1>11, <1>12, <1>13
     DEF Next, RunAdapter, Sweep, vars

(* What AbstractSearch sees of the runs. *)
Shown == [r \in Runs |-> [status |-> run[r].status, count |-> run[r].count]]

LEMMA SamePlanned == Abstract!Planned = Planned /\ Abstract!Complete = Complete
<1>1. Abstract!Planned = Planned
  BY DEF Abstract!Planned, Abstract!Runs, Planned, Runs
<1>2. Abstract!Complete = Complete
  BY <1>1 DEF Abstract!Complete, Abstract!Outstanding, Complete, Outstanding, Planned
<1> QED
  BY <1>1, <1>2

(* A new status of one run is a new status of what is shown of it. *)
LEMMA ShownStatus ==
    ASSUME run \in [Runs -> RunRow], NEW r \in Runs, NEW s, run' = [run EXCEPT ![r].status = s]
    PROVE  Shown' = [Shown EXCEPT ![r].status = s]
<1>1. /\ run'[r].status = s /\ run'[r].count = run[r].count
      /\ \A q \in Runs : q # r => run'[q] = run[q]
  BY DEF RunRow
<1>2. Shown'[r] = [Shown[r] EXCEPT !.status = s]
  BY <1>1 DEF Shown
<1>3. \A q \in Runs : q # r => Shown'[q] = Shown[q]
  BY <1>1 DEF Shown
<1> QED
  BY <1>2, <1>3 DEF Shown

LEMMA StepsAbstractly ==
    StartedInv /\ [Next]_vars => [Abstract!Proceed]_<<Shown, results, finished>>
<1> SUFFICES ASSUME StartedInv, [Next]_vars
             PROVE  Abstract!Proceed \/ UNCHANGED <<Shown, results, finished>>
  OBVIOUS
<1>t. TypeInv /\ run \in [Runs -> RunRow] /\ Abstract!Runs = Runs
  BY DEF StartedInv, TypeInv, TypeOK, Abstract!Runs, Runs
<1>1. ASSUME NEW chosen \in SUBSET Sources, PlanSearch(chosen) PROVE Abstract!Proceed
  <2>1. \A r \in Runs : Shown'[r] = IF SourceOf[r] \in chosen
                                    THEN [Abstract!NoRun EXCEPT !.status = "pending"]
                                    ELSE Abstract!NoRun
    BY <1>1 DEF PlanSearch, Shown, NoRun, Abstract!NoRun
  <2>2. Abstract!Plan(chosen)
    BY <1>1, <1>t, <2>1, SamePlanned DEF Abstract!Plan, PlanSearch, Shown
  <2> QED
    BY <2>2 DEF Abstract!Proceed
<1>2. ASSUME NEW r \in Runs, MarkRunStarted(r) PROVE Abstract!Proceed
  <2>1. r \in Planned
    BY <1>2, <1>t DEF MarkRunStarted, TypeInv, Held, Booked, Planned
  <2>2. Abstract!Start(r)
    BY <1>2, <1>t, <2>1, SamePlanned, ShownStatus DEF MarkRunStarted, Abstract!Start, Shown
  <2> QED
    BY <1>t, <2>2 DEF Abstract!Proceed
<1>3. ASSUME NEW r \in Runs, StoreResults(r) PROVE Abstract!Proceed
  <2>1. PICK rows : rows = Rows(r, loc[r])
    OBVIOUS
  <2>2. loc[r].found \in 0..1 /\ jobs[r].attempts \in 1..MaxAttempts /\ loc[r].way \in Ways
    BY <1>3, <1>t DEF StoreResults, TypeInv, TypeOK, Held, JobRow, Local
  <2>3. rows \in {<<>>} \cup {<<x>> : x \in Result} /\ Len(rows) = loc[r].found
    <3> DEFINE x == [attempt |-> jobs[r].attempts, way |-> loc[r].way]
    <3>1. x \in Result
      BY <2>2 DEF Result
    <3>2. rows = IF loc[r].found = 1 THEN <<x>> ELSE <<>>
      BY <2>1 DEF Rows, NewRows
    <3> HIDE DEF x
    <3>3. CASE loc[r].found = 1
      BY <3>1, <3>2, <3>3
    <3>4. CASE loc[r].found = 0
      BY <3>2, <3>4
    <3> QED BY <2>2, <3>3, <3>4
  <2>4. /\ run'[r].status = "done" /\ run'[r].count = loc[r].found
        /\ \A q \in Runs : q # r => run'[q] = run[q]
    BY <1>3, <1>t DEF StoreResults, Count
  <2>5. Shown' = [Shown EXCEPT ![r] = [status |-> "done", count |-> Len(rows)]]
    <3>1. Shown'[r] = [status |-> "done", count |-> Len(rows)]
      BY <2>3, <2>4 DEF Shown
    <3>2. \A q \in Runs : q # r => Shown'[q] = Shown[q]
      BY <2>4 DEF Shown
    <3> QED BY <3>1, <3>2 DEF Shown
  <2>6. Shown[r].status = "running"
    BY <1>3 DEF StoreResults, StartedInv, StartedAt, Shown
  <2>7. Abstract!Store(r, rows)
    BY <1>3, <2>1, <2>5, <2>6 DEF StoreResults, Abstract!Store, Shown
  <2> QED
    BY <1>t, <2>3, <2>7 DEF Abstract!Proceed
<1>4. ASSUME NEW r \in Runs, RecordRunFailure(r) PROVE Abstract!Proceed
  <2>1. PICK s \in {"failed", "needs_reconnect"} : run' = [run EXCEPT ![r].status = s]
    BY <1>4 DEF RecordRunFailure
  <2>2. Shown[r].status = "running"
    BY <1>4 DEF RecordRunFailure, StartedInv, StartedAt, Shown
  <2>3. Shown' = [Shown EXCEPT ![r].status = s]
    BY <1>t, <2>1, ShownStatus
  <2>4. Abstract!Fail(r, s)
    BY <1>4, <2>2, <2>3 DEF RecordRunFailure, Abstract!Fail, Shown
  <2> QED
    BY <1>t, <2>4 DEF Abstract!Proceed
<1>5. ASSUME NEW r \in Runs, CloseSearch(r)
      PROVE  Abstract!Proceed \/ UNCHANGED <<Shown, results, finished>>
  <2>1. run' = run /\ results' = results /\ Shown' = Shown
    BY <1>5 DEF CloseSearch, Shown
  <2>2. CASE Complete
    <3>1. r \in Planned
      BY <1>5, <1>t DEF CloseSearch, TypeInv, Held, Booked, Planned
    <3>2. Abstract!Close
      BY <1>5, <2>1, <2>2, <3>1, SamePlanned DEF CloseSearch, Abstract!Close, Shown
    <3> QED BY <3>2 DEF Abstract!Proceed
  <2>3. CASE ~Complete
    <3>1. finished' = finished
      BY <1>5, <1>t, <2>3 DEF CloseSearch, TypeInv, TypeOK
    <3> QED BY <2>1, <3>1
  <2> QED
    BY <2>2, <2>3
<1>6. ASSUME UNCHANGED <<run, results, finished>> PROVE UNCHANGED <<Shown, results, finished>>
  BY <1>6 DEF Shown
<1> QED
  BY <1>1, <1>2, <1>3, <1>4, <1>5, <1>6
     DEF Next, RunAdapter, Claim, Search, Scan, FinishJob, CancelHandler, DbError, Crash,
         Sweep, vars

(* A search executed by jobs that are retried, cut short, swept and lost   *)
(* is still one that AbstractSearch allows: what SearchView builds on.     *)
THEOREM FanoutImplementsSearch == Spec => ImplementsSearch
<1>1. Init => Abstract!NothingYet
  BY DEF Init, NoRun, Abstract!NothingYet, Abstract!NoRun, Abstract!Runs, Runs
<1>2. Init => StartedInv
  <2> SUFFICES ASSUME Init PROVE StartedInv
    OBVIOUS
  <2>1. \A r \in Runs : loc[r].pc = "idle"
    BY DEF Init, Idle
  <2> QED
    BY <2>1, InitTyped DEF StartedInv, StartedAt
<1> QED
  BY <1>1, <1>2, StartedNext, StepsAbstractly, PTL
     DEF Spec, ImplementsSearch, Abstract!Search, Shown
=============================================================================
