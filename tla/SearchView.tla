----------------------------- MODULE SearchView -----------------------------
(***************************************************************************)
(* What a client sees of a search, on top of AbstractSearch: the snapshot, *)
(* which is read statement by statement while the runs go on, the ranked   *)
(* and merged page it carries, and the event stream, which polls the       *)
(* snapshot and says what is new.                                          *)
(*                                                                         *)
(* A list of results is the list of the ages they had when they were       *)
(* stored. A result is known by its run and its rank, and ids sort that    *)
(* way; the sources sort by name as their runs do in the snapshot.         *)
(***************************************************************************)
EXTENDS AbstractSearch, FiniteSetsExt, SequencesExt

CONSTANTS
    PerSourceCap,  \* PER_SOURCE_CAP
    MaxStarts,     \* bound: times a run of the search is started
    MaxStreams     \* bound: times a client opens the stream

ASSUME ViewAssumption ==
    PerSourceCap \in Nat \ {0} /\ MaxStarts \in Nat /\ MaxStreams \in Nat

VARIABLES
    starts,  \* runs started so far
    snap,    \* the snapshot being read, or the last one read
    stream   \* the event stream, and what its client was told

viewVars == <<run, results, finished, starts, snap, stream>>

Ages == {"now", "day", "unknown"}
ASSUME ListsAssumption == Lists \subseteq Seq(Ages) /\ <<>> \in Lists

RunRow == [status: Outstanding \cup {"none", "done", "failed", "needs_reconnect"},
           count: {Len(l) : l \in Lists}]
Snapshot == [pc: {"none", "runs", "full"}, finished: BOOLEAN, run: [Runs -> RunRow],
             results: [Runs -> Lists]]
Stream == [pc: {"shut", "open", "complete"}, opened: 0..MaxStreams,
           seen: [Sources -> RunRow], told: [Runs -> RunRow]]

TypeOK ==
    /\ run \in [Runs -> RunRow]
    /\ results \in [Runs -> Lists]
    /\ finished \in BOOLEAN
    /\ starts \in 0..MaxStarts
    /\ snap \in Snapshot
    /\ stream \in Stream

NothingRead == [pc |-> "none", finished |-> FALSE, run |-> [r \in Runs |-> NoRun],
                results |-> [r \in Runs |-> <<>>]]

Init ==
    /\ NothingYet
    /\ starts = 0
    /\ snap = NothingRead
    /\ stream = [pc |-> "shut", opened |-> 0, seen |-> [s \in Sources |-> NoRun],
                 told |-> [r \in Runs |-> NoRun]]

-----------------------------------------------------------------------------
(* Ranking *)

(* recency_weight, halved in a day; in units of RECENCY_WEIGHT / 5880. *)
Recency(age) == CASE age = "now" -> 5880 [] age = "day" -> 2940 [] age = "unknown" -> 0

(* blended_score, in units of 1 / 16800. *)
Score(rank, age) == 10920 \div (5 + rank) + Recency(age)

(* rank_within_source, of the rows that lie in the table in any order. *)
RankedRows(found) ==
    UNION {{[source |-> SourceOf[r], id |-> <<r, k>>, score |-> Score(k, found[r][k])] :
              k \in DOMAIN found[r]} : r \in Runs}

IdBefore(i, j) == i[1] < j[1] \/ (i[1] = j[1] /\ i[2] < j[2])
SourceBefore(s, t) == \E r \in Runs : /\ SourceOf[r] = s
                                      /\ \A q \in Runs : SourceOf[q] = t => r < q

Better(x, y) == x.score > y.score \/ (x.score = y.score /\ IdBefore(x.id, y.id))
HeadBetter(x, y) ==
    x.score > y.score \/ (x.score = y.score /\ SourceBefore(x.source, y.source))

(* sort and sorted: what goes before an item gives it its place. *)
Sorted(S, Goes(_, _)) ==
    [i \in 1..Cardinality(S) |->
        CHOOSE x \in S : Cardinality({y \in S : Goes(y, x)}) = i - 1]

(* A source's rows, best first, under the cap: over all of its accounts. *)
Bucket(rows, s) ==
    LET sorted == Sorted({x \in rows : x.source = s}, Better)
    IN SubSeq(sorted, 1, Min({PerSourceCap, Len(sorted)}))

(* Mutant: one list by score. *)
ByScore(buckets) ==
    Sorted(UNION {ToSet(buckets[s]) : s \in Sources}, Better)

(* merge's loop: every round takes the head of each bucket that still has *)
(* one, best first, so that round n takes the n-th rows.                   *)
RoundRobin(buckets) ==
    LET heads(n) == {buckets[s][n] : s \in {t \in Sources : Len(buckets[t]) >= n}}
        rounds == Max({Len(buckets[s]) : s \in Sources} \cup {0})
    IN FlattenSeq([n \in 1..rounds |-> Sorted(heads(n), HeadBetter)])

Merge(rows) == RoundRobin([s \in Sources |-> Bucket(rows, s)])

-----------------------------------------------------------------------------
(* The snapshot *)

(* Mutant: READ COMMITTED, so that each statement sees what is there. *)
ReadCommitted(begun, now) == now

(* REPEATABLE READ: what was there when the transaction began. *)
Visible(begun, now) == begun

(* load_snapshot begins and reads the search and its runs. A client that   *)
(* was told that the search is complete reads no more.                     *)
ReadRuns ==
    /\ Planned # {} /\ snap.pc # "runs" /\ stream.pc # "complete"
    /\ snap' = [pc |-> "runs", finished |-> finished, run |-> run, results |-> results]
    /\ UNCHANGED <<run, results, finished, starts, stream>>

(* Then it reads the rows. *)
ReadRows ==
    /\ snap.pc = "runs"
    /\ snap' = [snap EXCEPT !.pc = "full", !.results = Visible(@, results)]
    /\ UNCHANGED <<run, results, finished, starts, stream>>

Page == Merge(RankedRows(snap.results))

-----------------------------------------------------------------------------
(* The event stream *)

OpenStream ==
    /\ snap.pc # "none" /\ stream.pc = "shut" /\ stream.opened < MaxStreams
    /\ stream' = [stream EXCEPT !.pc = "open", !.opened = @ + 1]
    /\ UNCHANGED <<run, results, finished, starts, snap>>

(* Mutant: only a change of status is news. *)
StatusOnly(row) == [row EXCEPT !.count = 0]

Fingerprint(row) == row

(* The rows are compared in the order of the snapshot with what was last   *)
(* said of the same source, which another run of it may have been.         *)
Before(r, planned) ==
    LET same == {q \in planned : q < r /\ SourceOf[q] = SourceOf[r]}
    IN IF same = {} THEN stream.seen[SourceOf[r]] ELSE Fingerprint(snap.run[Max(same)])

(* One turn of the generator over a snapshot. A stream that ends with the  *)
(* search or at SSE_MAX_SECONDS takes what it has seen with it.            *)
PollStream ==
    LET planned == {r \in Runs : snap.run[r].status # "none"}
        news == {r \in planned : Before(r, planned) # Fingerprint(snap.run[r])}
        of(s) == {r \in planned : SourceOf[r] = s}
        heard == [stream EXCEPT !.told = [r \in Runs |-> IF r \in news THEN snap.run[r]
                                                         ELSE stream.told[r]]]
        over == [heard EXCEPT !.seen = [s \in Sources |-> NoRun]]
    IN /\ stream.pc = "open" /\ snap.pc = "full"
       /\ \/ /\ snap.finished
             /\ stream' = [over EXCEPT !.pc = "complete"]
          \/ /\ ~snap.finished
             /\ stream' = [heard EXCEPT !.seen =
                             [s \in Sources |-> IF of(s) = {} THEN stream.seen[s]
                                                ELSE Fingerprint(snap.run[Max(of(s))])]]
          \/ /\ ~snap.finished
             /\ stream' = [over EXCEPT !.pc = "shut"]
       /\ snap' = NothingRead
       /\ UNCHANGED <<run, results, finished, starts>>

-----------------------------------------------------------------------------
Go ==
    /\ Proceed
    /\ starts' = starts + Cardinality({r \in Runs : /\ run[r].status # "running"
                                                   /\ run'[r].status = "running"})
    /\ starts' <= MaxStarts
    /\ UNCHANGED <<snap, stream>>

Next ==
    \/ Go
    \/ ReadRuns \/ ReadRows \/ OpenStream \/ PollStream

Spec == Init /\ [][Next]_viewVars

-----------------------------------------------------------------------------
(* Properties *)

Full == snap.pc = "full"
On(page, s, n) == Cardinality({i \in 1..n : page[i].source = s})

(* A snapshot never shows a source's rows beside a status from before them:*)
(* what is done has as many rows as it says, and what is pending has none, *)
(* whatever commits while the snapshot is read.                            *)
SnapshotHonest ==
    Full => \A r \in Runs :
              /\ snap.run[r].status = "done" => Len(snap.results[r]) = snap.run[r].count
              /\ snap.run[r].status \in {"none", "pending"} => snap.results[r] = <<>>

(* The page interleaves: it opens with the strongest row of all, shows of  *)
(* each source its best rows and no more than the cap, and no source takes *)
(* another slot before every source that still has rows has had its turn.  *)
PageInterleaves ==
    LET rows == RankedRows(snap.results)
        page == Page
        n == Len(page)
    IN Full =>
         /\ n > 0 => \A x \in rows : x.score <= page[1].score
         /\ \A s \in Sources :
              LET all == {x \in rows : x.source = s}
                  shown == all \cap ToSet(page)
              IN /\ Cardinality(shown) = On(page, s, n)
                 /\ Cardinality(shown) = Min({PerSourceCap, Cardinality(all)})
                 /\ \A x \in shown, y \in all \ shown : x.score >= y.score
         /\ \A i \in 1..n, s \in Sources :
              On(page, s, i) < On(page, s, n)
              => On(page, page[i].source, i) <= On(page, s, i) + 1

(* A client that only listens knows, when the stream says that the search  *)
(* is complete, the status and count of every run that is its source's     *)
(* only one, however often the stream timed out and was opened again.      *)
StreamTellsAll ==
    [][stream.pc = "open" /\ stream'.pc = "complete"
       => \A r \in Runs : (\A q \in Runs \ {r} : SourceOf[q] # SourceOf[r])
                          => stream'.told[r] = snap.run[r]]_viewVars
=============================================================================
