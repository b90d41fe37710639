-------------------------- MODULE SearchViewProofs --------------------------
(***************************************************************************)
(* For any number of runs, sources, restarts and streams: a snapshot read  *)
(* while the runs go on is consistent, and a stream that reports the       *)
(* search complete has told the client all of it.                          *)
(***************************************************************************)
EXTENDS SearchView, FiniteSetTheorems, WellFoundedInduction, TLAPS

-----------------------------------------------------------------------------
(* Types *)

LEMMA NoRunTyped == NoRun \in RunRow /\ NoRun.status = "none"
<1>1. Len(<<>>) = 0 /\ 0 \in {Len(l) : l \in Lists}
  BY ListsAssumption
<1> QED
  BY <1>1 DEF NoRun, RunRow

LEMMA NothingReadTyped == NothingRead \in Snapshot
BY NoRunTyped, ListsAssumption DEF NothingRead, Snapshot

LEMMA InitTyped == Init => TypeOK
<1> SUFFICES ASSUME Init PROVE TypeOK
  OBVIOUS
<1>1. 0 \in 0..MaxStarts /\ 0 \in 0..MaxStreams
  BY ViewAssumption
<1>2. stream \in Stream
  BY <1>1, NoRunTyped DEF Init, Stream
<1> QED
  BY <1>1, <1>2, NoRunTyped, NothingReadTyped, ListsAssumption
     DEF Init, TypeOK, NothingYet

-----------------------------------------------------------------------------
(* The runs *)

(* What is done has the rows that it says, what is not started has none,   *)
(* and what is not planned has nothing at all.                             *)
Honest(rows, found) ==
    \A r \in Runs : /\ rows[r].status = "done" => Len(found[r]) = rows[r].count
                    /\ rows[r].status \in {"none", "pending"} => found[r] = <<>>
Blank(rows) == \A r \in Runs : rows[r].status = "none" => rows[r] = NoRun

RunsInv == TypeOK /\ Honest(run, results) /\ Blank(run)

(* A run that its worker or its sweeper moves, and the others. *)
OtherRuns(r) ==
    \A q \in Runs : q # r => run'[q] = run[q] /\ results'[q] = results[q]

LEMMA CountTyped == ASSUME NEW l \in Lists PROVE Len(l) \in {Len(k) : k \in Lists}
OBVIOUS

(* What a step of the search does to the runs: it plans them all at once,  *)
(* moves one that is planned, or closes the search.                        *)
LEMMA ProceedDoes ==
    ASSUME TypeOK, Proceed
    PROVE  /\ run' \in [Runs -> RunRow] /\ results' \in [Runs -> Lists] /\ finished' \in BOOLEAN
           /\ \/ /\ Planned = {} /\ results' = results
                 /\ \A r \in Runs : \/ run'[r] = NoRun
                                    \/ run'[r].status = "pending" /\ run'[r].count = 0
              \/ \E r \in Runs :
                   /\ run[r].status # "none" /\ OtherRuns(r)
                   /\ \/ run'[r].status \in {"running", "failed", "needs_reconnect"}
                      \/ run'[r].status = "done" /\ run'[r].count = Len(results'[r])
              \/ UNCHANGED <<run, results>>
<1>1. ASSUME NEW chosen \in SUBSET Sources, Plan(chosen)
      PROVE  /\ run' \in [Runs -> RunRow] /\ Planned = {} /\ UNCHANGED <<results, finished>>
             /\ \A r \in Runs : \/ run'[r] = NoRun
                                \/ run'[r].status = "pending" /\ run'[r].count = 0
  <2> DEFINE p == [NoRun EXCEPT !.status = "pending"]
  <2>1. p \in RunRow /\ p.status = "pending" /\ p.count = 0
    BY NoRunTyped DEF RunRow, NoRun, Outstanding
  <2>2. run' = [r \in Runs |-> IF SourceOf[r] \in chosen THEN p ELSE NoRun]
    BY <1>1 DEF Plan
  <2> HIDE DEF p
  <2> QED
    BY <1>1, <2>1, <2>2, NoRunTyped DEF Plan
<1>2. ASSUME NEW r \in Runs, NEW s \in {"running", "failed", "needs_reconnect"},
             run' = [run EXCEPT ![r].status = s]
      PROVE  /\ run' \in [Runs -> RunRow] /\ run'[r].status = s
             /\ \A q \in Runs : q # r => run'[q] = run[q]
  <2> DEFINE row == [run[r] EXCEPT !.status = s]
  <2>1. row \in RunRow /\ row.status = s
    BY DEF TypeOK, RunRow, Outstanding
  <2>2. run' = [run EXCEPT ![r] = row]
    BY <1>2
  <2> HIDE DEF row
  <2> QED
    BY <2>1, <2>2 DEF TypeOK
<1>3. ASSUME NEW r \in Runs, NEW found \in Lists, Store(r, found)
      PROVE  /\ run' \in [Runs -> RunRow] /\ results' \in [Runs -> Lists] /\ OtherRuns(r)
             /\ run'[r].status = "done" /\ run'[r].count = Len(results'[r])
             /\ UNCHANGED finished /\ run[r].status # "none"
  <2> DEFINE row == [status |-> "done", count |-> Len(found)]
  <2>1. row \in RunRow /\ row.status = "done" /\ row.count = Len(found)
    BY CountTyped DEF RunRow
  <2>2. run' = [run EXCEPT ![r] = row] /\ results' = [results EXCEPT ![r] = found]
    BY <1>3 DEF Store
  <2> HIDE DEF row
  <2> QED
    BY <1>3, <2>1, <2>2 DEF TypeOK, OtherRuns, Store
<1>4. ASSUME NEW r \in Runs,
             Start(r) \/ \E s \in {"failed", "needs_reconnect"} : Fail(r, s)
      PROVE  /\ run' \in [Runs -> RunRow] /\ OtherRuns(r) /\ UNCHANGED <<results, finished>>
             /\ run'[r].status \in {"running", "failed", "needs_reconnect"}
             /\ run[r].status # "none"
  BY <1>2, <1>4 DEF Start, Fail, Planned, OtherRuns
<1>5. ASSUME Close PROVE UNCHANGED <<run, results>> /\ finished' \in BOOLEAN
  BY <1>5 DEF Close
<1>6. CASE \E chosen \in SUBSET Sources : Plan(chosen)
  BY <1>1, <1>6 DEF TypeOK
<1>7. ASSUME NEW r \in Runs,
             \/ Start(r) \/ \E found \in Lists : Store(r, found)
             \/ \E status \in {"failed", "needs_reconnect"} : Fail(r, status)
      PROVE  /\ run' \in [Runs -> RunRow] /\ results' \in [Runs -> Lists]
             /\ finished' \in BOOLEAN
             /\ run[r].status # "none" /\ OtherRuns(r)
             /\ \/ run'[r].status \in {"running", "failed", "needs_reconnect"}
                \/ run'[r].status = "done" /\ run'[r].count = Len(results'[r])
  BY <1>3, <1>4, <1>7 DEF TypeOK
<1>8. CASE Close
  BY <1>5, <1>8 DEF TypeOK
<1> QED
  BY <1>6, <1>7, <1>8 DEF Proceed

LEMMA ProceedHonest ==
    ASSUME TypeOK, Honest(run, results), Blank(run), Proceed
    PROVE  Honest(run', results') /\ Blank(run')
<1>1. CASE /\ Planned = {} /\ results' = results
           /\ \A r \in Runs : \/ run'[r] = NoRun
                              \/ run'[r].status = "pending" /\ run'[r].count = 0
  <2>1. \A r \in Runs : results'[r] = <<>> /\ run'[r].status \in {"none", "pending"}
    BY <1>1, NoRunTyped DEF Planned, Honest
  <2> QED
    BY <1>1, <2>1 DEF Honest, Blank
<1>2. ASSUME NEW r \in Runs, OtherRuns(r),
             \/ run'[r].status \in {"running", "failed", "needs_reconnect"}
             \/ run'[r].status = "done" /\ run'[r].count = Len(results'[r])
      PROVE  Honest(run', results') /\ Blank(run')
  BY <1>2 DEF OtherRuns, Honest, Blank
<1>3. CASE UNCHANGED <<run, results>>
  BY <1>3 DEF Honest, Blank
<1> QED
  BY <1>1, <1>2, <1>3, ProceedDoes

-----------------------------------------------------------------------------
(* The steps, field by field *)

(* A set of runs has a last one: among the naturals < is well-founded. *)
LEMMA LastRun ==
    ASSUME NEW S \in SUBSET Runs, S # {}
    PROVE  Max(S) \in S /\ \A r \in S : Max(S) >= r
<1> DEFINE R == {p \in Nat \X Nat : p[1] < p[2]}
           T == {NRuns - r : r \in S}
<1>0. NRuns \in Nat /\ \A r \in S : r \in Nat /\ NRuns - r \in Nat
  BY SearchAssumption DEF Runs
<1>1. IsWellFoundedOn(R, Nat)
  BY NatLessThanWellFounded DEF OpToRel
<1>2. T \subseteq Nat /\ T # {}
  <2>1. PICK r \in S : TRUE
    OBVIOUS
  <2>2. NRuns - r \in T
    BY <2>1
  <2> QED
    BY <1>0, <2>2
<1> HIDE DEF T
<1>3. PICK t \in T : \A u \in T : ~ (<<u, t>> \in R)
  BY <1>1, <1>2, WFMin
<1>4. PICK m \in S : t = NRuns - m
  BY <1>3 DEF T
<1>5. \A r \in S : m >= r
  <2> SUFFICES ASSUME NEW r \in S, r > m PROVE FALSE
    BY <1>0, <1>4
  <2>1. NRuns - r \in T
    BY DEF T
  <2>2. NRuns - r \in Nat /\ t \in Nat /\ NRuns - r < t
    BY <1>0, <1>4
  <2>3. <<NRuns - r, t>> \in R
    BY <2>2
  <2> QED
    BY <1>3, <2>1, <2>3
<1> QED
  BY <1>5 DEF Max

LEMMA GoDoes ==
    ASSUME TypeOK, Go
    PROVE  TypeOK' /\ Proceed /\ UNCHANGED <<snap, stream>>
<1> DEFINE started == {r \in Runs : run[r].status # "running" /\ run'[r].status = "running"}
<1>1. IsFiniteSet(Runs)
  BY FS_Interval, SearchAssumption DEF Runs
<1>2. Cardinality(started) \in Nat
  BY <1>1, FS_Subset, FS_CardinalityType
<1>3. starts' = starts + Cardinality(started) /\ starts' <= MaxStarts
  BY DEF Go
<1> HIDE DEF started
<1>4. starts' \in 0..MaxStarts
  BY <1>2, <1>3, ViewAssumption DEF TypeOK
<1> QED
  BY <1>4, ProceedDoes DEF Go, TypeOK

LEMMA ReadRunsDoes ==
    ASSUME TypeOK, ReadRuns
    PROVE  /\ TypeOK' /\ UNCHANGED <<run, results, stream>> /\ Planned # {}
           /\ snap'.pc = "runs" /\ snap'.run = run /\ snap'.results = results
<1>1. snap' \in Snapshot
  BY DEF ReadRuns, TypeOK, Snapshot
<1> QED
  BY <1>1 DEF ReadRuns, TypeOK

LEMMA ReadRowsDoes ==
    ASSUME TypeOK, ReadRows
    PROVE  /\ TypeOK' /\ UNCHANGED <<run, results, stream>>
           /\ snap.pc = "runs" /\ snap'.run = snap.run /\ snap'.results = snap.results
<1> DEFINE old == snap.results
<1>1. snap' = [snap EXCEPT !.pc = "full", !.results = old]
  BY DEF ReadRows, Visible, TypeOK, Snapshot
<1>2. old \in [Runs -> Lists]
  BY DEF TypeOK, Snapshot
<1> HIDE DEF old
<1>3. snap' \in Snapshot /\ snap'.run = snap.run /\ snap'.results = old
  BY <1>1, <1>2 DEF TypeOK, Snapshot
<1> QED
  BY <1>3 DEF ReadRows, TypeOK, old

LEMMA OpenStreamDoes ==
    ASSUME TypeOK, OpenStream
    PROVE  /\ TypeOK' /\ UNCHANGED <<run, results, snap>>
           /\ stream'.seen = stream.seen /\ stream'.told = stream.told
<1> DEFINE n == stream.opened + 1
<1>1. n \in 0..MaxStreams
  BY ViewAssumption DEF OpenStream, TypeOK, Stream
<1>2. stream' = [stream EXCEPT !.pc = "open", !.opened = n]
  BY DEF OpenStream, TypeOK, Stream
<1> HIDE DEF n
<1>3. stream' \in Stream /\ stream'.seen = stream.seen /\ stream'.told = stream.told
  BY <1>1, <1>2 DEF TypeOK, Stream
<1> QED
  BY <1>3 DEF OpenStream, TypeOK

(* A turn of the stream tells what is news, and remembers of each source   *)
(* its last run, or nothing when it ends.                                  *)
PlannedIn(rows) == {r \in Runs : rows[r].status # "none"}
LastOf(rows, s) == Max({r \in PlannedIn(rows) : SourceOf[r] = s})

LEMMA PollStreamDoes ==
    ASSUME TypeOK, PollStream
    PROVE  /\ TypeOK' /\ UNCHANGED <<run, results>> /\ snap' = NothingRead /\ snap.pc = "full"
           /\ \A r \in Runs :
                stream'.told[r] = IF /\ r \in PlannedIn(snap.run)
                                     /\ Before(r, PlannedIn(snap.run)) # snap.run[r]
                                  THEN snap.run[r] ELSE stream.told[r]
           /\ \A s \in Sources :
                \/ stream'.seen[s] = NoRun
                \/ /\ \A r \in PlannedIn(snap.run) : SourceOf[r] # s
                   /\ stream'.seen[s] = stream.seen[s]
                \/ /\ \E r \in PlannedIn(snap.run) : SourceOf[r] = s
                   /\ stream'.seen[s] = snap.run[LastOf(snap.run, s)]
<1> DEFINE planned == PlannedIn(snap.run)
           told == [r \in Runs |-> IF r \in planned /\ Before(r, planned) # snap.run[r]
                                   THEN snap.run[r] ELSE stream.told[r]]
           none == [s \in Sources |-> NoRun]
           last == [s \in Sources |-> IF \A r \in planned : SourceOf[r] # s THEN stream.seen[s]
                                      ELSE snap.run[LastOf(snap.run, s)]]
<1>1. snap.run \in [Runs -> RunRow] /\ stream \in Stream
  BY DEF TypeOK, Snapshot
<1>2. told \in [Runs -> RunRow] /\ none \in [Sources -> RunRow]
  BY <1>1, NoRunTyped DEF Stream
<1>3. last \in [Sources -> RunRow]
  <2> SUFFICES ASSUME NEW s \in Sources, NEW r \in planned, SourceOf[r] = s
               PROVE  snap.run[LastOf(snap.run, s)] \in RunRow
    BY <1>1 DEF Stream
  <2>1. LastOf(snap.run, s) \in Runs
    <3> DEFINE S == {q \in PlannedIn(snap.run) : SourceOf[q] = s}
    <3>1. S \in SUBSET Runs /\ S # {}
      BY DEF PlannedIn
    <3> HIDE DEF S
    <3>2. Max(S) \in Runs
      BY <3>1, LastRun
    <3> QED BY <3>2 DEF S, LastOf
  <2> QED
    BY <1>1, <2>1
<1>4. \/ stream' = [stream EXCEPT !.told = told, !.seen = none, !.pc = "complete"]
      \/ stream' = [stream EXCEPT !.told = told, !.seen = last]
      \/ stream' = [stream EXCEPT !.told = told, !.seen = none, !.pc = "shut"]
  <2> DEFINE news == {r \in planned : Before(r, planned) # Fingerprint(snap.run[r])}
             of(s) == {r \in planned : SourceOf[r] = s}
  <2>1. planned = {r \in Runs : snap.run[r].status # "none"}
    BY DEF PlannedIn
  <2>2. told = [r \in Runs |-> IF r \in news THEN snap.run[r] ELSE stream.told[r]]
    BY DEF Fingerprint
  <2>3. last = [s \in Sources |-> IF of(s) = {} THEN stream.seen[s]
                                  ELSE Fingerprint(snap.run[Max(of(s))])]
    BY DEF Fingerprint, LastOf
  <2> DEFINE heard == [stream EXCEPT !.told = told]
  <2>4. \/ stream' = [[heard EXCEPT !.seen = none] EXCEPT !.pc = "complete"]
        \/ stream' = [heard EXCEPT !.seen = last]
        \/ stream' = [[heard EXCEPT !.seen = none] EXCEPT !.pc = "shut"]
    <3> HIDE DEF planned, last
    <3>1. told = [r \in Runs |-> IF r \in news THEN snap.run[r] ELSE stream.told[r]]
      BY <2>2
    <3> QED BY <2>1, <2>3, <3>1 DEF PollStream
  <2> HIDE DEF told, none, last
  <2> QED
    BY <1>1, <2>4 DEF Stream
<1> HIDE DEF told, last, none
<1>5. /\ stream' \in Stream /\ stream'.told = told /\ stream'.seen \in {none, last}
  BY <1>1, <1>2, <1>3, <1>4 DEF Stream
<1>6. TypeOK'
  BY <1>5, NothingReadTyped DEF PollStream, TypeOK
<1> QED
  BY <1>5, <1>6 DEF PollStream, told, last, none

LEMMA NextTyped == TypeOK /\ [Next]_viewVars => TypeOK'
BY GoDoes, ReadRunsDoes, ReadRowsDoes, OpenStreamDoes, PollStreamDoes
   DEF Next, viewVars, TypeOK

(* A snapshot, a page and a stream have the types that the client relies   *)
(* on, whatever the runs do while load_snapshot reads them.                *)
THEOREM ViewTyped == Spec => []TypeOK
BY InitTyped, NextTyped, PTL DEF Spec

-----------------------------------------------------------------------------
(* The snapshot *)

SnapInv ==
    /\ RunsInv
    /\ Honest(snap.run, snap.results) /\ Blank(snap.run)

LEMMA NothingReadHonest ==
    Honest(NothingRead.run, NothingRead.results) /\ Blank(NothingRead.run)
BY NoRunTyped DEF Honest, Blank, NothingRead

LEMMA SnapInit == Init => SnapInv
<1> SUFFICES ASSUME Init PROVE SnapInv
  OBVIOUS
<1>1. Honest(run, results) /\ Blank(run)
  BY NoRunTyped DEF Init, NothingYet, Honest, Blank
<1> QED
  BY <1>1, InitTyped, NothingReadHonest DEF Init, SnapInv, RunsInv

LEMMA SnapNext == SnapInv /\ [Next]_viewVars => SnapInv'
<1> SUFFICES ASSUME SnapInv, [Next]_viewVars PROVE SnapInv'
  OBVIOUS
<1>t. /\ TypeOK /\ TypeOK' /\ Honest(run, results) /\ Blank(run)
      /\ Honest(snap.run, snap.results) /\ Blank(snap.run)
  BY NextTyped DEF SnapInv, RunsInv
<1>1. CASE Go
  BY <1>t, <1>1, GoDoes, ProceedHonest DEF SnapInv, RunsInv, Honest, Blank
<1>2. CASE ReadRuns
  BY <1>t, <1>2, ReadRunsDoes DEF SnapInv, RunsInv, Honest, Blank
<1>3. CASE ReadRows
  BY <1>t, <1>3, ReadRowsDoes DEF SnapInv, RunsInv, Honest, Blank
<1>4. CASE OpenStream \/ UNCHANGED viewVars
  <2>1. UNCHANGED <<run, results, snap>>
    BY <1>t, <1>4, OpenStreamDoes DEF viewVars
  <2> QED
    BY <1>t, <2>1 DEF SnapInv, RunsInv, Honest, Blank
<1>5. CASE PollStream
  <2>1. UNCHANGED <<run, results>> /\ snap' = NothingRead
    BY <1>t, <1>5, PollStreamDoes
  <2> QED
    BY <1>t, <2>1, NothingReadHonest DEF SnapInv, RunsInv, Honest, Blank
<1> QED
  BY <1>1, <1>2, <1>3, <1>4, <1>5 DEF Next

(* No snapshot shows rows beside a status from before them, or a status    *)
(* without its rows: load_snapshot reads runs and rows in one REPEATABLE   *)
(* READ transaction, and a run's rows and status are written in one.       *)
THEOREM SnapshotConsistent == Spec => []SnapshotHonest
<1>1. SnapInv => SnapshotHonest
  BY DEF SnapInv, Honest, SnapshotHonest
<1> QED
  BY <1>1, SnapInit, SnapNext, PTL DEF Spec

-----------------------------------------------------------------------------
(* The stream *)

(* Its source has no other run. *)
Only(r) == \A q \in Runs \ {r} : SourceOf[q] # SourceOf[r]

(* The runs are planned before anything is read and all at once, so that a *)
(* snapshot, however old, has the runs that the search has; the client was *)
(* told of no other, and of a run that is its source's only one he was     *)
(* told what the stream remembers.                                         *)
Reads ==
    snap.pc # "none"
      => Planned # {} /\ \A r \in Runs : snap.run[r].status = "none" <=> run[r].status = "none"
ToldAt(r) ==
    /\ run[r].status = "none" => stream.told[r] = NoRun
    /\ Only(r) /\ stream.seen[SourceOf[r]] # NoRun
         => stream.told[r] = stream.seen[SourceOf[r]]

StreamInv == SnapInv /\ Reads /\ \A r \in Runs : ToldAt(r)

LEMMA PlanStands ==
    ASSUME TypeOK, Go, Planned # {}
    PROVE  Planned' # {} /\ \A r \in Runs : run'[r].status = "none" <=> run[r].status = "none"
<1>1. \A r \in Runs : run'[r].status = "none" <=> run[r].status = "none"
  BY GoDoes, ProceedDoes DEF OtherRuns
<1> QED
  BY <1>1 DEF Planned

LEMMA StreamInit == Init => StreamInv
<1> SUFFICES ASSUME Init PROVE StreamInv
  OBVIOUS
<1>1. Reads
  BY DEF Init, Reads, NothingRead
<1>2. \A r \in Runs : SourceOf[r] \in Sources
  BY SearchAssumption
<1>3. \A r \in Runs : ToldAt(r)
  BY <1>2 DEF Init, ToldAt
<1> QED
  BY <1>1, <1>3, SnapInit DEF StreamInv

(* After a turn the client knows each run that is its source's only one as *)
(* the snapshot had it.                                                    *)
LEMMA Heard ==
    ASSUME StreamInv, PollStream, NEW r \in Runs, Only(r)
    PROVE  /\ stream'.told[r] = snap.run[r]
           /\ stream'.seen[SourceOf[r]] \in {NoRun, stream.seen[SourceOf[r]], snap.run[r]}
           /\ r \notin PlannedIn(snap.run)
                => stream'.seen[SourceOf[r]] \in {NoRun, stream.seen[SourceOf[r]]}
           /\ r \in PlannedIn(snap.run)
                => stream'.seen[SourceOf[r]] \in {NoRun, snap.run[r]}
<1> DEFINE s == SourceOf[r]
           planned == PlannedIn(snap.run)
<1>t. TypeOK /\ snap.pc = "full" /\ s \in Sources /\ ToldAt(r) /\ Blank(snap.run) /\ Reads
  BY PollStreamDoes, SearchAssumption DEF StreamInv, SnapInv, RunsInv
<1>o. \A q \in planned : SourceOf[q] = s => q = r
  BY DEF PlannedIn, Only
<1>s. \/ stream'.seen[s] = NoRun
      \/ (\A q \in planned : SourceOf[q] # s) /\ stream'.seen[s] = stream.seen[s]
      \/ /\ \E q \in planned : SourceOf[q] = s
         /\ stream'.seen[s] = snap.run[LastOf(snap.run, s)]
  BY <1>t, PollStreamDoes
<1>d. stream'.told[r] = IF r \in planned /\ Before(r, planned) # snap.run[r]
                        THEN snap.run[r] ELSE stream.told[r]
  BY <1>t, PollStreamDoes
<1>1. CASE r \notin planned
  <2>1. snap.run[r].status = "none" /\ run[r].status = "none"
    BY <1>t, <1>1 DEF PlannedIn, Reads
  <2>2. snap.run[r] = NoRun /\ stream.told[r] = NoRun
    BY <1>t, <2>1 DEF Blank, ToldAt
  <2> QED
    BY <1>1, <1>o, <1>s, <1>d, <2>2
<1>2. CASE r \in planned
  <2>1. Before(r, planned) = stream.seen[s]
    <3>1. ~(r < r)
      BY SearchAssumption DEF Runs
    <3>2. {q \in planned : q < r /\ SourceOf[q] = SourceOf[r]} = {}
      BY <1>o, <3>1
    <3> QED BY <3>2 DEF Before
  <2>2. snap.run[r] # NoRun
    BY <1>2, NoRunTyped DEF PlannedIn
  <2>3. stream'.told[r] = snap.run[r]
    BY <1>t, <1>2, <1>d, <2>1, <2>2 DEF ToldAt
  <2>4. LastOf(snap.run, s) = r
    <3>1. {q \in planned : SourceOf[q] = s} = {r}
      BY <1>2, <1>o
    <3>2. Max({r}) = r
      BY LastRun
    <3> QED BY <3>1, <3>2 DEF LastOf
  <2> QED
    BY <1>2, <1>s, <2>3, <2>4
<1> QED
  BY <1>1, <1>2

LEMMA StreamNext == StreamInv /\ [Next]_viewVars => StreamInv'
<1> SUFFICES ASSUME StreamInv, [Next]_viewVars PROVE StreamInv'
  OBVIOUS
<1>t. TypeOK /\ SnapInv' /\ Reads /\ \A r \in Runs : ToldAt(r)
  BY SnapNext DEF StreamInv, SnapInv, RunsInv
<1>1. CASE Go
  <2>u. UNCHANGED <<snap, stream>>
    BY <1>t, <1>1, GoDoes
  <2>1. Reads'
    BY <1>t, <1>1, <2>u, PlanStands DEF Reads
  <2>2. ASSUME NEW r \in Runs PROVE ToldAt(r)'
    <3>1. run'[r].status = "none" => run[r].status = "none"
      BY <1>t, <1>1, PlanStands DEF Planned
    <3> QED BY <1>t, <2>u, <3>1 DEF ToldAt, Only
  <2> QED
    BY <1>t, <2>1, <2>2 DEF StreamInv
<1>2. CASE ReadRuns
  <2>1. UNCHANGED <<run, stream>> /\ Planned # {} /\ snap'.run = run
    BY <1>t, <1>2, ReadRunsDoes
  <2> QED
    BY <1>t, <2>1 DEF StreamInv, Reads, ToldAt, Only, Planned
<1>3. CASE ReadRows
  <2>1. UNCHANGED <<run, stream>> /\ snap.pc = "runs" /\ snap'.run = snap.run
    BY <1>t, <1>3, ReadRowsDoes
  <2> QED
    BY <1>t, <2>1 DEF StreamInv, Reads, ToldAt, Only, Planned
<1>4. CASE OpenStream \/ UNCHANGED viewVars
  <2>1. /\ UNCHANGED <<run, snap>> /\ stream'.seen = stream.seen
        /\ stream'.told = stream.told
    BY <1>t, <1>4, OpenStreamDoes DEF viewVars
  <2> QED
    BY <1>t, <2>1 DEF StreamInv, Reads, ToldAt, Only, Planned
<1>5. CASE PollStream
  <2>1. UNCHANGED run /\ snap' = NothingRead /\ snap.pc = "full"
    BY <1>t, <1>5, PollStreamDoes
  <2>2. Reads'
    BY <2>1 DEF Reads, NothingRead
  <2>3. ASSUME NEW r \in Runs PROVE ToldAt(r)'
    <3>1. run[r].status = "none" => stream'.told[r] = NoRun
      BY <1>t, <1>5, <2>1, PollStreamDoes DEF PlannedIn, Reads, ToldAt
    <3>2. ASSUME Only(r), stream'.seen[SourceOf[r]] # NoRun
          PROVE  stream'.told[r] = stream'.seen[SourceOf[r]]
      <4>1. CASE r \in PlannedIn(snap.run)
        BY <1>5, <3>2, <4>1, Heard
      <4>2. CASE r \notin PlannedIn(snap.run)
        <5>1. stream'.seen[SourceOf[r]] = stream.seen[SourceOf[r]]
          BY <1>5, <3>2, <4>2, Heard
        <5>2. stream'.told[r] = stream.told[r]
          BY <1>t, <1>5, <4>2, PollStreamDoes
        <5> QED BY <1>t, <3>2, <5>1, <5>2 DEF ToldAt
      <4> QED BY <4>1, <4>2
    <3> QED BY <2>1, <3>1, <3>2 DEF ToldAt, Only
  <2> QED
    BY <1>t, <2>2, <2>3 DEF StreamInv
<1> QED
  BY <1>1, <1>2, <1>3, <1>4, <1>5 DEF Next

(* A client that only listens knows, when the stream says complete, the    *)
(* status and count of every run that is its source's only one, however    *)
(* often event_stream hit SSE_MAX_SECONDS and was opened again: it says    *)
(* complete only after the news of the same snapshot.                      *)
THEOREM StreamComplete == Spec => StreamTellsAll
<1> DEFINE Tells == stream.pc = "open" /\ stream'.pc = "complete"
                      => \A r \in Runs : (\A q \in Runs \ {r} : SourceOf[q] # SourceOf[r])
                                         => stream'.told[r] = snap.run[r]
<1>1. StreamInv /\ [Next]_viewVars => [Tells]_viewVars
  <2> SUFFICES ASSUME StreamInv, Next, stream.pc = "open", stream'.pc = "complete",
                      NEW r \in Runs, \A q \in Runs \ {r} : SourceOf[q] # SourceOf[r]
               PROVE  stream'.told[r] = snap.run[r]
    OBVIOUS
  <2>1. PollStream
    <3>1. CASE OpenStream
      BY <3>1 DEF OpenStream
    <3> QED BY <3>1 DEF Next, Go, ReadRuns, ReadRows
  <2> QED
    BY <2>1, Heard DEF Only
<1> QED
  BY <1>1, StreamInit, StreamNext, PTL DEF Spec, StreamTellsAll
=============================================================================
