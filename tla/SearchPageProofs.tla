-------------------------- MODULE SearchPageProofs --------------------------
(***************************************************************************)
(* For any number of runs, sources and rows, and any cap: the page that    *)
(* merge makes of a snapshot interleaves the sources as it should. The     *)
(* page is a matter of the rows that were read alone, so that the types of *)
(* the snapshot are all of the specification that the proof needs.         *)
(***************************************************************************)
EXTENDS SearchViewProofs

-----------------------------------------------------------------------------
(* Sorting *)

(* A relation, as a set of pairs, that puts all of S into one order. *)
StrictlyOrders(R, S) ==
    /\ \A x \in S : <<x, x>> \notin R
    /\ \A x, y, z \in S : <<x, y>> \in R /\ <<y, z>> \in R => <<x, z>> \in R
    /\ \A x, y \in S : x # y => <<x, y>> \in R \/ <<y, x>> \in R

Ahead(R, S, x) == {y \in S : <<y, x>> \in R}

(* f holds all of S and nothing else, each once and in the order of R. *)
InOrder(f, S, R) ==
    /\ f \in [1..Cardinality(S) -> S]
    /\ \A x \in S : \E i \in 1..Cardinality(S) : f[i] = x
    /\ \A i, j \in 1..Cardinality(S) : i < j => <<f[i], f[j]>> \in R

(* What is ahead of an item gives each item a place of its own. *)
LEMMA Places ==
    ASSUME NEW S, NEW R, IsFiniteSet(S), StrictlyOrders(R, S)
    PROVE  LET n == Cardinality(S)
           IN /\ n \in Nat
              /\ \A i \in 1..n : \E x \in S : Cardinality(Ahead(R, S, x)) = i - 1
              /\ \A x \in S : Cardinality(Ahead(R, S, x)) \in 0..(n - 1)
              /\ \A x, y \in S : <<x, y>> \in R =>
                   Cardinality(Ahead(R, S, x)) < Cardinality(Ahead(R, S, y))
<1> DEFINE n == Cardinality(S)
           at(x) == Cardinality(Ahead(R, S, x))
<1>1. n \in Nat
  BY FS_CardinalityType
<1>2. ASSUME NEW x \in S PROVE /\ IsFiniteSet(Ahead(R, S, x)) /\ at(x) \in Nat /\ at(x) < n
  <2>1. Ahead(R, S, x) \in SUBSET S /\ x \notin Ahead(R, S, x)
    BY DEF Ahead, StrictlyOrders
  <2>2. IsFiniteSet(Ahead(R, S, x)) /\ at(x) <= n /\ (n = at(x) => S = Ahead(R, S, x))
    BY <2>1, FS_Subset
  <2>3. at(x) \in Nat
    BY <2>2, FS_CardinalityType
  <2> QED
    BY <1>1, <2>1, <2>2, <2>3
<1>3. ASSUME NEW x \in S, NEW y \in S, <<x, y>> \in R PROVE at(x) < at(y)
  <2>1. Ahead(R, S, x) \in SUBSET Ahead(R, S, y)
    BY <1>3 DEF Ahead, StrictlyOrders
  <2>2. x \in Ahead(R, S, y) /\ x \notin Ahead(R, S, x)
    BY <1>3 DEF Ahead, StrictlyOrders
  <2>3. at(x) <= at(y) /\ (at(y) = at(x) => Ahead(R, S, y) = Ahead(R, S, x))
    BY <1>2, <2>1, FS_Subset
  <2> QED
    BY <1>2, <2>2, <2>3
<1>4. \A i \in 1..n : \E x \in S : at(x) = i - 1
  <2> DEFINE place == [x \in S |-> at(x)]
  <2>1. place \in [S -> 0..(n - 1)]
    BY <1>1, <1>2
  <2>2. \A x, y \in S : place[x] = place[y] => x = y
    <3> SUFFICES ASSUME NEW x \in S, NEW y \in S, x # y PROVE at(x) # at(y)
      OBVIOUS
    <3>1. <<x, y>> \in R \/ <<y, x>> \in R
      BY DEF StrictlyOrders
    <3> QED
      BY <1>2, <1>3, <3>1
  <2> HIDE DEF place
  <2>3. place \in Injection(S, 0..(n - 1))
    BY <2>1, <2>2 DEF Injection, IsInjective
  <2>4. IsFiniteSet(0..(n - 1)) /\ Cardinality(0..(n - 1)) = n
    BY <1>1, FS_Interval
  <2>5. place \in Surjection(S, 0..(n - 1))
    BY <2>3, <2>4, FS_Injection
  <2>6. \A k \in 0..(n - 1) : \E x \in S : place[x] = k
    BY <2>5 DEF Surjection
  <2> QED
    BY <1>1, <2>6 DEF place
<1> QED
  BY <1>1, <1>2, <1>3, <1>4

(* So a list that gives the i-th place to the item with i - 1 ahead of it  *)
(* is the sorted one.                                                      *)
LEMMA PlacesSort ==
    ASSUME NEW S, NEW R, IsFiniteSet(S), StrictlyOrders(R, S),
           NEW f, f = [i \in 1..Cardinality(S) |-> f[i]],
           \A i \in 1..Cardinality(S) : f[i] \in S /\ Cardinality(Ahead(R, S, f[i])) = i - 1
    PROVE  InOrder(f, S, R)
<1> DEFINE n == Cardinality(S)
           at == [x \in S |-> Cardinality(Ahead(R, S, x))]
<1>1. /\ n \in Nat /\ at \in [S -> 0..(n - 1)]
      /\ \A x, y \in S : <<x, y>> \in R => at[x] < at[y]
  BY Places
<1>2. f \in [1..n -> S] /\ \A i \in 1..n : at[f[i]] = i - 1
  OBVIOUS
<1> HIDE DEF n, at
<1>3. ASSUME NEW x \in S, NEW y \in S, at[x] = at[y] PROVE x = y
  <2>1. at[x] \in Int /\ at[y] \in Int
    BY <1>1
  <2>2. <<x, y>> \notin R /\ <<y, x>> \notin R
    BY <1>1, <1>3, <2>1
  <2> QED
    BY <2>2 DEF StrictlyOrders
<1>4. \A x \in S : \E i \in 1..n : f[i] = x
  <2> TAKE x \in S
  <2>1. PICK k \in 0..(n - 1) : at[x] = k
    BY <1>1
  <2>2. PICK i \in 1..n : i = k + 1
    BY <1>1
  <2>3. f[i] \in S /\ at[f[i]] = i - 1
    BY <1>2
  <2>4. at[f[i]] = at[x]
    BY <2>1, <2>2, <2>3
  <2> QED
    BY <1>3, <2>3, <2>4
<1>5. \A i, j \in 1..n : i < j => <<f[i], f[j]>> \in R
  <2> TAKE i, j \in 1..n
  <2> HAVE i < j
  <2>1. f[i] \in S /\ f[j] \in S /\ at[f[i]] = i - 1 /\ at[f[j]] = j - 1
    BY <1>2
  <2>2. at[f[i]] < at[f[j]]
    BY <1>1, <2>1
  <2>3. ~ (at[f[j]] < at[f[i]])
    BY <1>1, <2>1, <2>2
  <2>4. <<f[j], f[i]>> \notin R
    BY <1>1, <2>1, <2>3
  <2>5. f[i] # f[j]
    BY <2>1
  <2> QED
    BY <2>1, <2>4, <2>5 DEF StrictlyOrders
<1> QED
  BY <1>2, <1>4, <1>5 DEF InOrder, n

(* The two orders of merge, as sets of pairs. *)
BetterOf(S) == {p \in S \X S : Better(p[1], p[2])}
HeadBetterOf(S) == {p \in S \X S : HeadBetter(p[1], p[2])}

LEMMA SortedByBetter ==
    ASSUME NEW S, IsFiniteSet(S), StrictlyOrders(BetterOf(S), S)
    PROVE  InOrder(Sorted(S, Better), S, BetterOf(S))
<1> DEFINE R == BetterOf(S)
           f == Sorted(S, Better)
<1>1. \A i \in 1..Cardinality(S) : \E x \in S : Cardinality(Ahead(R, S, x)) = i - 1
  BY Places
<1>2. \A x \in S : Ahead(R, S, x) = {y \in S : Better(y, x)}
  BY DEF Ahead, BetterOf
<1>3. f = [i \in 1..Cardinality(S) |->
             CHOOSE x \in S : Cardinality({y \in S : Better(y, x)}) = i - 1]
  BY DEF Sorted
<1>4. ASSUME NEW i \in 1..Cardinality(S)
      PROVE  f[i] \in S /\ Cardinality(Ahead(R, S, f[i])) = i - 1
  <2>1. \E x \in S : Cardinality({y \in S : Better(y, x)}) = i - 1
    BY <1>1, <1>2
  <2>2. f[i] = CHOOSE x \in S : Cardinality({y \in S : Better(y, x)}) = i - 1
    BY <1>3
  <2> HIDE DEF f
  <2>3. f[i] \in S /\ Cardinality({y \in S : Better(y, f[i])}) = i - 1
    BY <2>1, <2>2
  <2> QED
    BY <1>2, <2>3
<1>5. f = [i \in 1..Cardinality(S) |-> f[i]]
  BY <1>3
<1> HIDE DEF f, R
<1> QED
  BY <1>4, <1>5, PlacesSort DEF f, R

LEMMA SortedByHead ==
    ASSUME NEW S, IsFiniteSet(S), StrictlyOrders(HeadBetterOf(S), S)
    PROVE  InOrder(Sorted(S, HeadBetter), S, HeadBetterOf(S))
<1> DEFINE R == HeadBetterOf(S)
           f == Sorted(S, HeadBetter)
<1>1. \A i \in 1..Cardinality(S) : \E x \in S : Cardinality(Ahead(R, S, x)) = i - 1
  BY Places
<1>2. \A x \in S : Ahead(R, S, x) = {y \in S : HeadBetter(y, x)}
  BY DEF Ahead, HeadBetterOf
<1>3. f = [i \in 1..Cardinality(S) |->
             CHOOSE x \in S : Cardinality({y \in S : HeadBetter(y, x)}) = i - 1]
  BY DEF Sorted
<1>4. ASSUME NEW i \in 1..Cardinality(S)
      PROVE  f[i] \in S /\ Cardinality(Ahead(R, S, f[i])) = i - 1
  <2>1. \E x \in S : Cardinality({y \in S : HeadBetter(y, x)}) = i - 1
    BY <1>1, <1>2
  <2>2. f[i] = CHOOSE x \in S : Cardinality({y \in S : HeadBetter(y, x)}) = i - 1
    BY <1>3
  <2> HIDE DEF f
  <2>3. f[i] \in S /\ Cardinality({y \in S : HeadBetter(y, f[i])}) = i - 1
    BY <2>1, <2>2
  <2> QED
    BY <1>2, <2>3
<1>5. f = [i \in 1..Cardinality(S) |-> f[i]]
  BY <1>3
<1> HIDE DEF f, R
<1> QED
  BY <1>4, <1>5, PlacesSort DEF f, R

-----------------------------------------------------------------------------
(* Rows *)

RowOf(found, r, k) ==
    [source |-> SourceOf[r], id |-> <<r, k>>, score |-> Score(k, found[r][k])]

(* The rows of a source, and how many of them fit under the cap. *)
RowsOf(found, s) == {x \in RankedRows(found) : x.source = s}
Fits(found, s) == Min({PerSourceCap, Cardinality(RowsOf(found, s))})

LEMMA ScoreTyped ==
    ASSUME NEW k \in Nat, NEW age \in Ages
    PROVE  Score(k, age) \in Int
<1>1. Recency(age) \in Int
  BY DEF Recency, Ages
<1>2. 10920 \div (5 + k) \in Int
  <2>1. 5 + k \in Nat /\ 5 + k > 0
    OBVIOUS
  <2> QED
    BY <2>1
<1> QED
  BY <1>1, <1>2 DEF Score

(* A row is known by its id, and its score is a number. *)
LEMMA RowTyped ==
    ASSUME NEW found \in [Runs -> Lists], NEW x \in RankedRows(found)
    PROVE  /\ x.source \in Sources /\ x.score \in Int
           /\ x.id[1] \in Runs /\ x.id[2] \in 1..Len(found[x.id[1]])
           /\ x = RowOf(found, x.id[1], x.id[2])
<1>0. PICK r \in Runs : \E k \in DOMAIN found[r] : x = RowOf(found, r, k)
  BY DEF RankedRows, RowOf
<1>1. PICK k \in DOMAIN found[r] : x = RowOf(found, r, k)
  BY <1>0
<1>2. found[r] \in Seq(Ages)
  BY ListsAssumption
<1>3. DOMAIN found[r] = 1..Len(found[r]) /\ k \in Nat /\ found[r][k] \in Ages
  BY <1>2
<1>4. Score(k, found[r][k]) \in Int
  BY <1>3, ScoreTyped
<1>5. x.id = <<r, k>> /\ x.source = SourceOf[r] /\ x.score = Score(k, found[r][k])
  BY <1>1 DEF RowOf
<1>6. x.id[1] = r /\ x.id[2] = k
  BY <1>5
<1> QED
  BY <1>1, <1>3, <1>4, <1>5, <1>6, SearchAssumption

LEMMA RowsFinite ==
    ASSUME NEW found \in [Runs -> Lists]
    PROVE  IsFiniteSet(RankedRows(found))
<1> DEFINE Of(r) == {RowOf(found, r, k) : k \in DOMAIN found[r]}
           of == [r \in Runs |-> Of(r)]
           All == {Of(r) : r \in Runs}
<1>1. ASSUME NEW r \in Runs PROVE IsFiniteSet(Of(r))
  <2> DEFINE f == [k \in DOMAIN found[r] |-> RowOf(found, r, k)]
  <2>1. found[r] \in Seq(Ages)
    BY ListsAssumption
  <2>2. DOMAIN found[r] = 1..Len(found[r]) /\ Len(found[r]) \in Nat
    BY <2>1
  <2>3. IsFiniteSet(DOMAIN found[r])
    BY <2>2, FS_Interval
  <2>4. f \in Surjection(DOMAIN found[r], Of(r))
    BY DEF Surjection
  <2> QED
    BY <2>3, <2>4, FS_Surjection
<1>2. IsFiniteSet(Runs)
  BY FS_Interval, SearchAssumption DEF Runs
<1>3. of \in Surjection(Runs, All)
  <2> HIDE DEF Of
  <2> QED
    BY DEF Surjection
<1>4. IsFiniteSet(All)
  BY <1>2, <1>3, FS_Surjection
<1>5. RankedRows(found) = UNION All
  BY DEF RankedRows, RowOf
<1> HIDE DEF All
<1>6. \A T \in All : IsFiniteSet(T)
  BY <1>1 DEF All
<1> QED
  BY <1>4, <1>5, <1>6, FS_UNION

LEMMA IdOrder ==
    ASSUME NEW found \in [Runs -> Lists],
           NEW x \in RankedRows(found), NEW y \in RankedRows(found)
    PROVE  /\ ~ IdBefore(x.id, x.id)
           /\ x # y => IdBefore(x.id, y.id) \/ IdBefore(y.id, x.id)
           /\ \A z \in RankedRows(found) :
                IdBefore(x.id, y.id) /\ IdBefore(y.id, z.id) => IdBefore(x.id, z.id)
<1>1. \A z \in RankedRows(found) :
        z.id[1] \in Int /\ z.id[2] \in Int /\ z = RowOf(found, z.id[1], z.id[2])
  BY RowTyped DEF Runs
<1>2. x # y => x.id[1] # y.id[1] \/ x.id[2] # y.id[2]
  BY <1>1
<1> QED
  BY <1>1, <1>2 DEF IdBefore

(* Score, then id, orders the rows of all sources. *)
LEMMA BetterOrders ==
    ASSUME NEW found \in [Runs -> Lists], NEW S \in SUBSET RankedRows(found)
    PROVE  StrictlyOrders(BetterOf(S), S)
<1>1. \A x \in S : x \in RankedRows(found) /\ x.score \in Int
  BY RowTyped
<1>2. \A x \in S : ~ Better(x, x)
  BY <1>1, IdOrder DEF Better
<1>3. ASSUME NEW x \in S, NEW y \in S, NEW z \in S, Better(x, y), Better(y, z)
      PROVE  Better(x, z)
  <2>1. IdBefore(x.id, y.id) /\ IdBefore(y.id, z.id) => IdBefore(x.id, z.id)
    BY <1>1, IdOrder
  <2> QED
    BY <1>1, <1>3, <2>1 DEF Better
<1>4. ASSUME NEW x \in S, NEW y \in S, x # y PROVE Better(x, y) \/ Better(y, x)
  <2>1. IdBefore(x.id, y.id) \/ IdBefore(y.id, x.id)
    BY <1>1, <1>4, IdOrder
  <2> QED
    BY <1>1, <2>1 DEF Better
<1>5. \A x, y \in S : <<x, y>> \in BetterOf(S) <=> Better(x, y)
  BY DEF BetterOf
<1> QED
  BY <1>2, <1>3, <1>4, <1>5 DEF StrictlyOrders

(* A source has a first run, and the sources sort as their first runs do. *)
LEMMA FirstRun ==
    ASSUME NEW s \in Sources
    PROVE  \E r \in Runs : SourceOf[r] = s /\ \A q \in Runs : SourceOf[q] = s => r <= q
<1> DEFINE R == {p \in Nat \X Nat : p[1] < p[2]}
           T == {r \in Runs : SourceOf[r] = s}
<1>1. IsWellFoundedOn(R, Nat)
  BY NatLessThanWellFounded DEF OpToRel
<1>2. T \subseteq Nat /\ T # {}
  BY SearchAssumption DEF Runs
<1>3. PICK r \in T : \A q \in T : ~ (<<q, r>> \in R)
  BY <1>1, <1>2, WFMin
<1>4. ASSUME NEW q \in T PROVE r <= q
  <2>1. q \in Nat /\ r \in Nat
    BY <1>2
  <2>2. q < r => <<q, r>> \in R
    BY <2>1
  <2> QED
    BY <1>3, <2>1, <2>2
<1> QED
  BY <1>3, <1>4

LEMMA SourceOrder ==
    /\ \A s \in Sources : ~ SourceBefore(s, s)
    /\ \A s, t, u \in Sources :
         SourceBefore(s, t) /\ SourceBefore(t, u) => SourceBefore(s, u)
    /\ \A s, t \in Sources : s # t => SourceBefore(s, t) \/ SourceBefore(t, s)
<1>1. Runs \subseteq Nat
  BY DEF Runs
<1>2. \A s \in Sources : ~ SourceBefore(s, s)
  BY <1>1 DEF SourceBefore
<1>3. ASSUME NEW s \in Sources, NEW t \in Sources, NEW u \in Sources,
             SourceBefore(s, t), SourceBefore(t, u)
      PROVE  SourceBefore(s, u)
  <2>1. PICK r \in Runs : SourceOf[r] = s /\ \A q \in Runs : SourceOf[q] = t => r < q
    BY <1>3 DEF SourceBefore
  <2>2. PICK q \in Runs : SourceOf[q] = t /\ \A w \in Runs : SourceOf[w] = u => q < w
    BY <1>3 DEF SourceBefore
  <2>3. \A w \in Runs : SourceOf[w] = u => r < w
    BY <1>1, <2>1, <2>2
  <2> QED
    BY <2>1, <2>3 DEF SourceBefore
<1>4. ASSUME NEW s \in Sources, NEW t \in Sources, s # t
      PROVE  SourceBefore(s, t) \/ SourceBefore(t, s)
  <2>1. PICK r \in Runs : SourceOf[r] = s /\ \A q \in Runs : SourceOf[q] = s => r <= q
    BY FirstRun
  <2>2. PICK q \in Runs : SourceOf[q] = t /\ \A w \in Runs : SourceOf[w] = t => q <= w
    BY FirstRun
  <2>3. r # q
    BY <1>4, <2>1, <2>2
  <2>4. CASE r < q
    <3>1. \A w \in Runs : SourceOf[w] = t => r < w
      BY <1>1, <2>2, <2>4
    <3> QED
      BY <2>1, <3>1 DEF SourceBefore
  <2>5. CASE q < r
    <3>1. \A w \in Runs : SourceOf[w] = s => q < w
      BY <1>1, <2>1, <2>5
    <3> QED
      BY <2>2, <3>1 DEF SourceBefore
  <2> QED
    BY <1>1, <2>3, <2>4, <2>5
<1> QED
  BY <1>2, <1>3, <1>4

(* Score, then source, orders the heads of a round: one of each source. *)
LEMMA HeadsOrder ==
    ASSUME NEW found \in [Runs -> Lists], NEW S \in SUBSET RankedRows(found),
           \A x, y \in S : x.source = y.source => x = y
    PROVE  StrictlyOrders(HeadBetterOf(S), S)
<1>1. \A x \in S : x.source \in Sources /\ x.score \in Int
  BY RowTyped
<1>2. \A x \in S : ~ HeadBetter(x, x)
  BY <1>1, SourceOrder DEF HeadBetter
<1>3. ASSUME NEW x \in S, NEW y \in S, NEW z \in S, HeadBetter(x, y), HeadBetter(y, z)
      PROVE  HeadBetter(x, z)
  <2>1. SourceBefore(x.source, y.source) /\ SourceBefore(y.source, z.source)
        => SourceBefore(x.source, z.source)
    BY <1>1, SourceOrder
  <2> QED
    BY <1>1, <1>3, <2>1 DEF HeadBetter
<1>4. ASSUME NEW x \in S, NEW y \in S, x # y PROVE HeadBetter(x, y) \/ HeadBetter(y, x)
  <2>1. SourceBefore(x.source, y.source) \/ SourceBefore(y.source, x.source)
    BY <1>1, <1>4, SourceOrder
  <2> QED
    BY <1>1, <2>1 DEF HeadBetter
<1>5. \A x, y \in S : <<x, y>> \in HeadBetterOf(S) <=> HeadBetter(x, y)
  BY DEF HeadBetterOf
<1> QED
  BY <1>2, <1>3, <1>4, <1>5 DEF StrictlyOrders

-----------------------------------------------------------------------------
(* Numbers and lists *)

LEMMA NatSet ==
    ASSUME NEW K, 0 \in K, \A n \in Nat : n \in K => n + 1 \in K
    PROVE  Nat \subseteq K
<1> DEFINE R == {p \in Nat \X Nat : p[1] < p[2]}
           T == Nat \ K
<1> SUFFICES ASSUME T # {} PROVE FALSE
  OBVIOUS
<1>1. IsWellFoundedOn(R, Nat)
  BY NatLessThanWellFounded DEF OpToRel
<1>2. T \subseteq Nat
  OBVIOUS
<1> HIDE DEF T
<1>3. PICK m \in T : \A k \in T : ~ (<<k, m>> \in R)
  BY <1>1, <1>2, WFMin
<1>4. m \in Nat /\ m \notin K /\ m # 0
  BY <1>3 DEF T
<1>5. m - 1 \in Nat /\ m = (m - 1) + 1 /\ m - 1 < m
  BY <1>4
<1>6. m - 1 \in T
  BY <1>4, <1>5 DEF T
<1>7. <<m - 1, m>> \in R
  BY <1>4, <1>5
<1> QED
  BY <1>3, <1>6, <1>7

LEMMA MinOfTwo ==
    ASSUME NEW a \in Int, NEW b \in Int
    PROVE  Min({a, b}) = IF a <= b THEN a ELSE b
<1> DEFINE m == IF a <= b THEN a ELSE b
<1>1. m \in {a, b} /\ \A y \in {a, b} : m <= y
  OBVIOUS
<1>2. \A x \in {a, b} : (\A y \in {a, b} : x <= y) => x = m
  OBVIOUS
<1> QED
  BY <1>1, <1>2 DEF Min

LEMMA MaxUnder ==
    ASSUME NEW m \in Nat, NEW S \in SUBSET (0..m), S # {}
    PROVE  Max(S) \in S /\ \A x \in S : x <= Max(S)
<1> DEFINE R == {p \in Nat \X Nat : p[1] < p[2]}
           T == {m - x : x \in S}
<1>1. IsWellFoundedOn(R, Nat)
  BY NatLessThanWellFounded DEF OpToRel
<1>2. T \subseteq Nat /\ T # {}
  <2>1. PICK x \in S : TRUE
    OBVIOUS
  <2>2. m - x \in T
    BY <2>1
  <2> QED
    BY <2>2
<1>3. PICK t \in T : \A u \in T : ~ (<<u, t>> \in R)
  BY <1>1, <1>2, WFMin
<1>4. PICK a \in S : t = m - a
  OBVIOUS
<1>5. ASSUME NEW x \in S PROVE a >= x
  <2>1. m - x \in T /\ m - x \in Nat /\ t \in Nat
    BY <1>2
  <2>2. m - x < t => <<m - x, t>> \in R
    BY <2>1
  <2> HIDE DEF R, T
  <2> QED
    BY <1>3, <1>4, <2>1, <2>2
<1>6. \E y \in S : \A x \in S : y >= x
  BY <1>5
<1>7. Max(S) \in S /\ \A x \in S : Max(S) >= x
  BY <1>6 DEF Max
<1> QED
  BY <1>7

(* What flattening n lists in turn makes of them. *)
Flat(f, seqs, n) ==
    /\ n > 0 => f[1] = seqs[1]
    /\ \A i \in 1..n : i > 1 => f[i] = f[i - 1] \o seqs[i]

LEMMA Flattened ==
    ASSUME NEW S, NEW seqs \in Seq(Seq(S)), Len(seqs) > 0
    PROVE  \E f \in [1..Len(seqs) -> Seq(S)] :
              Flat(f, seqs, Len(seqs)) /\ FlattenSeq(seqs) = f[Len(seqs)]
<1> DEFINE n == Len(seqs)
           Eq(f, m) == f = [i \in 1..m |-> IF i = 1 THEN seqs[i] ELSE f[i - 1] \o seqs[i]]
           K == {m \in Nat : m <= n => \E f \in [1..m -> Seq(S)] : Eq(f, m)}
<1>0. n \in Nat /\ \A i \in 1..n : seqs[i] \in Seq(S)
  OBVIOUS
<1>1. 0 \in K
  <2>1. [i \in 1..0 |-> <<>>] \in [1..0 -> Seq(S)] /\ 1..0 = {}
    OBVIOUS
  <2>2. Eq([i \in 1..0 |-> <<>>], 0)
    BY <2>1
  <2> QED
    BY <2>1, <2>2
<1>2. ASSUME NEW m \in Nat, m \in K PROVE m + 1 \in K
  <2> SUFFICES ASSUME m + 1 <= n
               PROVE  \E f \in [1..(m + 1) -> Seq(S)] : Eq(f, m + 1)
    <3> HIDE DEF Eq
    <3> QED
      OBVIOUS
  <2>1. m <= n
    BY <1>0
  <2>2. PICK f \in [1..m -> Seq(S)] : Eq(f, m)
    BY <1>2, <2>1
  <2> DEFINE g == [i \in 1..(m + 1) |-> IF i <= m THEN f[i]
                                        ELSE IF i = 1 THEN seqs[i] ELSE f[m] \o seqs[i]]
  <2>3. ASSUME NEW i \in 1..(m + 1)
        PROVE  /\ g[i] \in Seq(S)
               /\ g[i] = IF i = 1 THEN seqs[i] ELSE g[i - 1] \o seqs[i]
    <3>1. seqs[i] \in Seq(S)
      BY <1>0
    <3>2. CASE i <= m
      <4>1. i \in 1..m /\ g[i] = f[i] /\ f[i] \in Seq(S)
        BY <3>2
      <4>2. f[i] = IF i = 1 THEN seqs[i] ELSE f[i - 1] \o seqs[i]
        BY <2>2, <4>1
      <4>3. i # 1 => g[i - 1] = f[i - 1]
        BY <4>1
      <4> HIDE DEF g
      <4> QED
        BY <4>1, <4>2, <4>3
    <3>3. CASE i = m + 1 /\ i = 1
      BY <3>1, <3>3
    <3>4. CASE i = m + 1 /\ i # 1
      <4>1. m \in 1..m /\ i - 1 = m /\ f[m] \in Seq(S)
        BY <3>4
      <4>2. g[i] = f[m] \o seqs[i] /\ g[i - 1] = f[m]
        BY <3>4, <4>1
      <4>3. f[m] \o seqs[i] \in Seq(S)
        BY <3>1, <4>1
      <4> HIDE DEF g
      <4> QED
        BY <3>4, <4>2, <4>3
    <3> QED
      BY <3>2, <3>3, <3>4
  <2>4. DOMAIN g = 1..(m + 1) /\ g = [i \in 1..(m + 1) |-> g[i]]
    OBVIOUS
  <2> HIDE DEF g
  <2>5. g \in [1..(m + 1) -> Seq(S)] /\ Eq(g, m + 1)
    BY <2>3, <2>4
  <2> QED
    BY <2>5
<1> HIDE DEF K
<1>3. n \in K
  BY <1>0, <1>1, <1>2, NatSet
<1>4. \E f \in [1..n -> Seq(S)] : Eq(f, n)
  <2> HIDE DEF Eq, n
  <2> QED
    BY <1>3 DEF K
<1> DEFINE f == CHOOSE g : Eq(g, n)
<1>5. Eq(f, n)
  BY <1>4
<1>6. FlattenSeq(seqs) = f[n]
  BY DEF FlattenSeq
<1> HIDE DEF f
<1>7. \A i \in 1..n : f[i] = IF i = 1 THEN seqs[i] ELSE f[i - 1] \o seqs[i]
  BY <1>5
<1>8. Flat(f, seqs, n)
  <2>1. n > 0 => 1 \in 1..n
    BY <1>0
  <2> HIDE DEF n
  <2>2. n > 0 => f[1] = seqs[1]
    BY <1>7, <2>1
  <2>3. \A i \in 1..n : i > 1 => f[i] = f[i - 1] \o seqs[i]
    <3> TAKE i \in 1..n
    <3> HAVE i > 1
    <3>1. i # 1
      BY <1>0
    <3> QED
      BY <1>7, <3>1
  <2> QED
    BY <2>2, <2>3 DEF Flat
<1>9. f \in [1..n -> Seq(S)]
  <2> DEFINE J == {i \in Nat : i \in 1..n => f[i] \in Seq(S)}
  <2>1. 0 \in J
    OBVIOUS
  <2>2. ASSUME NEW i \in Nat, i \in J PROVE i + 1 \in J
    <3> SUFFICES ASSUME i + 1 \in 1..n PROVE f[i + 1] \in Seq(S)
      OBVIOUS
    <3>1. seqs[i + 1] \in Seq(S)
      BY <1>0
    <3>2. CASE i = 0
      BY <1>7, <3>1, <3>2
    <3>3. CASE i > 0
      <4>1. i \in 1..n /\ f[i] \in Seq(S)
        BY <1>0, <2>2, <3>3
      <4>2. PICK j \in 1..n : j = i + 1 /\ j # 1 /\ j - 1 = i
        BY <3>3
      <4>3. f[j] = f[j - 1] \o seqs[j]
        BY <1>7, <4>2
      <4> QED
        BY <3>1, <4>1, <4>2, <4>3
    <3> QED
      BY <3>2, <3>3
  <2> HIDE DEF J
  <2>3. \A i \in Nat : i \in J
    BY <2>1, <2>2, NatSet
  <2>4. \A i \in 1..n : f[i] \in Seq(S)
    BY <1>0, <2>3 DEF J
  <2>5. DOMAIN f = 1..n /\ f = [i \in 1..n |-> f[i]]
    BY <1>5
  <2> QED
    BY <2>4, <2>5
<1> QED
  BY <1>6, <1>8, <1>9

-----------------------------------------------------------------------------
(* Buckets *)

LEMMA FitsTyped ==
    ASSUME NEW found \in [Runs -> Lists], NEW s \in Sources
    PROVE  LET all == Cardinality(RowsOf(found, s))
           IN /\ all \in Nat /\ Fits(found, s) \in 0..PerSourceCap
              /\ Fits(found, s) = IF PerSourceCap <= all THEN PerSourceCap ELSE all
<1>1. IsFiniteSet(RowsOf(found, s))
  BY RowsFinite, FS_Subset DEF RowsOf
<1>2. Cardinality(RowsOf(found, s)) \in Nat
  BY <1>1, FS_CardinalityType
<1> QED
  BY <1>2, MinOfTwo, ViewAssumption DEF Fits

(* A bucket holds the best rows of its source, best first. *)
LEMMA BucketHolds ==
    ASSUME NEW found \in [Runs -> Lists], NEW s \in Sources
    PROVE  LET b == Bucket(RankedRows(found), s)
               n == Fits(found, s)
           IN /\ b \in [1..n -> RowsOf(found, s)] /\ Len(b) = n
              /\ b \in Seq(RankedRows(found))
              /\ \A i, j \in 1..n : i < j => Better(b[i], b[j])
              /\ \A y \in RowsOf(found, s) :
                   \/ \E i \in 1..n : b[i] = y
                   \/ \A i \in 1..n : Better(b[i], y)
<1> DEFINE S == RowsOf(found, s)
           all == Cardinality(S)
           n == Fits(found, s)
           sorted == Sorted(S, Better)
           b == SubSeq(sorted, 1, n)
<1>1. IsFiniteSet(S) /\ S \in SUBSET RankedRows(found)
  BY RowsFinite, FS_Subset DEF RowsOf
<1>2. InOrder(sorted, S, BetterOf(S))
  BY <1>1, BetterOrders, SortedByBetter
<1>3. all \in Nat /\ n \in 0..all
  BY FitsTyped, ViewAssumption
<1> HIDE DEF S, all, n, sorted
<1>4. /\ sorted \in [1..all -> S] /\ \A x \in S : \E i \in 1..all : sorted[i] = x
      /\ \A i, j \in 1..all : i < j => Better(sorted[i], sorted[j])
  BY <1>2 DEF InOrder, BetterOf, all
<1>5. sorted \in Seq(S) /\ Len(sorted) = all
  BY <1>3, <1>4
<1>6. b = [i \in 1..n |-> sorted[i]]
  BY <1>3, <1>5
<1>7. Bucket(RankedRows(found), s) = b
  BY <1>5 DEF Bucket, S, all, n, sorted, Fits, RowsOf
<1> HIDE DEF b
<1>8. \A i \in 1..n : i \in 1..all /\ b[i] = sorted[i]
  BY <1>3, <1>6
<1>9. b \in [1..n -> S] /\ Len(b) = n /\ b \in Seq(RankedRows(found))
  BY <1>1, <1>3, <1>4, <1>6, <1>8
<1>10. \A i, j \in 1..n : i < j => Better(b[i], b[j])
  BY <1>4, <1>8
<1>11. ASSUME NEW y \in S
       PROVE  (\E i \in 1..n : b[i] = y) \/ (\A i \in 1..n : Better(b[i], y))
  <2>1. PICK j \in 1..all : sorted[j] = y
    BY <1>4
  <2>2. CASE j <= n
    BY <1>3, <1>8, <2>1, <2>2
  <2>3. CASE j > n
    BY <1>3, <1>4, <1>8, <2>1, <2>3
  <2> QED
    BY <1>3, <2>2, <2>3
<1> QED
  BY <1>7, <1>9, <1>10, <1>11 DEF n, S

-----------------------------------------------------------------------------
(* Rounds *)

(* Buckets as merge fills them: each row lies in that of its source, once. *)
Filled(b, found) ==
    \A s \in Sources :
       /\ b[s] \in Seq(RankedRows(found)) /\ Len(b[s]) <= PerSourceCap
       /\ \A k \in 1..Len(b[s]) : b[s][k].source = s
       /\ \A j, k \in 1..Len(b[s]) : b[s][j] = b[s][k] => j = k

LEMMA OneSlot ==
    ASSUME NEW found \in [Runs -> Lists], NEW b, Filled(b, found),
           NEW s \in Sources, NEW t \in Sources,
           NEW j \in 1..Len(b[s]), NEW k \in 1..Len(b[t]), b[s][j] = b[t][k]
    PROVE  s = t /\ j = k
<1>1. s = t
  BY DEF Filled
<1> QED
  BY <1>1 DEF Filled

TurnBefore(x, y, b) ==
    \A s, t \in Sources : \A k \in 1..Len(b[s]), m \in 1..Len(b[t]) :
       x = b[s][k] /\ y = b[t][m] => k < m \/ (k = m /\ HeadBetter(x, y))

(* The rows that n rounds place: the first n of each bucket, by round and  *)
(* within a round by score and source.                                     *)
Dealt(f, b, n) ==
    /\ \A s \in Sources : \A k \in 1..Len(b[s]) :
         k <= n => \E i \in 1..Len(f) : f[i] = b[s][k]
    /\ \A i \in 1..Len(f) : \E s \in Sources : \E k \in 1..Len(b[s]) :
         k <= n /\ f[i] = b[s][k]
    /\ \A i, j \in 1..Len(f) : i < j => TurnBefore(f[i], f[j], b)

Heads(b, n) == {b[s][n] : s \in {t \in Sources : Len(b[t]) >= n}}

(* One round: the head of each bucket that has one, in order. *)
Round(f, b, n) ==
    /\ \A s \in Sources : Len(b[s]) >= n => \E i \in 1..Len(f) : f[i] = b[s][n]
    /\ \A i \in 1..Len(f) : \E s \in Sources : Len(b[s]) >= n /\ f[i] = b[s][n]
    /\ \A i, j \in 1..Len(f) : i < j => HeadBetter(f[i], f[j])

LEMMA RoundSorted ==
    ASSUME NEW found \in [Runs -> Lists], NEW b, Filled(b, found), NEW n \in Nat \ {0}
    PROVE  LET f == Sorted(Heads(b, n), HeadBetter)
           IN f \in Seq(RankedRows(found)) /\ Round(f, b, n)
<1> DEFINE S == Heads(b, n)
           f == Sorted(S, HeadBetter)
<1>1. \A s \in Sources : Len(b[s]) \in Nat /\ (Len(b[s]) >= n => n \in 1..Len(b[s]))
  BY DEF Filled
<1>2. \A s \in Sources : Len(b[s]) >= n => b[s][n] \in RankedRows(found) /\ b[s][n].source = s
  BY <1>1 DEF Filled
<1>3. S \in SUBSET RankedRows(found)
  BY <1>2 DEF Heads
<1>4. \A x, y \in S : x.source = y.source => x = y
  BY <1>2 DEF Heads
<1>5. IsFiniteSet(S)
  BY <1>3, RowsFinite, FS_Subset
<1>6. InOrder(f, S, HeadBetterOf(S))
  <2>1. StrictlyOrders(HeadBetterOf(S), S)
    BY <1>3, <1>4, HeadsOrder
  <2> QED
    BY <1>5, <2>1, SortedByHead
<1>7. Cardinality(S) \in Nat
  BY <1>5, FS_CardinalityType
<1> HIDE DEF S, f
<1>8. f \in Seq(S) /\ Len(f) = Cardinality(S)
  BY <1>6, <1>7 DEF InOrder
<1>9. /\ \A x \in S : \E i \in 1..Len(f) : f[i] = x
      /\ \A i \in 1..Len(f) : f[i] \in S
      /\ \A i, j \in 1..Len(f) : i < j => HeadBetter(f[i], f[j])
  BY <1>6, <1>8 DEF InOrder, HeadBetterOf
<1>10. f \in Seq(RankedRows(found))
  BY <1>3, <1>8
<1> QED
  BY <1>9, <1>10 DEF Round, S, f, Heads

LEMMA DealRound ==
    ASSUME NEW found \in [Runs -> Lists], NEW b, Filled(b, found), NEW n \in Nat,
           NEW f \in Seq(RankedRows(found)), Dealt(f, b, n),
           NEW g \in Seq(RankedRows(found)), Round(g, b, n + 1)
    PROVE  Dealt(f \o g, b, n + 1)
<1> DEFINE h == f \o g
<1>0. \A s \in Sources : Len(b[s]) \in Nat
  BY DEF Filled
<1>1. Len(f) \in Nat /\ Len(g) \in Nat /\ Len(h) = Len(f) + Len(g)
  OBVIOUS
<1>2. /\ \A i \in 1..Len(f) : i \in 1..Len(h) /\ h[i] = f[i]
      /\ \A i \in 1..Len(g) : Len(f) + i \in 1..Len(h) /\ h[Len(f) + i] = g[i]
  OBVIOUS
<1>3. \A i \in 1..Len(h) : \/ i \in 1..Len(f)
                           \/ \E j \in 1..Len(g) : i = Len(f) + j
  <2> TAKE i \in 1..Len(h)
  <2> DEFINE j == i - Len(f)
  <2>1. i <= Len(f) => i \in 1..Len(f)
    BY <1>1
  <2>2. i > Len(f) => j \in 1..Len(g) /\ i = Len(f) + j
    BY <1>1
  <2>3. i <= Len(f) \/ i > Len(f)
    BY <1>1
  <2> HIDE DEF j
  <2> QED
    BY <2>1, <2>2, <2>3
<1> HIDE DEF h
<1>4. ASSUME NEW s \in Sources, NEW k \in 1..Len(b[s]), k <= n + 1
      PROVE  \E i \in 1..Len(h) : h[i] = b[s][k]
  <2>1. CASE k <= n
    <3>1. PICK i \in 1..Len(f) : f[i] = b[s][k]
      BY <2>1 DEF Dealt
    <3> QED
      BY <1>2, <3>1
  <2>2. CASE k = n + 1
    <3>1. Len(b[s]) >= n + 1
      BY <1>0, <2>2
    <3>2. PICK i \in 1..Len(g) : g[i] = b[s][n + 1]
      BY <3>1 DEF Round
    <3> QED
      BY <1>2, <2>2, <3>2
  <2> QED
    BY <1>0, <1>4, <2>1, <2>2
<1>5. ASSUME NEW i \in 1..Len(g), NEW s \in Sources, NEW k \in 1..Len(b[s]), g[i] = b[s][k]
      PROVE  k = n + 1
  <2>1. PICK t \in Sources : Len(b[t]) >= n + 1 /\ g[i] = b[t][n + 1]
    BY DEF Round
  <2>2. n + 1 \in 1..Len(b[t])
    BY <1>0, <2>1
  <2>3. b[s][k] = b[t][n + 1]
    BY <1>5, <2>1
  <2> QED
    BY <2>2, <2>3, OneSlot
<1>6. ASSUME NEW i \in 1..Len(f), NEW s \in Sources, NEW k \in 1..Len(b[s]), f[i] = b[s][k]
      PROVE  k <= n
  <2>1. PICK t \in Sources : \E m \in 1..Len(b[t]) : m <= n /\ f[i] = b[t][m]
    BY DEF Dealt
  <2>2. PICK m \in 1..Len(b[t]) : m <= n /\ f[i] = b[t][m]
    BY <2>1
  <2>3. b[s][k] = b[t][m]
    BY <1>6, <2>2
  <2>4. k = m
    BY <2>3, OneSlot
  <2> QED
    BY <2>2, <2>4
<1>7. ASSUME NEW i \in 1..Len(h)
      PROVE  \E s \in Sources : \E k \in 1..Len(b[s]) : k <= n + 1 /\ h[i] = b[s][k]
  <2>1. CASE i \in 1..Len(f)
    <3>1. PICK s \in Sources : \E k \in 1..Len(b[s]) : k <= n /\ f[i] = b[s][k]
      BY <2>1 DEF Dealt
    <3>2. PICK k \in 1..Len(b[s]) : k <= n /\ f[i] = b[s][k]
      BY <3>1
    <3>3. k <= n + 1 /\ h[i] = b[s][k]
      BY <1>0, <1>2, <2>1, <3>2
    <3> QED
      BY <3>3
  <2>2. ASSUME NEW j \in 1..Len(g), i = Len(f) + j
        PROVE  \E s \in Sources : \E k \in 1..Len(b[s]) : k <= n + 1 /\ h[i] = b[s][k]
    <3>1. PICK s \in Sources : Len(b[s]) >= n + 1 /\ g[j] = b[s][n + 1]
      BY DEF Round
    <3>2. n + 1 \in 1..Len(b[s]) /\ h[i] = b[s][n + 1]
      BY <1>0, <1>2, <2>2, <3>1
    <3> QED
      BY <3>2
  <2> QED
    BY <1>3, <2>1, <2>2
<1>8. ASSUME NEW i \in 1..Len(h), NEW j \in 1..Len(h), i < j
      PROVE  TurnBefore(h[i], h[j], b)
  <2>1. CASE i \in 1..Len(f) /\ j \in 1..Len(f)
    <3>1. h[i] = f[i] /\ h[j] = f[j]
      BY <1>2, <2>1
    <3>2. TurnBefore(f[i], f[j], b)
      BY <1>8, <2>1 DEF Dealt
    <3> QED
      BY <3>1, <3>2
  <2>2. ASSUME i \in 1..Len(f), NEW q \in 1..Len(g), j = Len(f) + q
        PROVE  TurnBefore(h[i], h[j], b)
    <3> SUFFICES ASSUME NEW s \in Sources, NEW t \in Sources,
                        NEW k \in 1..Len(b[s]), NEW m \in 1..Len(b[t]),
                        h[i] = b[s][k], h[j] = b[t][m]
                 PROVE  k < m
      BY DEF TurnBefore
    <3>1. f[i] = b[s][k] /\ g[q] = b[t][m]
      BY <1>2, <2>2
    <3>2. k <= n
      BY <1>6, <2>2, <3>1
    <3>3. m = n + 1
      BY <1>5, <3>1
    <3> QED
      BY <1>0, <3>2, <3>3
  <2>3. ASSUME NEW p \in 1..Len(g), i = Len(f) + p, NEW q \in 1..Len(g), j = Len(f) + q
        PROVE  TurnBefore(h[i], h[j], b)
    <3> SUFFICES ASSUME NEW s \in Sources, NEW t \in Sources,
                        NEW k \in 1..Len(b[s]), NEW m \in 1..Len(b[t]),
                        h[i] = b[s][k], h[j] = b[t][m]
                 PROVE  k = m /\ HeadBetter(h[i], h[j])
      BY DEF TurnBefore
    <3>1. h[i] = g[p] /\ h[j] = g[q]
      BY <1>2, <2>3
    <3>2. k = n + 1 /\ m = n + 1
      BY <1>5, <3>1
    <3>3. p < q
      BY <1>1, <1>8, <2>3
    <3> QED
      BY <3>1, <3>2, <3>3 DEF Round
  <2>4. ASSUME NEW p \in 1..Len(g), i = Len(f) + p, j \in 1..Len(f) PROVE FALSE
    BY <1>1, <1>8, <2>4
  <2> QED
    BY <1>3, <2>1, <2>2, <2>3, <2>4
<1> QED
  BY <1>4, <1>7, <1>8 DEF Dealt, h

-----------------------------------------------------------------------------
(* The page *)

BucketsOf(found) == [s \in Sources |-> Bucket(RankedRows(found), s)]

LEMMA BucketsFilled ==
    ASSUME NEW found \in [Runs -> Lists]
    PROVE  Filled(BucketsOf(found), found)
<1> SUFFICES ASSUME NEW s \in Sources
             PROVE  LET b == Bucket(RankedRows(found), s)
                    IN /\ b \in Seq(RankedRows(found)) /\ Len(b) <= PerSourceCap
                       /\ \A k \in 1..Len(b) : b[k].source = s
                       /\ \A j, k \in 1..Len(b) : b[j] = b[k] => j = k
  BY DEF Filled, BucketsOf
<1> DEFINE b == Bucket(RankedRows(found), s)
           n == Fits(found, s)
<1>1. /\ b \in [1..n -> RowsOf(found, s)] /\ Len(b) = n
      /\ b \in Seq(RankedRows(found))
      /\ \A i, j \in 1..n : i < j => Better(b[i], b[j])
  BY BucketHolds
<1>2. n \in 0..PerSourceCap
  BY FitsTyped
<1> HIDE DEF b, n
<1>3. \A k \in 1..n : b[k].source = s /\ ~ Better(b[k], b[k])
  <2> TAKE k \in 1..n
  <2>1. b[k] \in RankedRows(found) /\ b[k].source = s
    BY <1>1 DEF RowsOf
  <2>2. b[k].score \in Int
    BY <2>1, RowTyped
  <2>3. ~ IdBefore(b[k].id, b[k].id)
    BY <2>1, IdOrder
  <2> QED
    BY <2>1, <2>2, <2>3 DEF Better
<1>4. ASSUME NEW j \in 1..n, NEW k \in 1..n, b[j] = b[k] PROVE j = k
  <2>1. ~ (j < k) /\ ~ (k < j)
    BY <1>1, <1>3, <1>4
  <2> QED
    BY <1>2, <2>1
<1>5. n <= PerSourceCap
  BY <1>2, ViewAssumption
<1> QED
  BY <1>1, <1>3, <1>4, <1>5 DEF b

(* merge deals out all of the buckets, round by round. *)
LEMMA AllDealt ==
    ASSUME NEW found \in [Runs -> Lists], NEW b, Filled(b, found)
    PROVE  /\ RoundRobin(b) \in Seq(RankedRows(found))
           /\ Dealt(RoundRobin(b), b, PerSourceCap)
<1> DEFINE rows == RankedRows(found)
           lens == {Len(b[s]) : s \in Sources} \cup {0}
           n == Max(lens)
           seqs == [k \in 1..n |-> Sorted(Heads(b, k), HeadBetter)]
<1>1. lens \in SUBSET (0..PerSourceCap) /\ lens # {}
  BY ViewAssumption DEF Filled
<1>2. n \in lens /\ \A x \in lens : x <= n
  <2> HIDE DEF lens
  <2> QED
    BY <1>1, MaxUnder, ViewAssumption
<1>3. n \in Nat /\ n <= PerSourceCap
  <2> HIDE DEF lens, n
  <2> QED
    BY <1>1, <1>2, ViewAssumption
<1>4. \A s \in Sources : Len(b[s]) \in Nat /\ Len(b[s]) <= n
  BY <1>2 DEF Filled
<1>5. RoundRobin(b) = FlattenSeq(seqs)
  BY DEF RoundRobin, Heads
<1> HIDE DEF n
<1>6. \A k \in 1..n : seqs[k] \in Seq(rows) /\ Round(seqs[k], b, k)
  BY <1>3, RoundSorted
<1>7. DOMAIN seqs = 1..n /\ seqs = [k \in 1..n |-> seqs[k]]
  OBVIOUS
<1> HIDE DEF seqs, rows
<1>8. seqs \in Seq(Seq(rows)) /\ Len(seqs) = n
  BY <1>3, <1>6, <1>7
<1>9. CASE n = 0
  <2>1. FlattenSeq(seqs) = seqs
    BY <1>8, <1>9 DEF FlattenSeq
  <2>2. seqs \in Seq(rows) /\ Len(seqs) = 0
    BY <1>7, <1>8, <1>9
  <2>3. \A s \in Sources : 1..Len(b[s]) = {}
    BY <1>4, <1>9
  <2>4. 1..Len(seqs) = {}
    BY <2>2
  <2>5. Dealt(seqs, b, PerSourceCap)
    BY <2>3, <2>4 DEF Dealt
  <2> QED
    BY <1>5, <2>1, <2>2, <2>5 DEF rows
<1>10. CASE n > 0
  <2>1. PICK f \in [1..n -> Seq(rows)] : Flat(f, seqs, n) /\ FlattenSeq(seqs) = f[n]
    BY <1>8, <1>10, Flattened
  <2> DEFINE K == {k \in Nat : k \in 1..n => Dealt(f[k], b, k)}
  <2>2. 0 \in K
    OBVIOUS
  <2>3. ASSUME NEW k \in Nat, k \in K PROVE k + 1 \in K
    <3> SUFFICES ASSUME k + 1 \in 1..n PROVE Dealt(f[k + 1], b, k + 1)
      OBVIOUS
    <3>1. seqs[k + 1] \in Seq(rows) /\ Round(seqs[k + 1], b, k + 1)
      BY <1>6
    <3>2. CASE k = 0
      <4>1. f[k + 1] = seqs[1]
        BY <1>10, <2>1, <3>2 DEF Flat
      <4>2. <<>> \in Seq(rows) /\ <<>> \o seqs[1] = seqs[1] /\ 1..Len(<<>>) = {}
        BY <3>1, <3>2
      <4>3. Dealt(<<>>, b, 0)
        <5>1. \A s \in Sources : \A i \in 1..Len(b[s]) : ~ (i <= 0)
          BY <1>4
        <5> QED
          BY <4>2, <5>1 DEF Dealt
      <4>4. seqs[1] \in Seq(rows) /\ Round(seqs[1], b, 0 + 1)
        BY <3>1, <3>2
      <4>5. Dealt(<<>> \o seqs[1], b, 0 + 1)
        BY <4>2, <4>3, <4>4, DealRound DEF rows
      <4> QED
        BY <3>2, <4>1, <4>2, <4>5
    <3>3. CASE k > 0
      <4>1. k \in 1..n /\ Dealt(f[k], b, k) /\ f[k] \in Seq(rows)
        BY <1>3, <2>3, <3>3
      <4>2. PICK j \in 1..n : j = k + 1 /\ j > 1 /\ j - 1 = k
        BY <3>3
      <4>3. f[j] = f[j - 1] \o seqs[j]
        BY <2>1, <4>2 DEF Flat
      <4>4. f[k + 1] = f[k] \o seqs[k + 1]
        BY <4>2, <4>3
      <4>5. Dealt(f[k] \o seqs[k + 1], b, k + 1)
        BY <3>1, <4>1, DealRound DEF rows
      <4> QED
        BY <4>4, <4>5
    <3> QED
      BY <3>2, <3>3
  <2> HIDE DEF K
  <2>4. n \in K
    BY <1>3, <2>2, <2>3, NatSet
  <2>5. Dealt(f[n], b, n) /\ f[n] \in Seq(rows)
    BY <1>3, <1>10, <2>1, <2>4 DEF K
  <2>6. Dealt(f[n], b, PerSourceCap)
    <3>1. \A s \in Sources : \A k \in 1..Len(b[s]) : k <= n /\ k <= PerSourceCap
      BY <1>3, <1>4, ViewAssumption
    <3> QED
      BY <2>5, <3>1 DEF Dealt
  <2> QED
    BY <1>5, <2>1, <2>5, <2>6 DEF rows
<1> QED
  BY <1>3, <1>9, <1>10

(* A page is made of its buckets: all of their rows, each once, by turns.  *)
MadeOf(f, b, found) ==
    /\ f \in Seq(RankedRows(found)) /\ Filled(b, found)
    /\ \A i \in 1..Len(f) : f[i] \in RankedRows(found) /\ f[i].score \in Int
    /\ \A s \in Sources : \A k \in 1..Len(b[s]) : \E i \in 1..Len(f) : f[i] = b[s][k]
    /\ \A i \in 1..Len(f) : \E s \in Sources : \E k \in 1..Len(b[s]) : f[i] = b[s][k]
    /\ \A i, j \in 1..Len(f) : i < j => TurnBefore(f[i], f[j], b)
    /\ \A i, j \in 1..Len(f) : f[i] = f[j] => i = j

LEMMA PageMade ==
    ASSUME NEW found \in [Runs -> Lists], NEW b, b = BucketsOf(found),
           NEW f, f = RoundRobin(b)
    PROVE  MadeOf(f, b, found)
<1>1. Filled(b, found)
  BY BucketsFilled
<1>2. f \in Seq(RankedRows(found)) /\ Dealt(f, b, PerSourceCap)
  BY <1>1, AllDealt
<1>3. \A i \in 1..Len(f) : f[i] \in RankedRows(found) /\ f[i].score \in Int
  <2> TAKE i \in 1..Len(f)
  <2>1. f[i] \in RankedRows(found)
    BY <1>2
  <2> QED
    BY <2>1, RowTyped
<1>4. \A s \in Sources : \A k \in 1..Len(b[s]) : k <= PerSourceCap
  BY <1>1, ViewAssumption DEF Filled
<1>5. \A s \in Sources : \A k \in 1..Len(b[s]) : \E i \in 1..Len(f) : f[i] = b[s][k]
  BY <1>2, <1>4 DEF Dealt
<1>6. \A i \in 1..Len(f) : \E s \in Sources : \E k \in 1..Len(b[s]) : f[i] = b[s][k]
  BY <1>2 DEF Dealt
<1>7. ASSUME NEW i \in 1..Len(f), NEW j \in 1..Len(f), i < j PROVE TurnBefore(f[i], f[j], b)
  BY <1>2, <1>7 DEF Dealt
<1>8. ASSUME NEW i \in 1..Len(f), NEW j \in 1..Len(f), i < j PROVE f[i] # f[j]
  <2> SUFFICES ASSUME f[i] = f[j] PROVE FALSE
    OBVIOUS
  <2>1. PICK s \in Sources : \E k \in 1..Len(b[s]) : f[i] = b[s][k]
    BY <1>6
  <2>2. PICK k \in 1..Len(b[s]) : f[i] = b[s][k]
    BY <2>1
  <2>3. Len(b[s]) \in Nat
    BY <1>1 DEF Filled
  <2>4. TurnBefore(f[i], f[i], b)
    BY <1>7, <1>8
  <2>5. k < k \/ HeadBetter(f[i], f[i])
    BY <2>2, <2>4 DEF TurnBefore
  <2>6. HeadBetter(f[i], f[i])
    BY <2>3, <2>5
  <2>7. f[i].source \in Sources
    BY <1>3, RowTyped
  <2> QED
    BY <1>3, <2>6, <2>7, SourceOrder DEF HeadBetter
<1>9. \A i, j \in 1..Len(f) : f[i] = f[j] => i = j
  <2> TAKE i, j \in 1..Len(f)
  <2> HAVE f[i] = f[j]
  <2>1. ~ (i < j) /\ ~ (j < i)
    BY <1>8
  <2> QED
    BY <1>2, <2>1
<1> QED
  BY <1>1, <1>2, <1>3, <1>5, <1>6, <1>7, <1>9 DEF MadeOf

(* The page opens with the strongest row of all. *)
LEMMA StrongestLeads ==
    ASSUME NEW found \in [Runs -> Lists], NEW b, b = BucketsOf(found),
           NEW f, MadeOf(f, b, found), Len(f) > 0,
           NEW x \in RankedRows(found)
    PROVE  x.score <= f[1].score
<1>1. x.source \in Sources /\ x.score \in Int
  BY RowTyped
<1>2. PICK t \in Sources : t = x.source
  BY <1>1
<1> DEFINE n == Fits(found, t)
<1>3. /\ b[t] \in [1..n -> RowsOf(found, t)] /\ Len(b[t]) = n
      /\ \A i, j \in 1..n : i < j => Better(b[t][i], b[t][j])
      /\ \A y \in RowsOf(found, t) : (\E i \in 1..n : b[t][i] = y)
                                     \/ (\A i \in 1..n : Better(b[t][i], y))
  BY BucketHolds DEF BucketsOf
<1>4. x \in RowsOf(found, t)
  BY <1>2 DEF RowsOf
<1>5. n \in Nat /\ 1 \in 1..n
  <2>1. IsFiniteSet(RowsOf(found, t))
    BY RowsFinite, FS_Subset DEF RowsOf
  <2>2. Cardinality(RowsOf(found, t)) # 0
    BY <1>4, <2>1, FS_EmptySet
  <2> QED
    BY <2>2, FitsTyped, ViewAssumption
<1> HIDE DEF n
<1>6. b[t][1] \in RowsOf(found, t) /\ b[t][1].score \in Int
  <2>1. b[t][1] \in RowsOf(found, t)
    BY <1>3, <1>5
  <2> QED
    BY <2>1, RowTyped DEF RowsOf
<1>7. b[t][1] = x \/ Better(b[t][1], x)
  <2>1. CASE \E i \in 1..n : b[t][i] = x
    <3>1. PICK i \in 1..n : b[t][i] = x
      BY <2>1
    <3>2. i = 1 \/ 1 < i
      BY <1>5
    <3> QED
      BY <1>3, <1>5, <3>1, <3>2
  <2> QED
    BY <1>3, <1>4, <1>5, <2>1
<1>8. x.score <= b[t][1].score
  BY <1>1, <1>6, <1>7 DEF Better
<1>9. PICK j \in 1..Len(f) : f[j] = b[t][1]
  BY <1>3, <1>5 DEF MadeOf
<1>10. 1 \in 1..Len(f) /\ f[1].score \in Int /\ f[j].score \in Int
  <2>1. Len(f) \in Nat
    BY DEF MadeOf
  <2>2. 1 \in 1..Len(f)
    BY <2>1
  <2> QED
    BY <2>2 DEF MadeOf
<1>11. f[j].score <= f[1].score
  <2>1. CASE j = 1
    BY <1>10, <2>1
  <2>2. CASE 1 < j
    <3>1. PICK s \in Sources : \E k \in 1..Len(b[s]) : f[1] = b[s][k]
      BY <1>10 DEF MadeOf
    <3>2. PICK k \in 1..Len(b[s]) : f[1] = b[s][k]
      BY <3>1
    <3>3. TurnBefore(f[1], f[j], b)
      BY <1>10, <2>2 DEF MadeOf
    <3>4. k < 1 \/ HeadBetter(f[1], f[j])
      BY <1>3, <1>5, <1>9, <3>2, <3>3 DEF TurnBefore
    <3>5. HeadBetter(f[1], f[j])
      <4>1. Len(b[s]) \in Nat
        BY DEF MadeOf, Filled
      <4> QED
        BY <3>4, <4>1
    <3> QED
      BY <1>10, <3>5 DEF HeadBetter
  <2> QED
    BY <2>1, <2>2
<1> QED
  BY <1>1, <1>6, <1>8, <1>9, <1>10, <1>11

(* It shows of each source its best rows, once, and no more than the cap.  *)
LEMMA BestShown ==
    ASSUME NEW found \in [Runs -> Lists], NEW b, b = BucketsOf(found),
           NEW f, MadeOf(f, b, found), NEW s \in Sources,
           NEW shown, shown = RowsOf(found, s) \cap ToSet(f)
    PROVE  /\ Cardinality(shown) = On(f, s, Len(f))
           /\ Cardinality(shown) = Fits(found, s)
           /\ \A x \in shown, y \in RowsOf(found, s) \ shown : x.score >= y.score
<1> DEFINE n == Fits(found, s)
           I == {i \in 1..Len(f) : f[i].source = s}
<1>1. /\ b[s] \in [1..n -> RowsOf(found, s)] /\ Len(b[s]) = n
      /\ \A y \in RowsOf(found, s) : (\E i \in 1..n : b[s][i] = y)
                                     \/ (\A i \in 1..n : Better(b[s][i], y))
  BY BucketHolds DEF BucketsOf
<1>2. n \in Nat
  BY FitsTyped
<1> HIDE DEF n
<1>3. f \in Seq(RankedRows(found)) /\ Filled(b, found)
  BY DEF MadeOf
<1>4. DOMAIN f = 1..Len(f) /\ Len(f) \in Nat
  BY <1>3
<1>5. \A i \in 1..Len(f) : f[i].source = s => \E k \in 1..n : f[i] = b[s][k]
  <2> TAKE i \in 1..Len(f)
  <2> HAVE f[i].source = s
  <2>1. PICK t \in Sources : \E k \in 1..Len(b[t]) : f[i] = b[t][k]
    BY DEF MadeOf
  <2>2. t = s
    BY <1>3, <2>1 DEF Filled
  <2> QED
    BY <1>1, <2>1, <2>2
<1>6. \A k \in 1..n : \E i \in 1..Len(f) : f[i] = b[s][k]
  BY <1>1 DEF MadeOf
<1>7. \A x \in shown : \E i \in 1..Len(f) : x = f[i] /\ f[i].source = s
  BY <1>4 DEF ToSet, RowsOf
<1>8. \A i \in I : f[i] \in shown
  BY <1>4 DEF MadeOf, ToSet, RowsOf
<1>9. \A k \in 1..n : b[s][k] \in shown
  BY <1>1, <1>4, <1>6 DEF ToSet
<1>10. Cardinality(shown) = n
  <2> DEFINE g == [k \in 1..n |-> b[s][k]]
  <2>1. \A j, k \in 1..n : b[s][j] = b[s][k] => j = k
    BY <1>1, <1>3 DEF Filled
  <2>2. \A x \in shown : \E k \in 1..n : b[s][k] = x
    BY <1>5, <1>7
  <2>3. g \in Bijection(1..n, shown)
    BY <1>9, <2>1, <2>2 DEF Bijection, Injection, Surjection, IsInjective
  <2>4. IsFiniteSet(1..n) /\ Cardinality(1..n) = n
    BY <1>2, FS_Interval
  <2> QED
    BY <2>3, <2>4, FS_Bijection DEF ExistsBijection
<1>11. Cardinality(shown) = Cardinality(I)
  <2> DEFINE g == [i \in I |-> f[i]]
  <2>1. \A i, j \in I : f[i] = f[j] => i = j
    BY DEF MadeOf
  <2>2. g \in Bijection(I, shown)
    BY <1>7, <1>8, <2>1 DEF Bijection, Injection, Surjection, IsInjective
  <2>3. IsFiniteSet(I)
    <3>1. IsFiniteSet(1..Len(f)) /\ I \in SUBSET (1..Len(f))
      BY <1>4, FS_Interval
    <3> QED
      BY <3>1, FS_Subset
  <2> QED
    BY <2>2, <2>3, FS_Bijection DEF ExistsBijection
<1>12. ASSUME NEW x \in shown, NEW y \in RowsOf(found, s) \ shown PROVE x.score >= y.score
  <2>1. PICK k \in 1..n : x = b[s][k]
    BY <1>5, <1>7
  <2>2. \A i \in 1..n : b[s][i] # y
    BY <1>9
  <2>3. Better(x, y)
    BY <1>1, <2>1, <2>2
  <2>4. x.score \in Int /\ y.score \in Int
    <3>1. x \in RankedRows(found) /\ y \in RankedRows(found)
      BY DEF RowsOf
    <3> QED
      BY <3>1, RowTyped
  <2> QED
    BY <2>3, <2>4 DEF Better
<1> QED
  BY <1>10, <1>11, <1>12 DEF On, n

(* A source is given a turn only when each that still has rows had as many *)
(* of them before.                                                         *)
LEMMA TurnsTaken ==
    ASSUME NEW found \in [Runs -> Lists], NEW b, b = BucketsOf(found),
           NEW f, MadeOf(f, b, found), NEW s \in Sources, NEW i \in 1..Len(f),
           On(f, s, i) < On(f, s, Len(f))
    PROVE  On(f, f[i].source, i) <= On(f, s, i) + 1
<1> DEFINE Mine(t, n) == {j \in 1..n : f[j].source = t}
<1>1. f \in Seq(RankedRows(found)) /\ Filled(b, found)
  BY DEF MadeOf
<1>2. Len(f) \in Nat /\ \A t \in Sources : Len(b[t]) \in Nat
  BY <1>1 DEF Filled
<1>3. PICK t \in Sources : \E k \in 1..Len(b[t]) : f[i] = b[t][k]
  BY DEF MadeOf
<1>4. PICK k \in 1..Len(b[t]) : f[i] = b[t][k]
  BY <1>3
<1>5. f[i].source = t
  BY <1>1, <1>4 DEF Filled
<1>6. ASSUME NEW u \in Sources
      PROVE  IsFiniteSet(Mine(u, i)) /\ Cardinality(Mine(u, i)) \in Nat
  <2>1. i \in Int /\ Mine(u, i) \in SUBSET (1..i)
    BY <1>2
  <2>2. IsFiniteSet(1..i)
    BY <2>1, FS_Interval
  <2>3. IsFiniteSet(Mine(u, i))
    BY <2>1, <2>2, FS_Subset
  <2> QED
    BY <2>3, FS_CardinalityType
(* This source: its rows so far are the first k of its bucket. *)
<1>7. Cardinality(Mine(t, i)) <= k
  <2>1. ASSUME NEW j \in Mine(t, i) PROVE \E m \in 1..k : f[j] = b[t][m]
    <3>1. j \in 1..Len(f) /\ f[j].source = t /\ j <= i
      BY <1>2
    <3>2. PICK u \in Sources : \E m \in 1..Len(b[u]) : f[j] = b[u][m]
      BY <3>1 DEF MadeOf
    <3>3. PICK m \in 1..Len(b[u]) : f[j] = b[u][m]
      BY <3>2
    <3>4. u = t
      <4>1. b[u][m].source = u
        BY <1>1 DEF Filled
      <4> QED
        BY <3>1, <3>3, <4>1
    <3>5. m <= k
      <4>1. CASE j = i
        <5>1. b[t][m] = b[t][k] /\ m \in 1..Len(b[t])
          BY <1>4, <3>3, <3>4, <4>1
        <5>2. m = k
          BY <1>1, <5>1 DEF Filled
        <5> QED
          BY <1>2, <5>2
      <4>2. CASE j < i
        <5>1. TurnBefore(f[j], f[i], b)
          BY <3>1, <4>2 DEF MadeOf
        <5>2. m < k \/ m = k
          BY <1>4, <3>3, <5>1 DEF TurnBefore
        <5> QED
          BY <1>2, <5>2
      <4> QED
        BY <1>2, <3>1, <4>1, <4>2
    <3> QED
      BY <1>2, <3>3, <3>4, <3>5
  <2> DEFINE g == [j \in Mine(t, i) |-> CHOOSE m \in 1..k : f[j] = b[t][m]]
  <2>2. \A j \in Mine(t, i) : g[j] \in 1..k /\ f[j] = b[t][g[j]]
    BY <2>1
  <2>3. g \in [Mine(t, i) -> 1..k]
    BY <2>2
  <2> HIDE DEF g
  <2>4. \A j, q \in Mine(t, i) : g[j] = g[q] => j = q
    <3> TAKE j, q \in Mine(t, i)
    <3> HAVE g[j] = g[q]
    <3>1. f[j] = f[q]
      BY <2>2
    <3>2. j \in 1..Len(f) /\ q \in 1..Len(f)
      BY <1>2
    <3> QED
      BY <3>1, <3>2 DEF MadeOf
  <2>5. g \in Injection(Mine(t, i), 1..k)
    BY <2>3, <2>4 DEF Injection, IsInjective
  <2>6. k \in Int /\ k >= 1
    BY <1>2
  <2>7. IsFiniteSet(1..k) /\ Cardinality(1..k) = k
    BY <2>6, FS_Interval
  <2> HIDE DEF Mine
  <2> QED
    BY <2>5, <2>7, FS_Injection
(* The other still has a row to come, and none of its first k - 1 is that. *)
<1>8. PICK j \in 1..Len(f) : j > i /\ f[j].source = s
  <2> SUFFICES ASSUME \A j \in 1..Len(f) : j > i => f[j].source # s PROVE FALSE
    OBVIOUS
  <2>1. Mine(s, Len(f)) = Mine(s, i)
    BY <1>2
  <2>2. On(f, s, Len(f)) = Cardinality(Mine(s, Len(f))) /\ On(f, s, i) = Cardinality(Mine(s, i))
    BY DEF On
  <2> HIDE DEF Mine
  <2>3. Cardinality(Mine(s, i)) \in Nat
    BY <1>6
  <2> QED
    BY <2>1, <2>2, <2>3
<1>9. PICK u \in Sources : \E m \in 1..Len(b[u]) : f[j] = b[u][m]
  BY DEF MadeOf
<1>10. PICK m \in 1..Len(b[s]) : f[j] = b[s][m]
  BY <1>1, <1>8, <1>9 DEF Filled
<1>11. k <= m
  <2>1. TurnBefore(f[i], f[j], b)
    BY <1>8 DEF MadeOf
  <2> QED
    BY <1>2, <1>4, <1>10, <2>1 DEF TurnBefore
<1>12. k - 1 <= Cardinality(Mine(s, i))
  <2>1. ASSUME NEW w \in 1..(k - 1) PROVE \E q \in Mine(s, i) : f[q] = b[s][w]
    <3>1. w \in 1..Len(b[s]) /\ w < k
      BY <1>2, <1>11
    <3>2. PICK q \in 1..Len(f) : f[q] = b[s][w]
      BY <3>1 DEF MadeOf
    <3>3. q # i
      <4> SUFFICES ASSUME q = i PROVE FALSE
        OBVIOUS
      <4>1. b[s][w] = b[t][k]
        BY <1>4, <3>2
      <4>2. w = k
        BY <1>1, <3>1, <4>1, OneSlot
      <4> QED
        BY <1>2, <3>1, <4>2
    <3>4. ~ (i < q)
      <4> SUFFICES ASSUME i < q PROVE FALSE
        OBVIOUS
      <4>1. TurnBefore(f[i], f[q], b)
        BY DEF MadeOf
      <4>2. k < w \/ k = w
        BY <1>4, <3>1, <3>2, <4>1 DEF TurnBefore
      <4> QED
        BY <1>2, <3>1, <4>2
    <3>5. q \in 1..i
      BY <1>2, <3>3, <3>4
    <3>6. f[q].source = s
      BY <1>1, <3>1, <3>2 DEF Filled
    <3> QED
      BY <3>2, <3>5, <3>6
  <2> DEFINE g == [w \in 1..(k - 1) |-> CHOOSE q \in Mine(s, i) : f[q] = b[s][w]]
  <2>2. \A w \in 1..(k - 1) : g[w] \in Mine(s, i) /\ f[g[w]] = b[s][w]
    BY <2>1
  <2>3. g \in [1..(k - 1) -> Mine(s, i)]
    BY <2>2
  <2> HIDE DEF g
  <2>4. \A v, w \in 1..(k - 1) : g[v] = g[w] => v = w
    <3> TAKE v, w \in 1..(k - 1)
    <3> HAVE g[v] = g[w]
    <3>1. b[s][v] = b[s][w]
      BY <2>2
    <3>2. v \in 1..Len(b[s]) /\ w \in 1..Len(b[s])
      BY <1>2, <1>11
    <3> QED
      BY <1>1, <3>1, <3>2 DEF Filled
  <2>5. g \in Injection(1..(k - 1), Mine(s, i))
    BY <2>3, <2>4 DEF Injection, IsInjective
  <2>6. Cardinality(1..(k - 1)) = k - 1
    BY <1>2, FS_Interval
  <2> QED
    BY <1>6, <2>5, <2>6, FS_Injection
<1>13. Cardinality(Mine(t, i)) <= Cardinality(Mine(s, i)) + 1
  <2>1. k \in Int
    BY <1>2
  <2> HIDE DEF Mine
  <2>2. Cardinality(Mine(t, i)) \in Nat /\ Cardinality(Mine(s, i)) \in Nat
    BY <1>6
  <2> QED
    BY <1>7, <1>12, <2>1, <2>2
<1> QED
  BY <1>5, <1>13 DEF On

(* Whatever rows a snapshot holds, the page that merge makes of them opens *)
(* with the strongest row, shows of each source its best under the cap,    *)
(* and lets no source take another slot before every source that still has *)
(* rows has had its turn.                                                  *)
THEOREM PageMerged == Spec => []PageInterleaves
<1>1. TypeOK => PageInterleaves
  <2> SUFFICES ASSUME TypeOK PROVE PageInterleaves
    OBVIOUS
  <2>1. PICK found \in [Runs -> Lists] : found = snap.results
    BY DEF TypeOK, Snapshot
  <2>2. PICK b : b = BucketsOf(found)
    OBVIOUS
  <2>3. PICK f : f = RoundRobin(b)
    OBVIOUS
  <2>4. MadeOf(f, b, found)
    BY <2>2, <2>3, PageMade
  <2>5. Page = f
    BY <2>1, <2>2, <2>3 DEF Page, Merge, BucketsOf
  <2>6. Len(f) > 0 => \A x \in RankedRows(found) : x.score <= f[1].score
    BY <2>2, <2>4, StrongestLeads
  <2>7. ASSUME NEW s \in Sources
        PROVE  LET all == {x \in RankedRows(found) : x.source = s}
                   shown == all \cap ToSet(f)
               IN /\ Cardinality(shown) = On(f, s, Len(f))
                  /\ Cardinality(shown) = Min({PerSourceCap, Cardinality(all)})
                  /\ \A x \in shown, y \in all \ shown : x.score >= y.score
    <3>1. PICK shown : shown = RowsOf(found, s) \cap ToSet(f)
      OBVIOUS
    <3>2. /\ Cardinality(shown) = On(f, s, Len(f))
          /\ Cardinality(shown) = Fits(found, s)
          /\ \A x \in shown, y \in RowsOf(found, s) \ shown : x.score >= y.score
      BY <2>2, <2>4, <3>1, BestShown
    <3> QED
      BY <3>1, <3>2 DEF RowsOf, Fits
  <2>8. ASSUME NEW i \in 1..Len(f), NEW s \in Sources, On(f, s, i) < On(f, s, Len(f))
        PROVE  On(f, f[i].source, i) <= On(f, s, i) + 1
    BY <2>2, <2>8, <2>4, TurnsTaken
  <2> QED
    BY <2>1, <2>5, <2>6, <2>7, <2>8 DEF PageInterleaves
<1> QED
  BY <1>1, ViewTyped, PTL
=============================================================================
