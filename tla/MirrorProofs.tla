---------------------------- MODULE MirrorProofs ----------------------------
(***************************************************************************)
(* What an event does to the tables, for any accounts, amounts, limits and *)
(* length of the log.  To lead from tables to tables is to have a trail:   *)
(* the tables before the first event and after each, every event taking    *)
(* the ones before it to the ones after it whatever batch it is part of    *)
(* (Applies).  Tables that say in full what the contract's storage says    *)
(* mirror it (Mirror); each entrypoint of the contract lengthens a trail   *)
(* that ends in such tables by what its events do (FollowMakeOffer ...).   *)
(***************************************************************************)
EXTENDS ReadModelProperties, MilvanceCoreProofs, SequenceTheorems


-----------------------------------------------------------------------------
(* Records                                                                  *)

LEMMA JoinedFacts ==
  ASSUME NEW f, NEW g
  PROVE  /\ DOMAIN joined(f, g) = DOMAIN f \cup DOMAIN g
         /\ \A x \in DOMAIN f : joined(f, g)[x] = f[x]
         /\ \A x \in DOMAIN g \ DOMAIN f : joined(f, g)[x] = g[x]
BY DEF joined

LEMMA TableNames ==
  /\ DOMAIN Tables = {"orders", "milestones", "requests", "offers", "positions", "settlements",
                      "refunds", "disputes", "anchors"}
  /\ Tables["orders"] = OrderId /\ Tables["milestones"] = MilestoneId
  /\ Tables["requests"] = MilestoneId /\ Tables["offers"] = OfferId
  /\ Tables["positions"] = OfferId /\ Tables["settlements"] = MilestoneId
  /\ Tables["refunds"] = MilestoneId /\ Tables["disputes"] = DisputeId
  /\ Tables["anchors"] = MilestoneId
BY DEF Tables

-----------------------------------------------------------------------------
(* One batch: what a write does                                             *)

\* Tables, and the last events of their rows, have a place for every key.
Shaped(t) ==
  t = [table \in DOMAIN Tables |-> [k \in Tables[table] |-> t[table][k]]]

placed(t, table, k, row) == [t EXCEPT ![table][k] = row]

LEMMA PlacedFacts ==
  ASSUME NEW t, Shaped(t), NEW table \in DOMAIN Tables, NEW k \in Tables[table], NEW row
  PROVE  /\ Shaped(placed(t, table, k, row))
         /\ placed(t, table, k, row)[table][k] = row
         /\ \A j \in Tables[table] : j # k => placed(t, table, k, row)[table][j] = t[table][j]
         /\ \A other \in DOMAIN Tables : other # table =>
              placed(t, table, k, row)[other] = t[other]
BY DEF Shaped, placed

\* A batch that has not thrown, and is at event e: no row was last written by a
\* later one, and no row of a table that e has not written yet by e.
Going(s, e, done) ==
  /\ DOMAIN s = {"tables", "last", "failed"} /\ s.failed = FALSE
  /\ Shaped(s.tables) /\ Shaped(s.last)
  /\ \A table \in DOMAIN Tables : \A k \in Tables[table] :
       /\ s.last[table][k] \in Nat /\ s.last[table][k] <= e.id
       /\ table \notin done => s.last[table][k] < e.id

LEMMA Written ==
  ASSUME NEW s, NEW e, NEW done, Going(s, e, done), e.id \in Nat,
         NEW table \in DOMAIN Tables, NEW k \in Tables[table], NEW row
  PROVE  /\ Going(write(s, table, k, row, e), e, done \cup {table})
         /\ write(s, table, k, row, e).tables = placed(s.tables, table, k, row)
<1>. DEFINE w == write(s, table, k, row, e)
<1>1. /\ DOMAIN w = {"tables", "last", "failed"} /\ w.failed = FALSE
      /\ w.tables = placed(s.tables, table, k, row)
      /\ w.last = placed(s.last, table, k, e.id)
  BY DEF Going, write, placed
<1>. HIDE DEF w
<1>2. Shaped(w.tables) /\ Shaped(w.last)
  BY <1>1, PlacedFacts DEF Going
<1>3. ASSUME NEW other \in DOMAIN Tables, NEW j \in Tables[other]
      PROVE  /\ w.last[other][j] \in Nat /\ w.last[other][j] <= e.id
             /\ other \notin done \cup {table} => w.last[other][j] < e.id
  <2>1. CASE other # table
    <3>1. w.last[other] = s.last[other]
      BY <1>1, <2>1, PlacedFacts DEF Going
    <3>. QED
      BY <3>1 DEF Going
  <2>2. CASE other = table /\ j # k
    <3>1. w.last[other][j] = s.last[other][j]
      BY <1>1, <2>2, PlacedFacts DEF Going
    <3>. QED
      BY <2>2, <3>1 DEF Going
  <2>3. CASE other = table /\ j = k
    <3>1. w.last[other][j] = e.id
      BY <1>1, <2>3, PlacedFacts DEF Going
    <3>. QED
      BY <2>3, <3>1
  <2>. QED
    BY <2>1, <2>2, <2>3
<1>. QED
  BY <1>1, <1>2, <1>3 DEF Going, w

\* What the projector's ways of writing come to.
LEMMA Writing ==
  ASSUME NEW s, NEW e, NEW done, Going(s, e, done), e.id \in Nat,
         NEW table \in DOMAIN Tables, NEW k \in Tables[table], NEW row
  PROVE  /\ s.tables[table][k] = NoRow =>
              create(s, table, k, row, e) = write(s, table, k, row, e)
         /\ s.tables[table][k] # NoRow => create(s, table, k, row, e) = s
         /\ set(s, table, k, row, e) =
              write(s, table, k, joined(row, s.tables[table][k]), e)
         /\ table \notin done => update(s, table, k, row, e) =
              write(s, table, k, joined(row, s.tables[table][k]), e)
BY DEF Going, create, missing, set, update, isNewer

-----------------------------------------------------------------------------
(* Numbers                                                                  *)

LEMMA LeastNumber ==
  ASSUME NEW n \in Nat, NEW B, B \subseteq 0..n, B # {}
  PROVE  \E i \in B : \A j \in B : i <= j
<1>. DEFINE T == {0..i : i \in B}
            S == 0..n
<1>1. IsFiniteSet(S)
  BY FS_Interval
<1>2. T \subseteq SUBSET S /\ T # {}
  <2>1. \A i \in B : 0..i \in SUBSET (0..n)
    OBVIOUS
  <2>. QED BY <2>1
<1>3. PICK x \in T : \A y \in T : y \subseteq x => y = x
  <2>. HIDE DEF T, S
  <2>. QED BY <1>1, <1>2, LeastSubset
<1>4. PICK i \in B : x = 0..i
  OBVIOUS
<1>5. ASSUME NEW j \in B, j < i PROVE FALSE
  <2>1. i \in 0..i /\ i \notin 0..j /\ 0..j \subseteq 0..i
    BY <1>5
  <2>2. 0..j \in T
    OBVIOUS
  <2>3. 0..j = 0..i
    BY <1>3, <1>4, <2>1, <2>2
  <2>. QED BY <2>1, <2>3
<1>. QED BY <1>5

LEMMA MaxOfRange ==
  ASSUME NEW n \in Nat, NEW s, s \subseteq 1..n, s # {}
  PROVE  Max(s) \in s /\ \A y \in s : Max(s) >= y
<1>. DEFINE B == {n - x : x \in s}
<1>1. B \subseteq 0..n /\ B # {}
  <2>1. \A x \in s : n - x \in 0..n
    OBVIOUS
  <2>. QED BY <2>1
<1>2. PICK b \in B : \A j \in B : b <= j
  <2>. HIDE DEF B
  <2>. QED BY <1>1, LeastNumber
<1>3. PICK x \in s : b = n - x
  OBVIOUS
<1>4. \A y \in s : x >= y
  <2>1. \A y \in s : n - y \in B /\ y \in 1..n
    OBVIOUS
  <2>2. \A y \in s : b <= n - y
    BY <1>2, <2>1
  <2>. HIDE DEF B
  <2>. QED BY <1>3, <2>1, <2>2
<1>. QED BY <1>4 DEF Max

LEMMA MaxOfPrefix ==
  ASSUME NEW n \in Nat, NEW i \in 1..n
  PROVE  Max(1..i) = i /\ (1..i) \ {i} = 1..(i - 1)
<1>1. Max(1..i) \in 1..i /\ \A y \in 1..i : Max(1..i) >= y
  <2>1. i \in Nat /\ 1..i # {} /\ 1..i \subseteq 1..i
    OBVIOUS
  <2>. QED BY <2>1, MaxOfRange
<1>. QED BY <1>1

-----------------------------------------------------------------------------
(* Folding a sequence of events                                             *)

\* The two folds over a log: events within a batch, and a batch for each event.
next(mode, x, e) ==
  IF mode = "batch" THEN projectEvent(x, e) ELSE projectBatch(<<e>>, x).tables

\* g holds the folds of p over the sets of positions.
IsFold(g, mode, x, p) ==
  g = [s \in SUBSET DOMAIN p |->
         IF s = {} THEN x ELSE next(mode, g[s \ {Max(s)}], p[Max(s)])]

fold(mode, x, p) == (CHOOSE g : IsFold(g, mode, x, p))[DOMAIN p]

LEMMA FoldUnfold ==
  ASSUME NEW x, NEW p
  PROVE  /\ FoldLeft(projectEvent, x, p) = fold("batch", x, p)
         /\ FoldLeft(LAMBDA rows, e : projectBatch(<<e>>, rows).tables, x, p)
              = fold("single", x, p)
<1>1. FoldLeft(projectEvent, x, p) = fold("batch", x, p)
  BY DEF FoldLeft, MapThenFoldSet, IsFold, next, fold
<1>2. FoldLeft(LAMBDA rows, e : projectBatch(<<e>>, rows).tables, x, p) = fold("single", x, p)
  BY "single" # "batch" DEF FoldLeft, MapThenFoldSet, IsFold, next, fold
<1>. QED BY <1>1, <1>2

\* The folds over the sets of at most n positions.
FoldTo(g, mode, x, p, n) ==
  /\ DOMAIN g = SUBSET DOMAIN p
  /\ \A s \in SUBSET DOMAIN p : Cardinality(s) <= n =>
       g[s] = IF s = {} THEN x ELSE next(mode, g[s \ {Max(s)}], p[Max(s)])

LEMMA FoldExists ==
  ASSUME NEW mode, NEW x, NEW p, NEW n \in Nat, DOMAIN p = 1..n
  PROVE  \E g : IsFold(g, mode, x, p)
<1>. DEFINE S == 1..n
<1>0. \A s \in SUBSET S : IsFiniteSet(s) /\ Cardinality(s) \in Nat /\ Cardinality(s) <= n
                         /\ (Cardinality(s) = 0 <=> s = {})
  <2>1. IsFiniteSet(S) /\ Cardinality(S) = n
    BY FS_Interval
  <2>. HIDE DEF S
  <2>. QED BY <2>1, FS_Subset, FS_CardinalityType, FS_EmptySet
<1>p. \A s \in SUBSET S : s # {} => Max(s) \in s
  BY MaxOfRange
<1>. HIDE DEF S
<1>s. DOMAIN p = S
  BY DEF S
<1>1. \E g : FoldTo(g, mode, x, p, 0)
  <2>. DEFINE g == [s \in SUBSET S |-> x]
  <2>1. DOMAIN g = SUBSET S /\ \A s \in SUBSET S : g[s] = x
    OBVIOUS
  <2>2. \A s \in SUBSET S : Cardinality(s) <= 0 => s = {}
    BY <1>0
  <2>. HIDE DEF g
  <2>3. FoldTo(g, mode, x, p, 0)
    BY <2>1, <2>2, <1>s DEF FoldTo
  <2>. QED BY <2>3
<1>2. ASSUME NEW k \in Nat, NEW g, FoldTo(g, mode, x, p, k)
      PROVE  \E h : FoldTo(h, mode, x, p, k + 1)
  <2>. DEFINE h == [s \in SUBSET S |->
                 IF Cardinality(s) <= k \/ s = {} THEN g[s]
                 ELSE next(mode, g[s \ {Max(s)}], p[Max(s)])]
  <2>1. \A s \in SUBSET S : s # {} => s \ {Max(s)} \in SUBSET S
    OBVIOUS
  <2>3. ASSUME NEW s \in SUBSET S, Cardinality(s) <= k + 1, s # {}
        PROVE  h[s] = next(mode, h[s \ {Max(s)}], p[Max(s)])
    <3>1. /\ Cardinality(s \ {Max(s)}) = Cardinality(s) - 1
          /\ Cardinality(s) \in Nat
      BY <2>3, <1>0, <1>p, FS_RemoveElement
    <3>2. h[s \ {Max(s)}] = g[s \ {Max(s)}]
      BY <3>1, <2>1, <2>3
    <3>3. h[s] = next(mode, g[s \ {Max(s)}], p[Max(s)])
      <4>1. CASE Cardinality(s) <= k
        BY <4>1, <1>2, <1>s, <2>3 DEF FoldTo
      <4>2. CASE ~ Cardinality(s) <= k
        BY <4>2, <2>3
      <4>. QED BY <4>1, <4>2
    <3>. QED BY <3>2, <3>3
  <2>4. h[{}] = x
    <3>1. {} \in SUBSET S /\ Cardinality({}) = 0
      BY FS_EmptySet
    <3>. QED BY <3>1, <1>2, <1>s DEF FoldTo
  <2>5. DOMAIN h = SUBSET S
    OBVIOUS
  <2>. HIDE DEF h
  <2>6. FoldTo(h, mode, x, p, k + 1)
    BY <2>5, <2>3, <2>4, <1>s DEF FoldTo
  <2>. QED BY <2>6
<1>3. \A s \in SUBSET S : \E g : FoldTo(g, mode, x, p, Cardinality(s))
  <2>. DEFINE Bad == {s \in SUBSET S : ~ \E g : FoldTo(g, mode, x, p, Cardinality(s))}
  <2>. SUFFICES ASSUME Bad # {} PROVE FALSE
    OBVIOUS
  <2>1. PICK s \in Bad : \A t \in Bad : t \subseteq s => t = s
    <3>1. Bad \subseteq SUBSET S /\ IsFiniteSet(S)
      BY FS_Interval DEF S
    <3>. HIDE DEF Bad
    <3>. QED BY <3>1, LeastSubset
  <2>2. s \in SUBSET S /\ s # {}
    BY <1>1, <2>1, FS_EmptySet
  <2>3. s \ {Max(s)} \in SUBSET S /\ s \ {Max(s)} \notin Bad
    BY <2>1, <2>2, <1>p
  <2>4. PICK g : FoldTo(g, mode, x, p, Cardinality(s \ {Max(s)}))
    BY <2>3
  <2>5. Cardinality(s \ {Max(s)}) \in Nat /\ Cardinality(s \ {Max(s)}) + 1 = Cardinality(s)
    BY <2>2, <1>0, <1>p, FS_RemoveElement
  <2>6. \E h : FoldTo(h, mode, x, p, Cardinality(s))
    BY <1>2, <2>4, <2>5
  <2>. QED BY <2>1, <2>6
<1>4. Cardinality(S) = n
  BY FS_Interval DEF S
<1>5. PICK g : FoldTo(g, mode, x, p, n)
  BY <1>3, <1>4
<1>6. \A s \in SUBSET S : g[s] = IF s = {} THEN x ELSE next(mode, g[s \ {Max(s)}], p[Max(s)])
  BY <1>5, <1>0, <1>s DEF FoldTo
<1>. DEFINE h == [s \in SUBSET S |-> g[s]]
<1>7. IsFold(h, mode, x, p)
  <2>1. \A s \in SUBSET S : h[s] = IF s = {} THEN x ELSE next(mode, h[s \ {Max(s)}], p[Max(s)])
    BY <1>6
  <2>. QED BY <2>1, <1>s DEF IsFold
<1>. QED BY <1>7

\* A fold, event by event.
FoldsBy(g, mode, x, p, n) ==
  g[{}] = x /\ \A i \in 1..n : g[1..i] = next(mode, g[1..(i - 1)], p[i])

LEMMA FoldSteps ==
  ASSUME NEW mode, NEW x, NEW p, NEW n \in Nat, DOMAIN p = 1..n
  PROVE  \E g : FoldsBy(g, mode, x, p, n) /\ fold(mode, x, p) = g[1..n]
<1>. DEFINE g == CHOOSE h : IsFold(h, mode, x, p)
<1>1. IsFold(g, mode, x, p)
  BY FoldExists
<1>2. fold(mode, x, p) = g[1..n]
  BY DEF fold, g
<1>. HIDE DEF g
<1>3. \A s \in SUBSET (1..n) : g[s] = IF s = {} THEN x ELSE next(mode, g[s \ {Max(s)}], p[Max(s)])
  BY <1>1 DEF IsFold
<1>4. g[{}] = x
  BY <1>3
<1>5. ASSUME NEW i \in 1..n PROVE g[1..i] = next(mode, g[1..(i - 1)], p[i])
  <2>1. 1..i \in SUBSET (1..n) /\ 1..i # {}
    OBVIOUS
  <2>. QED BY <1>3, <2>1, MaxOfPrefix
<1>6. FoldsBy(g, mode, x, p, n)
  BY <1>4, <1>5 DEF FoldsBy
<1>. QED BY <1>2, <1>6

\* g goes through the events of d in one batch, from x on.
Batched(g, x, d, n) ==
  g[{}] = x /\ \A i \in 1..n : g[1..i] = projectEvent(g[1..(i - 1)], d[i])

LEMMA BatchFold ==
  ASSUME NEW x, NEW p, NEW n \in Nat, DOMAIN p = 1..n
  PROVE  \E g : Batched(g, x, p, n) /\ fold("batch", x, p) = g[1..n]
<1>1. PICK g : FoldsBy(g, "batch", x, p, n) /\ fold("batch", x, p) = g[1..n]
  BY FoldSteps
<1>2. Batched(g, x, p, n)
  BY <1>1 DEF FoldsBy, next, Batched
<1>. QED BY <1>1, <1>2

\* g goes through the events of d in a batch for each, from x on.
OneByOne(g, x, d, n) ==
  g[{}] = x /\ \A i \in 1..n : g[1..i] = projectBatch(<<d[i]>>, g[1..(i - 1)]).tables

LEMMA SingleFold ==
  ASSUME NEW x, NEW p, NEW n \in Nat, DOMAIN p = 1..n
  PROVE  \E g : OneByOne(g, x, p, n) /\ fold("single", x, p) = g[1..n]
<1>1. PICK g : FoldsBy(g, "single", x, p, n) /\ fold("single", x, p) = g[1..n]
  BY FoldSteps
<1>2. "single" # "batch"
  OBVIOUS
<1>3. OneByOne(g, x, p, n)
  BY <1>1, <1>2 DEF FoldsBy, next, OneByOne
<1>. QED BY <1>1, <1>3

LEMMA BatchUnfold ==
  ASSUME NEW p, NEW t
  PROVE  LET after == fold("batch", begin(t), sort([i \in DOMAIN p |-> decodeEvent(p[i])]))
         IN  projectBatch(p, t) = [tables |-> after.tables, failed |-> after.failed]
BY FoldUnfold DEF projectBatch

-----------------------------------------------------------------------------
(* A log and what it leads to                                               *)

\* The same event: what decoding and ranking leave alone.
Like(e, d) == DOMAIN d = DOMAIN e /\ \A x \in DOMAIN e \ {"tx", "id"} : d[x] = e[x]

\* However an event is ranked, and whatever a batch has written before, the event
\* takes the tables t to u and throws nothing.
Applies(t, e, u) ==
  \A s, d : Like(e, d) /\ d.id \in Nat /\ Going(s, d, {}) /\ s.tables = t =>
    Going(projectEvent(s, d), d, DOMAIN Tables) /\ projectEvent(s, d).tables = u

\* Chain order: ranks are positions, and neither ledgers nor transactions go back.
Numbered(e) ==
  /\ {"tx", "id", "ledger", "index"} \subseteq DOMAIN e
  /\ e.tx \in Nat /\ e.id \in Nat /\ e.ledger \in Nat /\ e.index \in Nat
Precedes(e, d) ==
  e.ledger <= d.ledger /\ e.tx <= d.tx /\ (e.tx = d.tx => e.index < d.index)
InOrder(p, n) ==
  /\ \A i \in 1..n : Numbered(p[i]) /\ p[i].id = i
  /\ \A i, j \in 1..n : i < j => Precedes(p[i], p[j])
Logged(p) == (\E S : p \in Seq(S)) /\ InOrder(p, Len(p))

LEMMA PrecedesOn ==
  ASSUME NEW d, NEW e, NEW f, Numbered(d), Numbered(e), Numbered(f), Precedes(d, e), Precedes(e, f)
  PROVE  Precedes(d, f)
BY DEF Precedes, Numbered

\* trail holds the tables before the first event of p and after each.
Trail(trail, p, t) ==
  trail[0] = t /\ \A i \in 1..Len(p) : Applies(trail[i - 1], p[i], trail[i])

LEMMA SortedAlready ==
  ASSUME NEW n \in Nat, NEW d, d = [i \in 1..n |-> d[i]], InOrder(d, n)
  PROVE  sort(d) = d
<1>. DEFINE before(i) == {j \in DOMAIN d : compareEventOrder(d[j], d[i])}
<1>0. DOMAIN d = 1..n
  OBVIOUS
<1>1. ASSUME NEW i \in 1..n, NEW j \in 1..n PROVE compareEventOrder(d[j], d[i]) <=> j < i
  <2>1. /\ d[i].id = i /\ d[j].id = j
        /\ d[i].ledger \in Nat /\ d[i].tx \in Nat /\ d[i].index \in Nat
        /\ d[j].ledger \in Nat /\ d[j].tx \in Nat /\ d[j].index \in Nat
    BY DEF InOrder, Numbered
  <2>2. CASE j < i
    <3>1. Precedes(d[j], d[i])
      BY <2>2 DEF InOrder
    <3>. QED BY <2>1, <2>2, <3>1 DEF Precedes, compareEventOrder
  <2>3. CASE i < j
    <3>1. Precedes(d[i], d[j])
      BY <2>3 DEF InOrder
    <3>. QED BY <2>1, <2>3, <3>1 DEF Precedes, compareEventOrder
  <2>4. CASE i = j
    BY <2>1, <2>4 DEF compareEventOrder
  <2>. QED BY <2>2, <2>3, <2>4
<1>2. ASSUME NEW i \in 1..n PROVE Cardinality(before(i)) = i - 1
  <2>1. before(i) = 1..(i - 1)
    BY <1>0, <1>1
  <2>2. Cardinality(1..(i - 1)) = i - 1
    BY FS_Interval
  <2>. HIDE DEF before
  <2>. QED BY <2>1, <2>2
<1>. HIDE DEF before
<1>3. ASSUME NEW nth \in 1..n
      PROVE  (CHOOSE i \in DOMAIN d : Cardinality(before(i)) = nth - 1) = nth
  <2>1. \A i \in DOMAIN d : Cardinality(before(i)) = nth - 1 <=> i = nth
    BY <1>0, <1>2
  <2>2. nth \in DOMAIN d
    BY <1>0
  <2>. QED BY <2>1, <2>2
<1>4. sort(d) = [nth \in 1..n |->
                   d[CHOOSE i \in DOMAIN d : Cardinality(before(i)) = nth - 1]]
  BY <1>0 DEF sort, before
<1>. QED BY <1>3, <1>4

LEMMA Decoded ==
  ASSUME TransactionIndexed = TRUE, NEW e, Numbered(e)
  PROVE  /\ Like(e, decodeEvent(e)) /\ Numbered(decodeEvent(e))
         /\ decodeEvent(e).id = e.id /\ decodeEvent(e).tx = e.tx
         /\ decodeEvent(e).ledger = e.ledger /\ decodeEvent(e).index = e.index
BY DEF decodeEvent, Like, Numbered

LEMMA Begun ==
  ASSUME NEW t, Shaped(t), NEW e, e.id \in Nat \ {0}
  PROVE  Going(begin(t), e, {}) /\ begin(t).tables = t
BY DEF begin, Going, Shaped

\* A log applied as one batch leaves the last tables of its trail.
LEMMA BatchLeads ==
  ASSUME TransactionIndexed = TRUE, NEW p, Logged(p), NEW t, Shaped(t),
         NEW trail, Trail(trail, p, t)
  PROVE  /\ ~projectBatch(p, t).failed /\ projectBatch(p, t).tables = trail[Len(p)]
         /\ Shaped(trail[Len(p)])
<1>. DEFINE n == Len(p)
            d == [i \in DOMAIN p |-> decodeEvent(p[i])]
<1>1. n \in Nat /\ DOMAIN p = 1..n
  BY DEF Logged
<1>2. d = [i \in 1..n |-> d[i]] /\ DOMAIN d = 1..n
  BY <1>1
<1>3. ASSUME NEW i \in 1..n
      PROVE  /\ Numbered(p[i]) /\ p[i].id = i /\ Like(p[i], d[i]) /\ Numbered(d[i])
             /\ d[i].id = i /\ d[i].tx = p[i].tx
             /\ d[i].ledger = p[i].ledger /\ d[i].index = p[i].index
  BY <1>1, Decoded DEF Logged, InOrder
<1>4. InOrder(d, n)
  <2>1. \A i, j \in 1..n : i < j => Precedes(p[i], p[j])
    BY DEF Logged, InOrder
  <2>. HIDE DEF d
  <2>. QED BY <1>3, <2>1 DEF InOrder, Precedes
<1>. HIDE DEF d, n
<1>5. sort(d) = d
  BY <1>1, <1>2, <1>4, SortedAlready
<1>. DEFINE after == fold("batch", begin(t), d)
<1>. HIDE DEF after
<1>6. projectBatch(p, t) = [tables |-> after.tables, failed |-> after.failed]
  BY <1>5, BatchUnfold DEF d, after
<1>7. PICK g : Batched(g, begin(t), d, n) /\ after = g[1..n]
  <2>1. n \in Nat /\ DOMAIN d = 1..n
    BY <1>1, <1>2
  <2>2. \E g : Batched(g, begin(t), d, n) /\ fold("batch", begin(t), d) = g[1..n]
    BY <2>1, BatchFold
  <2>. QED BY <2>2 DEF after
<1>b. g[{}] = begin(t) /\ \A i \in 1..n : g[1..i] = projectEvent(g[1..(i - 1)], d[i])
  BY <1>7 DEF Batched
\* After event i the batch goes on, with the tables of the trail.
<1>. DEFINE Good(i) == /\ g[1..i].tables = trail[i] /\ g[1..i].failed = FALSE
                       /\ i > 0 => Going(g[1..i], d[i], DOMAIN Tables)
<1>8. Good(0)
  <2>1. 1..0 = {}
    OBVIOUS
  <2>. QED BY <1>b, <2>1 DEF begin, Trail
<1>9. ASSUME NEW i \in 1..n, Good(i - 1) PROVE Good(i)
  <2>1. Going(g[1..(i - 1)], d[i], {})
    <3>1. CASE i = 1
      <4>1. 1..(i - 1) = {}
        BY <3>1
      <4>. QED BY <1>3, <1>b, <4>1, Begun
    <3>2. CASE i > 1
      <4>1. Going(g[1..(i - 1)], d[i - 1], DOMAIN Tables)
        BY <1>1, <1>9, <3>2
      <4>2. d[i - 1].id = i - 1 /\ d[i].id = i
        BY <1>1, <1>3, <3>2
      <4>. QED BY <1>1, <4>1, <4>2 DEF Going
    <3>. QED BY <1>1, <3>1, <3>2
  <2>2. Applies(trail[i - 1], p[i], trail[i])
    BY DEF Trail, n
  <2>3. /\ Going(projectEvent(g[1..(i - 1)], d[i]), d[i], DOMAIN Tables)
        /\ projectEvent(g[1..(i - 1)], d[i]).tables = trail[i]
    <3>1. Like(p[i], d[i]) /\ d[i].id \in Nat /\ g[1..(i - 1)].tables = trail[i - 1]
      BY <1>1, <1>3, <1>9
    <3>. QED BY <2>1, <2>2, <3>1 DEF Applies
  <2>. QED BY <1>b, <2>3 DEF Going
<1>. HIDE DEF Good
<1>10. Good(n)
  <2>. DEFINE Bad == {i \in 0..n : ~Good(i)}
  <2>. SUFFICES ASSUME Bad # {} PROVE FALSE
    BY <1>1
  <2>1. PICK i \in Bad : \A j \in Bad : i <= j
    BY <1>1, LeastNumber
  <2>2. i \in 1..n /\ i - 1 \in 0..n /\ i - 1 \notin Bad
    BY <1>1, <1>8, <2>1
  <2>. QED BY <1>9, <2>1, <2>2
<1>11. Shaped(trail[n])
  BY <1>1, <1>10 DEF Good, Going, Trail
<1>. QED BY <1>6, <1>7, <1>10, <1>11 DEF Good, n

-----------------------------------------------------------------------------
(* The pending log, as it grows and as it is read                           *)

\* The events p, pending before the tables t, lead to the tables u.
Leads(p, t, u) == Logged(p) /\ \E trail : Trail(trail, p, t) /\ trail[Len(p)] = u

LEMMA LeadsNowhere == ASSUME NEW t PROVE Leads(<<>>, t, t)
<1>. DEFINE trail == [i \in {0} |-> t]
<1>1. Trail(trail, <<>>, t) /\ trail[Len(<<>>)] = t
  BY DEF Trail
<1>2. <<>> \in Seq({}) /\ InOrder(<<>>, Len(<<>>))
  BY DEF InOrder
<1>. QED BY <1>1, <1>2 DEF Leads, Logged

LEMMA LeadsOn ==
  ASSUME NEW p, NEW t, NEW u, NEW v, NEW e, Leads(p, t, u), Applies(u, e, v),
         Numbered(e), e.id = Len(p) + 1, p # <<>> => Precedes(p[Len(p)], e)
  PROVE  Leads(Append(p, e), t, v) /\ Len(Append(p, e)) = Len(p) + 1
         /\ Append(p, e)[Len(p) + 1] = e /\ \A i \in 1..Len(p) : Append(p, e)[i] = p[i]
<1>1. PICK S : p \in Seq(S)
  BY DEF Leads, Logged
<1>. DEFINE n == Len(p)
            q == Append(p, e)
<1>2. /\ n \in Nat /\ q \in Seq(S \cup {e}) /\ Len(q) = n + 1
      /\ q[n + 1] = e /\ \A i \in 1..n : q[i] = p[i]
  <2>1. p \in Seq(S \cup {e}) /\ e \in S \cup {e}
    BY <1>1
  <2>. QED BY <2>1, AppendProperties
<1>3. PICK trail : Trail(trail, p, t) /\ trail[n] = u
  BY DEF Leads
<1>4. InOrder(p, n)
  BY DEF Leads, Logged
<1>5. n > 0 => Precedes(p[n], e)
  BY <1>1
<1>. HIDE DEF n, q
<1>6. InOrder(q, n + 1)
  <2>1. \A i \in 1..(n + 1) : Numbered(q[i]) /\ q[i].id = i
    <3>1. e.id = n + 1
      BY DEF n
    <3>. QED BY <1>2, <1>4, <3>1 DEF InOrder
  <2>2. ASSUME NEW i \in 1..(n + 1), NEW j \in 1..(n + 1), i < j PROVE Precedes(q[i], q[j])
    <3>1. CASE j < n + 1
      BY <1>2, <1>4, <2>2, <3>1 DEF InOrder
    <3>2. CASE j = n + 1 /\ i = n
      BY <1>2, <1>5, <3>2
    <3>3. CASE j = n + 1 /\ i < n
      <4>1. Precedes(p[i], p[n]) /\ Precedes(p[n], e)
        BY <1>2, <1>4, <1>5, <3>3 DEF InOrder
      <4>2. Numbered(p[i]) /\ Numbered(p[n])
        BY <1>2, <1>4, <3>3 DEF InOrder
      <4>3. Precedes(p[i], e)
        BY <4>1, <4>2, PrecedesOn
      <4>. QED BY <1>2, <3>3, <4>3
    <3>. QED BY <1>2, <2>2, <3>1, <3>2, <3>3
  <2>. QED BY <2>1, <2>2 DEF InOrder
<1>. DEFINE longer == [i \in 0..(n + 1) |-> IF i <= n THEN trail[i] ELSE v]
<1>7. Trail(longer, q, t) /\ longer[n + 1] = v
  <2>1. longer[0] = t /\ longer[n + 1] = v
    BY <1>2, <1>3 DEF Trail
  <2>2. ASSUME NEW i \in 1..(n + 1) PROVE Applies(longer[i - 1], q[i], longer[i])
    <3>1. CASE i = n + 1
      <4>1. longer[i - 1] = u /\ longer[i] = v /\ q[i] = e
        BY <1>2, <1>3, <3>1
      <4>. QED BY <4>1
    <3>2. CASE i < n + 1
      <4>1. longer[i - 1] = trail[i - 1] /\ longer[i] = trail[i] /\ q[i] = p[i] /\ i \in 1..n
        BY <1>2, <3>2
      <4>2. Applies(trail[i - 1], p[i], trail[i])
        BY <1>3, <4>1 DEF Trail, n
      <4>. QED BY <4>1, <4>2
    <3>. QED BY <1>2, <3>1, <3>2
  <2>. HIDE DEF longer
  <2>. QED BY <1>2, <2>1, <2>2 DEF Trail
<1>. HIDE DEF longer
<1>8. Leads(q, t, v)
  BY <1>2, <1>6, <1>7 DEF Leads, Logged
<1>. QED BY <1>2, <1>8 DEF n, q

LEMMA AlikeApplies ==
  ASSUME NEW t, NEW u, NEW e, NEW d, Applies(t, e, u), Like(e, d) PROVE Applies(t, d, u)
<1>1. \A x : Like(d, x) => Like(e, x)
  BY DEF Like
<1>. QED BY <1>1 DEF Applies

\* A page of a log is a log, and so is the rest of it.
LEMMA PageLeads ==
  ASSUME TransactionIndexed = TRUE, NEW p, NEW t, Shaped(t), NEW u, Leads(p, t, u),
         NEW n \in 1..Len(p)
  PROVE  LET batch == projectBatch(SubSeq(p, 1, n), t) IN
         /\ ~batch.failed /\ Shaped(batch.tables)
         /\ Leads(ranked(SubSeq(p, n + 1, Len(p))), batch.tables, u)
         /\ \A i \in 1..Len(ranked(SubSeq(p, n + 1, Len(p)))) :
              /\ n + i \in 1..Len(p)
              /\ ranked(SubSeq(p, n + 1, Len(p)))[i].ledger = p[n + i].ledger
<1>1. PICK S : p \in Seq(S)
  BY DEF Leads, Logged
<1>2. PICK trail : Trail(trail, p, t) /\ trail[Len(p)] = u
  BY DEF Leads
<1>3. InOrder(p, Len(p))
  BY DEF Leads, Logged
<1>. DEFINE L == Len(p)
            front == SubSeq(p, 1, n)
            rest == SubSeq(p, n + 1, L)
            left == ranked(rest)
<1>4. L \in Nat /\ n \in 1..L
  BY <1>1
<1>5. front \in Seq(S) /\ Len(front) = n /\ \A i \in 1..n : front[i] = p[i]
  BY <1>1, <1>4
<1>6. rest \in Seq(S) /\ Len(rest) = L - n /\ \A i \in 1..(L - n) : rest[i] = p[n + i]
  BY <1>1, <1>4
<1>7. DOMAIN left = 1..(L - n) /\ \A i \in 1..(L - n) :
        left[i] = [rest[i] EXCEPT !.tx = @ - rest[1].tx + 1, !.id = i]
  <2>. HIDE DEF rest
  <2>1. DOMAIN rest = 1..(L - n)
    BY <1>6
  <2>. QED BY <2>1 DEF ranked
<1>l. L = Len(p)
  OBVIOUS
<1>. HIDE DEF L, front, rest, left
<1>8. Logged(front)
  <2>1. InOrder(front, n)
    BY <1>3, <1>4, <1>5, <1>l DEF InOrder
  <2>. QED BY <1>5, <2>1 DEF Logged
<1>9. Trail(trail, front, t)
  BY <1>2, <1>4, <1>5, <1>l DEF Trail
<1>10. /\ ~projectBatch(front, t).failed /\ projectBatch(front, t).tables = trail[n]
       /\ Shaped(trail[n])
  BY <1>5, <1>8, <1>9, BatchLeads
<1>11. ASSUME NEW i \in 1..(L - n)
       PROVE  /\ Like(p[n + i], left[i]) /\ Numbered(left[i])
              /\ left[i].id = i /\ left[i].tx = p[n + i].tx - p[n + 1].tx + 1
              /\ left[i].ledger = p[n + i].ledger /\ left[i].index = p[n + i].index
  <2>1. left[i] = [p[n + i] EXCEPT !.tx = @ - p[n + 1].tx + 1, !.id = i]
    <3>1. 1 \in 1..(L - n)
      BY <1>4
    <3>2. rest[i] = p[n + i] /\ rest[1] = p[n + 1]
      BY <1>6, <3>1
    <3>. QED BY <1>7, <3>2
  <2>2. Numbered(p[n + i]) /\ Numbered(p[n + 1]) /\ p[n + 1].tx <= p[n + i].tx
    <3>1. n + 1 \in 1..L /\ n + i \in 1..L /\ (i = 1 \/ n + 1 < n + i)
      BY <1>4
    <3>2. Numbered(p[n + i]) /\ Numbered(p[n + 1])
      BY <1>3, <1>l, <3>1 DEF InOrder
    <3>3. CASE i = 1
      BY <3>2, <3>3 DEF Numbered
    <3>4. CASE n + 1 < n + i
      BY <1>3, <1>l, <3>1, <3>4 DEF InOrder, Precedes
    <3>. QED BY <3>1, <3>2, <3>3, <3>4
  <2>. DEFINE e == p[n + i]
              from == p[n + 1].tx
  <2>3. from \in Nat /\ e.tx - from + 1 \in Nat
    BY <2>2 DEF Numbered
  <2>4. left[i] = [e EXCEPT !.tx = @ - from + 1, !.id = i] /\ Numbered(e)
    BY <2>1, <2>2
  <2>. HIDE DEF e, from
  <2>5. /\ DOMAIN left[i] = DOMAIN e /\ left[i].tx = e.tx - from + 1 /\ left[i].id = i
        /\ \A x \in DOMAIN e \ {"tx", "id"} : left[i][x] = e[x]
    BY <2>4 DEF Numbered
  <2>6. i \in Nat
    BY <1>4
  <2>7. Like(e, left[i]) /\ Numbered(left[i])
    BY <2>3, <2>4, <2>5, <2>6 DEF Like, Numbered
  <2>. QED BY <2>4, <2>5, <2>7 DEF e, from, Numbered
<1>12. Logged(left) /\ Len(left) = L - n
  <2>1. left \in Seq({left[i] : i \in 1..(L - n)}) /\ Len(left) = L - n
    <3>1. left = [i \in 1..(L - n) |-> left[i]]
      BY <1>7 DEF left, ranked
    <3>2. L - n \in Nat /\ \A i \in 1..(L - n) : left[i] \in {left[j] : j \in 1..(L - n)}
      BY <1>4
    <3>. QED BY <3>1, <3>2, IsASeq
  <2>2. ASSUME NEW i \in 1..(L - n), NEW j \in 1..(L - n), i < j
        PROVE  Precedes(left[i], left[j])
    <3>1. Precedes(p[n + i], p[n + j]) /\ Numbered(p[n + i]) /\ Numbered(p[n + j])
          /\ Numbered(p[n + 1])
      <4>1. n + i \in 1..L /\ n + j \in 1..L /\ n + 1 \in 1..L /\ n + i < n + j
        BY <1>4, <2>2
      <4>. QED BY <1>3, <1>l, <4>1 DEF InOrder
    <3>2. /\ left[i].tx = p[n + i].tx - p[n + 1].tx + 1 /\ left[j].tx = p[n + j].tx - p[n + 1].tx + 1
          /\ left[i].ledger = p[n + i].ledger /\ left[i].index = p[n + i].index
          /\ left[j].ledger = p[n + j].ledger /\ left[j].index = p[n + j].index
      BY <1>11
    <3>. DEFINE a == p[n + i]
                b == p[n + j]
                from == p[n + 1].tx
    <3>3. /\ a.tx \in Nat /\ b.tx \in Nat /\ from \in Nat /\ a.tx <= b.tx
          /\ a.ledger <= b.ledger /\ (a.tx = b.tx => a.index < b.index)
      BY <3>1 DEF Precedes, Numbered
    <3>4. /\ left[i].tx = a.tx - from + 1 /\ left[j].tx = b.tx - from + 1
          /\ left[i].ledger = a.ledger /\ left[i].index = a.index
          /\ left[j].ledger = b.ledger /\ left[j].index = b.index
      BY <3>2
    <3>. HIDE DEF a, b, from
    <3>. QED BY <3>3, <3>4 DEF Precedes
  <2>3. InOrder(left, L - n)
    BY <1>11, <2>2 DEF InOrder
  <2>. QED BY <2>1, <2>3 DEF Logged
<1>. DEFINE later == [i \in 0..(L - n) |-> trail[n + i]]
<1>13. Trail(later, left, trail[n]) /\ later[Len(left)] = u
  <2>1. later[0] = trail[n] /\ later[L - n] = u
    BY <1>2, <1>4, <1>l
  <2>2. ASSUME NEW i \in 1..(L - n) PROVE Applies(later[i - 1], left[i], later[i])
    <3>1. Applies(trail[(n + i) - 1], p[n + i], trail[n + i])
      <4>1. n + i \in 1..L
        BY <1>4
      <4>. QED BY <1>2, <1>l, <4>1 DEF Trail
    <3>2. later[i - 1] = trail[(n + i) - 1] /\ later[i] = trail[n + i]
      BY <1>4
    <3>3. Like(p[n + i], left[i])
      BY <1>11
    <3>. HIDE DEF later
    <3>. QED BY <3>1, <3>2, <3>3, AlikeApplies
  <2>. HIDE DEF later
  <2>. QED BY <1>12, <2>1, <2>2 DEF Trail
<1>. HIDE DEF later
<1>14. Leads(left, trail[n], u)
  BY <1>12, <1>13 DEF Leads
<1>15. \A i \in 1..Len(left) : n + i \in 1..L /\ left[i].ledger = p[n + i].ledger
  <2>1. \A i \in 1..Len(left) : i \in 1..(L - n) /\ n + i \in 1..L
    BY <1>4, <1>12
  <2>. QED BY <1>11, <2>1
<1>. QED BY <1>10, <1>14, <1>15 DEF front, left, rest, L

-----------------------------------------------------------------------------
(* What an invocation publishes                                             *)

call_tx == IF published = <<>> THEN 1 ELSE published[Len(published)].tx + 1
stamp(k) == [tx |-> call_tx, ledger |-> now, id |-> Len(published) + k]
stamped(e, k) == joined(e, stamp(k))

\* An event as an entry point makes it.
Plain(e) == "index" \in DOMAIN e /\ e.index \in Nat /\ DOMAIN e \cap {"tx", "ledger", "id"} = {}

\* The pending events lead to the tables u, and none is of the future.
Follows(u) ==
  /\ Leads(published, tables, u) /\ now \in Nat
  /\ \A i \in 1..Len(published) : published[i].ledger <= now

LEMMA StampedFacts ==
  ASSUME NEW e, Plain(e), NEW u, Follows(u), NEW k \in Nat
  PROVE  /\ Numbered(stamped(e, k)) /\ stamped(e, k).id = Len(published) + k
         /\ stamped(e, k).tx = call_tx /\ stamped(e, k).ledger = now
         /\ DOMAIN stamped(e, k) = DOMAIN e \cup {"tx", "ledger", "id"}
         /\ \A x \in DOMAIN e : stamped(e, k)[x] = e[x]
<1>1. call_tx \in Nat /\ Len(published) \in Nat
  <2>1. CASE published = <<>>
    BY <2>1 DEF call_tx
  <2>2. CASE published # <<>>
    <3>1. PICK S : published \in Seq(S)
      BY DEF Follows, Leads, Logged
    <3>2. Len(published) \in 1..Len(published)
      BY <2>2, <3>1
    <3>3. published[Len(published)].tx \in Nat
      BY <3>2 DEF Follows, Leads, Logged, InOrder, Numbered
    <3>. QED BY <2>2, <3>1, <3>3 DEF call_tx
  <2>. QED BY <2>1, <2>2
<1>2. DOMAIN stamp(k) = {"tx", "ledger", "id"} /\ stamp(k).tx = call_tx /\ stamp(k).ledger = now
      /\ stamp(k).id = Len(published) + k
  BY DEF stamp
<1>3. /\ DOMAIN stamped(e, k) = DOMAIN e \cup {"tx", "ledger", "id"}
      /\ \A x \in DOMAIN e : stamped(e, k)[x] = e[x]
      /\ \A x \in {"tx", "ledger", "id"} : stamped(e, k)[x] = stamp(k)[x]
  <2>. DEFINE g == stamp(k)
              j == joined(e, g)
  <2>1. \A x \in {"tx", "ledger", "id"} : x \in DOMAIN g \ DOMAIN e
    BY <1>2 DEF Plain
  <2>2. DOMAIN g = {"tx", "ledger", "id"}
    BY <1>2
  <2>. HIDE DEF g
  <2>3. /\ DOMAIN j = DOMAIN e \cup DOMAIN g /\ \A x \in DOMAIN e : j[x] = e[x]
        /\ \A x \in DOMAIN g \ DOMAIN e : j[x] = g[x]
    BY ONLY JoinedFacts
  <2>4. j = stamped(e, k)
    BY DEF stamped, g
  <2>. HIDE DEF j
  <2>5. /\ DOMAIN j = DOMAIN e \cup {"tx", "ledger", "id"} /\ \A x \in DOMAIN e : j[x] = e[x]
        /\ \A x \in {"tx", "ledger", "id"} : j[x] = g[x]
    BY <2>1, <2>2, <2>3
  <2>. QED BY <2>4, <2>5 DEF g
<1>4. stamped(e, k).index = e.index /\ e.index \in Nat /\ now \in Nat
  BY <1>3 DEF Plain, Follows
<1>. QED BY <1>1, <1>2, <1>3, <1>4 DEF Numbered, Plain

LEMMA LastOfLog ==
  ASSUME NEW u, Follows(u), published # <<>>
  PROVE  LET e == published[Len(published)] IN
         Numbered(e) /\ e.ledger <= now /\ e.tx < call_tx
<1>1. PICK S : published \in Seq(S)
  BY DEF Follows, Leads, Logged
<1>2. Len(published) \in 1..Len(published)
  BY <1>1
<1>3. Numbered(published[Len(published)])
  BY <1>2 DEF Follows, Leads, Logged, InOrder
<1>. QED BY <1>2, <1>3 DEF Follows, call_tx, Numbered

\* The log p leads to v; its last k events are of the call under way, e the last.
Underway(p, v, e, k) ==
  /\ Leads(p, tables, v) /\ Len(p) = Len(published) + k /\ Len(published) \in Nat
  /\ p # <<>> /\ p[Len(p)] = e
  /\ Numbered(e) /\ e.tx = call_tx /\ e.ledger = now
  /\ \A i \in 1..Len(p) : p[i].ledger <= now

LEMMA OneMore ==
  ASSUME NEW u, Follows(u), NEW p, NEW v, Leads(p, tables, v), NEW e, Plain(e),
         NEW k \in Nat, Len(p) + 1 = Len(published) + k,
         NEW d, d = stamped(e, k), p # <<>> => Precedes(p[Len(p)], d),
         \A i \in 1..Len(p) : p[i].ledger <= now,
         NEW w, Applies(v, d, w)
  PROVE  Underway(Append(p, d), w, d, k)
<1>. DEFINE q == Append(p, d)
<1>1. Numbered(d) /\ d.id = Len(p) + 1 /\ d.tx = call_tx /\ d.ledger = now
  BY StampedFacts
<1>2. /\ Leads(q, tables, w) /\ Len(q) = Len(p) + 1
      /\ q[Len(p) + 1] = d /\ \A i \in 1..Len(p) : q[i] = p[i]
  BY <1>1, LeadsOn
<1>3. Len(p) \in Nat /\ Len(published) \in Nat /\ now \in Nat
  BY DEF Leads, Logged, Follows
<1>4. q # <<>>
  BY <1>2, <1>3
<1>. HIDE DEF q
<1>5. ASSUME NEW i \in 1..Len(q) PROVE q[i].ledger <= now
  <2>1. CASE i = Len(p) + 1
    BY <1>1, <1>2, <1>3, <2>1
  <2>2. CASE i \in 1..Len(p)
    BY <1>2, <2>2
  <2>. QED BY <1>2, <1>3, <2>1, <2>2
<1>6. Len(q) = Len(published) + k /\ q[Len(q)] = d
  BY <1>2
<1>. QED BY <1>1, <1>2, <1>3, <1>4, <1>5, <1>6 DEF q, Underway

LEMMA FirstOfCall ==
  ASSUME NEW u, Follows(u), NEW a, Plain(a), NEW v, Applies(u, stamped(a, 1), v)
  PROVE  Underway(Append(published, stamped(a, 1)), v, stamped(a, 1), 1)
<1>. DEFINE d == stamped(a, 1)
<1>1. Numbered(d) /\ d.tx = call_tx /\ d.ledger = now
  BY StampedFacts
<1>. HIDE DEF d
<1>2. ASSUME published # <<>> PROVE Precedes(published[Len(published)], d)
  <2>. DEFINE e == published[Len(published)]
  <2>1. Numbered(e) /\ e.ledger <= now /\ e.tx < call_tx
    BY <1>2, LastOfLog
  <2>. HIDE DEF e
  <2>2. Precedes(e, d)
    BY <1>1, <2>1 DEF Precedes, Numbered
  <2>. QED BY <2>2 DEF e
<1>3. Leads(published, tables, u) /\ \A i \in 1..Len(published) : published[i].ledger <= now
  BY DEF Follows
<1>. QED BY <1>2, <1>3, OneMore DEF d

LEMMA NextOfCall ==
  ASSUME NEW u, Follows(u), NEW k \in Nat, NEW p, NEW v, NEW a, NEW b, Plain(a), Plain(b),
         Underway(p, v, stamped(a, k), k), a.index < b.index,
         NEW w, Applies(v, stamped(b, k + 1), w)
  PROVE  Underway(Append(p, stamped(b, k + 1)), w, stamped(b, k + 1), k + 1)
<1>. DEFINE c == stamped(a, k)
            d == stamped(b, k + 1)
<1>0. k + 1 \in Nat /\ "index" \in DOMAIN b
  BY DEF Plain
<1>1. Numbered(d) /\ d.tx = call_tx /\ d.ledger = now /\ d.index = b.index
  BY <1>0, StampedFacts
<1>2. c.index = a.index
  BY StampedFacts DEF Plain
<1>. HIDE DEF c, d
<1>3. /\ Leads(p, tables, v) /\ Len(p) + 1 = Len(published) + (k + 1)
      /\ p[Len(p)] = c /\ Numbered(c) /\ c.tx = call_tx /\ c.ledger = now
      /\ \A i \in 1..Len(p) : p[i].ledger <= now
  BY DEF Underway, c
<1>4. Precedes(c, d)
  BY <1>1, <1>2, <1>3 DEF Precedes, Numbered
<1>. QED BY <1>0, <1>3, <1>4, OneMore DEF d

LEMMA PublishedSeq ==
  ASSUME NEW a, NEW b, NEW c, NEW u, Follows(u)
  PROVE  /\ publish(<<a>>) => published' = Append(published, stamped(a, 1))
         /\ publish(<<a, b>>) =>
              published' = Append(Append(published, stamped(a, 1)), stamped(b, 2))
         /\ publish(<<a, b, c>>) =>
              published' = Append(Append(Append(published, stamped(a, 1)), stamped(b, 2)),
                                  stamped(c, 3))
<1>. DEFINE at(i) == [tx |-> call_tx, ledger |-> now, id |-> Len(published) + i]
<1>0. PICK S : published \in Seq(S)
  BY DEF Follows, Leads, Logged
<1>1. ASSUME publish(<<a>>) PROVE published' = Append(published, stamped(a, 1))
  <2>1. published' = published \o [i \in DOMAIN <<a>> |-> joined(<<a>>[i], at(i))]
    BY <1>1 DEF publish, call_tx
  <2>2. [i \in DOMAIN <<a>> |-> joined(<<a>>[i], at(i))] = <<joined(a, at(1))>>
    <3>. HIDE DEF at
    <3>. QED OBVIOUS
  <2>3. joined(a, at(1)) = stamped(a, 1)
    BY DEF stamped, stamp
  <2>4. published' = published \o <<stamped(a, 1)>>
    BY <2>1, <2>2, <2>3
  <2>. QED BY <1>0, <2>4
<1>2. ASSUME publish(<<a, b>>)
      PROVE  published' = Append(Append(published, stamped(a, 1)), stamped(b, 2))
  <2>1. published' = published \o [i \in DOMAIN <<a, b>> |-> joined(<<a, b>>[i], at(i))]
    BY <1>2 DEF publish, call_tx
  <2>2. [i \in DOMAIN <<a, b>> |-> joined(<<a, b>>[i], at(i))]
          = <<joined(a, at(1)), joined(b, at(2))>>
    <3>. HIDE DEF at
    <3>. QED OBVIOUS
  <2>3. joined(a, at(1)) = stamped(a, 1) /\ joined(b, at(2)) = stamped(b, 2)
    BY DEF stamped, stamp
  <2>4. published' = published \o <<stamped(a, 1), stamped(b, 2)>>
    BY <2>1, <2>2, <2>3
  <2>. QED BY <1>0, <2>4
<1>3. ASSUME publish(<<a, b, c>>)
      PROVE  published' = Append(Append(Append(published, stamped(a, 1)), stamped(b, 2)),
                                 stamped(c, 3))
  <2>1. published' = published \o [i \in DOMAIN <<a, b, c>> |-> joined(<<a, b, c>>[i], at(i))]
    BY <1>3 DEF publish, call_tx
  <2>2. [i \in DOMAIN <<a, b, c>> |-> joined(<<a, b, c>>[i], at(i))]
          = <<joined(a, at(1)), joined(b, at(2)), joined(c, at(3))>>
    <3>. HIDE DEF at
    <3>. QED OBVIOUS
  <2>3. joined(a, at(1)) = stamped(a, 1) /\ joined(b, at(2)) = stamped(b, 2)
        /\ joined(c, at(3)) = stamped(c, 3)
    BY DEF stamped, stamp
  <2>4. published' = published \o <<stamped(a, 1), stamped(b, 2), stamped(c, 3)>>
    BY <2>1, <2>2, <2>3
  <2>. QED BY <1>0, <2>4
<1>. QED BY <1>1, <1>2, <1>3

\* The log after a call whose events lead from u to v.
LEMMA CallEnds ==
  ASSUME NEW u, Follows(u), UNCHANGED <<tables, now>>, NEW v, NEW e, NEW k,
         Underway(published', v, e, k)
  PROVE  Follows(v)'
<1>1. now' = now /\ tables' = tables /\ now \in Nat
  BY DEF Follows
<1>. QED BY <1>1 DEF Follows, Underway

LEMMA PublishOne ==
  ASSUME NEW u, Follows(u), UNCHANGED <<tables, now>>, NEW a, Plain(a), publish(<<a>>),
         NEW v, Applies(u, stamped(a, 1), v)
  PROVE  Follows(v)'
BY PublishedSeq, FirstOfCall, CallEnds

LEMMA PublishTwo ==
  ASSUME NEW u, Follows(u), UNCHANGED <<tables, now>>, NEW a, NEW b, Plain(a), Plain(b),
         a.index < b.index, publish(<<a, b>>),
         NEW v, Applies(u, stamped(a, 1), v), NEW w, Applies(v, stamped(b, 2), w)
  PROVE  Follows(w)'
<1>. DEFINE p == Append(published, stamped(a, 1))
<1>1. published' = Append(p, stamped(b, 2))
  BY PublishedSeq
<1>2. Underway(p, v, stamped(a, 1), 1)
  BY FirstOfCall
<1>. HIDE DEF p
<1>3. Underway(Append(p, stamped(b, 1 + 1)), w, stamped(b, 1 + 1), 1 + 1)
  BY <1>2, NextOfCall
<1>. QED BY <1>1, <1>3, CallEnds

LEMMA PublishThree ==
  ASSUME NEW u, Follows(u), UNCHANGED <<tables, now>>, NEW a, NEW b, NEW c,
         Plain(a), Plain(b), Plain(c),
         a.index < b.index, b.index < c.index, publish(<<a, b, c>>),
         NEW v, Applies(u, stamped(a, 1), v), NEW w, Applies(v, stamped(b, 2), w),
         NEW x, Applies(w, stamped(c, 3), x)
  PROVE  Follows(x)'
<1>. DEFINE p == Append(published, stamped(a, 1))
            q == Append(p, stamped(b, 2))
<1>1. published' = Append(q, stamped(c, 3))
  BY PublishedSeq
<1>2. Underway(p, v, stamped(a, 1), 1)
  BY FirstOfCall
<1>. HIDE DEF p
<1>3. Underway(q, w, stamped(b, 2), 2)
  <2>1. Underway(Append(p, stamped(b, 1 + 1)), w, stamped(b, 1 + 1), 1 + 1)
    BY <1>2, NextOfCall
  <2>. QED BY <2>1
<1>. HIDE DEF q
<1>4. Underway(Append(q, stamped(c, 2 + 1)), x, stamped(c, 2 + 1), 2 + 1)
  BY <1>3, NextOfCall
<1>. QED BY <1>1, <1>4, CallEnds

-----------------------------------------------------------------------------
(* What each event does to the tables                                       *)

\* The state s of a batch at event e has written the tables of done, and holds t.
Holds(s, e, done, t) == Going(s, e, done) /\ s.tables = t

changed(t, table, k, changes) == placed(t, table, k, joined(changes, t[table][k]))
upserted(t, table, k, row) ==
  IF t[table][k] = NoRow THEN placed(t, table, k, row) ELSE changed(t, table, k, row)

LEMMA Writes ==
  ASSUME NEW s, NEW e, NEW done, NEW t, Holds(s, e, done, t), e.id \in Nat,
         NEW table \in DOMAIN Tables, NEW k \in Tables[table], NEW row
  PROVE  /\ t[table][k] = NoRow =>
              Holds(create(s, table, k, row, e), e, done \cup {table}, placed(t, table, k, row))
         /\ Holds(set(s, table, k, row, e), e, done \cup {table}, changed(t, table, k, row))
         /\ table \notin done =>
              Holds(update(s, table, k, row, e), e, done \cup {table}, changed(t, table, k, row))
<1>. DEFINE after(x) == write(s, table, k, x, e)
<1>1. ASSUME NEW x PROVE Holds(after(x), e, done \cup {table}, placed(t, table, k, x))
  BY Written DEF Holds
<1>2. /\ s.tables[table][k] = NoRow => create(s, table, k, row, e) = after(row)
      /\ set(s, table, k, row, e) = after(joined(row, s.tables[table][k]))
      /\ table \notin done =>
           update(s, table, k, row, e) = after(joined(row, s.tables[table][k]))
  BY Writing DEF Holds
<1>3. s.tables = t
  BY DEF Holds
<1>. HIDE DEF after
<1>. QED BY <1>1, <1>2, <1>3 DEF changed

\* The first write of an event.
LEMMA FirstWrites ==
  ASSUME NEW s, NEW e, NEW t, Holds(s, e, {}, t), e.id \in Nat,
         NEW table \in DOMAIN Tables, NEW k \in Tables[table], NEW row
  PROVE  /\ t[table][k] = NoRow =>
              Holds(create(s, table, k, row, e), e, {table}, placed(t, table, k, row))
         /\ Holds(set(s, table, k, row, e), e, {table}, changed(t, table, k, row))
         /\ Holds(update(s, table, k, row, e), e, {table}, changed(t, table, k, row))
<1>1. {} \cup {table} = {table} /\ table \notin {}
  OBVIOUS
<1>. QED BY <1>1, Writes

LEMMA Reads ==
  ASSUME NEW s, NEW e, NEW done, NEW t, Holds(s, e, done, t),
         NEW table \in DOMAIN Tables, NEW k \in Tables[table]
  PROVE  /\ missing(s, table, k) <=> t[table][k] = NoRow
         /\ table \notin done => isNewer(s, table, k, e)
BY DEF Holds, Going, missing, isNewer

\* The event e, with its name and its fields.
Carries(e, name, fields) ==
  /\ e.name = name /\ {"name"} \cup fields \subseteq DOMAIN e
  /\ fields \cap {"tx", "id"} = {}

LEMMA AppliesIf ==
  ASSUME NEW t, NEW u, NEW e, NEW name, NEW fields, Carries(e, name, fields),
         \A s, d : /\ Holds(s, d, {}, t) /\ d.id \in Nat /\ s.failed = FALSE
                   /\ d.name = name /\ \A x \in fields : d[x] = e[x]
                   => \E done \in SUBSET DOMAIN Tables : Holds(projectEvent(s, d), d, done, u)
  PROVE  Applies(t, e, u)
<1>. SUFFICES ASSUME NEW s, NEW d, Like(e, d), d.id \in Nat, Going(s, d, {}), s.tables = t
              PROVE  Going(projectEvent(s, d), d, DOMAIN Tables) /\ projectEvent(s, d).tables = u
  BY DEF Applies
<1>1. d.name = name /\ \A x \in fields : d[x] = e[x]
  BY DEF Like, Carries
<1>2. Holds(s, d, {}, t) /\ s.failed = FALSE
  BY DEF Holds, Going
<1>3. PICK done \in SUBSET DOMAIN Tables : Holds(projectEvent(s, d), d, done, u)
  BY <1>1, <1>2
<1>. QED BY <1>3 DEF Holds, Going

LEMMA OrderCreatedApplies ==
  ASSUME NEW t, NEW e, e.order \in OrderId, t["orders"][e.order] = NoRow,
         Carries(e, "order_created", {"order", "buyer", "supplier", "attestor", "resolver",
                                      "asset", "ledger"})
  PROVE  Applies(t, e, placed(t, "orders", e.order,
           [buyer |-> e.buyer, supplier |-> e.supplier, attestor |-> e.attestor,
            resolver |-> e.resolver, asset |-> e.asset, status |-> "Created", at |-> e.ledger]))
<1>. DEFINE row == [buyer |-> e.buyer, supplier |-> e.supplier, attestor |-> e.attestor,
                    resolver |-> e.resolver, asset |-> e.asset, status |-> "Created",
                    at |-> e.ledger]
            u == placed(t, "orders", e.order, row)
            fields == {"order", "buyer", "supplier", "attestor", "resolver", "asset", "ledger"}
<1>1. ASSUME NEW s, NEW d, Holds(s, d, {}, t), d.id \in Nat, s.failed = FALSE,
             d.name = "order_created", \A x \in fields : d[x] = e[x]
      PROVE  Holds(projectEvent(s, d), d, {"orders"}, u)
  <2>1. projectEvent(s, d) = orderCreated(s, d)
    BY <1>1 DEF projectEvent, RequiresMilestone
  <2>2. orderCreated(s, d) = create(s, "orders", e.order, row, d)
    BY <1>1 DEF orderCreated
  <2>. HIDE DEF row
  <2>3. Holds(create(s, "orders", e.order, row, d), d, {"orders"}, u)
    BY <1>1, FirstWrites, TableNames
  <2>. QED BY <2>1, <2>2, <2>3
<1>. HIDE DEF u, fields
<1>2. {"orders"} \in SUBSET DOMAIN Tables
  BY TableNames
<1>. QED BY <1>1, <1>2, AppliesIf DEF u, fields

LEMMA MilestoneFirst ==
  ASSUME NEW s, NEW d, NEW t, Holds(s, d, {}, t), d.id \in Nat,
         d.milestone \in MilestoneId, NEW changes
  PROVE  Holds(updateMilestone(s, d, changes), d, {"milestones"},
               changed(t, "milestones", d.milestone, changes))
BY FirstWrites, TableNames DEF updateMilestone

LEMMA MilestoneUpdated ==
  ASSUME NEW s, NEW d, NEW done, NEW t, Holds(s, d, done, t), d.id \in Nat,
         "milestones" \notin done, d.milestone \in MilestoneId, NEW changes
  PROVE  Holds(updateMilestone(s, d, changes), d, done \cup {"milestones"},
               changed(t, "milestones", d.milestone, changes))
BY Writes, TableNames DEF updateMilestone

LEMMA OrderAcceptedApplies ==
  ASSUME NEW t, NEW e, e.order \in OrderId, t["orders"][e.order] # NoRow,
         Carries(e, "order_accepted", {"order"})
  PROVE  Applies(t, e, changed(t, "orders", e.order, [status |-> "Active"]))
<1>. DEFINE fields == {"order"}
            u == changed(t, "orders", e.order, [status |-> "Active"])
<1>1. ASSUME NEW s, NEW d, Holds(s, d, {}, t), d.id \in Nat, s.failed = FALSE,
             d.name = "order_accepted", \A x \in fields : d[x] = e[x]
      PROVE  Holds(projectEvent(s, d), d, {"orders"}, u)
  <2>1. projectEvent(s, d) = orderMoved(s, d)
    BY <1>1 DEF projectEvent, RequiresMilestone
  <2>2. ~missing(s, "orders", e.order)
    BY <1>1, Reads, TableNames
  <2>3. orderMoved(s, d) = update(s, "orders", e.order, [status |-> "Active"], d)
    BY <1>1, <2>2 DEF orderMoved
  <2>. QED BY <1>1, <2>1, <2>3, FirstWrites, TableNames
<1>. HIDE DEF u, fields
<1>2. {"orders"} \in SUBSET DOMAIN Tables
  BY TableNames
<1>. QED BY <1>1, <1>2, AppliesIf DEF u, fields

LEMMA OrderCancelledApplies ==
  ASSUME NEW t, NEW e, e.order \in OrderId, t["orders"][e.order] # NoRow,
         Carries(e, "order_cancelled", {"order"})
  PROVE  Applies(t, e, changed(t, "orders", e.order, [status |-> "Cancelled"]))
<1>. DEFINE fields == {"order"}
            u == changed(t, "orders", e.order, [status |-> "Cancelled"])
<1>1. ASSUME NEW s, NEW d, Holds(s, d, {}, t), d.id \in Nat, s.failed = FALSE,
             d.name = "order_cancelled", \A x \in fields : d[x] = e[x]
      PROVE  Holds(projectEvent(s, d), d, {"orders"}, u)
  <2>1. projectEvent(s, d) = orderMoved(s, d)
    BY <1>1 DEF projectEvent, RequiresMilestone
  <2>2. ~missing(s, "orders", e.order)
    BY <1>1, Reads, TableNames
  <2>3. orderMoved(s, d) = update(s, "orders", e.order, [status |-> "Cancelled"], d)
    BY <1>1, <2>2 DEF orderMoved
  <2>. QED BY <1>1, <2>1, <2>3, FirstWrites, TableNames
<1>. HIDE DEF u, fields
<1>2. {"orders"} \in SUBSET DOMAIN Tables
  BY TableNames
<1>. QED BY <1>1, <1>2, AppliesIf DEF u, fields

LEMMA OrderCompletedApplies ==
  ASSUME NEW t, NEW e, e.order \in OrderId, t["orders"][e.order] # NoRow,
         Carries(e, "order_completed", {"order"})
  PROVE  Applies(t, e, changed(t, "orders", e.order, [status |-> "Completed"]))
<1>. DEFINE fields == {"order"}
            u == changed(t, "orders", e.order, [status |-> "Completed"])
<1>1. ASSUME NEW s, NEW d, Holds(s, d, {}, t), d.id \in Nat, s.failed = FALSE,
             d.name = "order_completed", \A x \in fields : d[x] = e[x]
      PROVE  Holds(projectEvent(s, d), d, {"orders"}, u)
  <2>1. projectEvent(s, d) = orderMoved(s, d)
    BY <1>1 DEF projectEvent, RequiresMilestone
  <2>2. ~missing(s, "orders", e.order)
    BY <1>1, Reads, TableNames
  <2>3. orderMoved(s, d) = update(s, "orders", e.order, [status |-> "Completed"], d)
    BY <1>1, <2>2 DEF orderMoved
  <2>. QED BY <1>1, <2>1, <2>3, FirstWrites, TableNames
<1>. HIDE DEF u, fields
<1>2. {"orders"} \in SUBSET DOMAIN Tables
  BY TableNames
<1>. QED BY <1>1, <1>2, AppliesIf DEF u, fields

LEMMA MilestoneCreatedApplies ==
  ASSUME NEW t, NEW e, e.order \in OrderId, t["orders"][e.order] # NoRow,
         e.milestone \in MilestoneId, t["milestones"][e.milestone] = NoRow,
         Carries(e, "milestone_created", {"order", "milestone", "amount"})
  PROVE  Applies(t, e, placed(t, "milestones", e.milestone,
           [order_id |-> e.order, amount |-> e.amount, funded_amount |-> 0,
            evidence_hash |-> NoDigest, status |-> "Unfunded"]))
<1>. DEFINE fields == {"order", "milestone", "amount"}
            u == placed(t, "milestones", e.milestone,
           [order_id |-> e.order, amount |-> e.amount, funded_amount |-> 0,
            evidence_hash |-> NoDigest, status |-> "Unfunded"])
            row == [order_id |-> e.order, amount |-> e.amount, funded_amount |-> 0,
                    evidence_hash |-> NoDigest, status |-> "Unfunded"]
<1>1. ASSUME NEW s, NEW d, Holds(s, d, {}, t), d.id \in Nat, s.failed = FALSE,
             d.name = "milestone_created", \A x \in fields : d[x] = e[x]
      PROVE  Holds(projectEvent(s, d), d, {"milestones"}, u)
  <2>1. projectEvent(s, d) = milestoneCreated(s, d)
    BY <1>1 DEF projectEvent, RequiresMilestone
  <2>2. ~missing(s, "orders", e.order)
    BY <1>1, Reads, TableNames
  <2>3. milestoneCreated(s, d) = create(s, "milestones", e.milestone, row, d)
    BY <1>1, <2>2 DEF milestoneCreated
  <2>. HIDE DEF row
  <2>. QED BY <1>1, <2>1, <2>3, FirstWrites, TableNames DEF row
<1>. HIDE DEF u, fields
<1>2. {"milestones"} \in SUBSET DOMAIN Tables
  BY TableNames
<1>. QED BY <1>1, <1>2, AppliesIf DEF u, fields

LEMMA MilestoneFundedApplies ==
  ASSUME NEW t, NEW e, e.milestone \in MilestoneId, t["milestones"][e.milestone] # NoRow,
         Carries(e, "milestone_funded", {"milestone", "funded_amount", "fully_funded"})
  PROVE  Applies(t, e, changed(t, "milestones", e.milestone,
           [funded_amount |-> e.funded_amount,
            status |-> IF e.fully_funded THEN "Funded" ELSE "Unfunded"]))
<1>. DEFINE fields == {"milestone", "funded_amount", "fully_funded"}
            u == changed(t, "milestones", e.milestone,
           [funded_amount |-> e.funded_amount,
            status |-> IF e.fully_funded THEN "Funded" ELSE "Unfunded"])
            changes == [funded_amount |-> e.funded_amount,
                        status |-> IF e.fully_funded THEN "Funded" ELSE "Unfunded"]
<1>1. ASSUME NEW s, NEW d, Holds(s, d, {}, t), d.id \in Nat, s.failed = FALSE,
             d.name = "milestone_funded", \A x \in fields : d[x] = e[x]
      PROVE  Holds(projectEvent(s, d), d, {"milestones"}, u)
  <2>0. ~missing(s, "milestones", e.milestone)
    BY <1>1, Reads, TableNames
  <2>1. projectEvent(s, d) = milestoneFunded(s, d)
    BY <1>1, <2>0 DEF projectEvent, RequiresMilestone
  <2>2. milestoneFunded(s, d) = updateMilestone(s, d, changes)
    BY <1>1 DEF milestoneFunded
  <2>3. d.milestone = e.milestone
    BY <1>1
  <2>. HIDE DEF changes
  <2>. QED BY <1>1, <2>1, <2>2, <2>3, MilestoneFirst DEF changes
<1>. HIDE DEF u, fields
<1>2. {"milestones"} \in SUBSET DOMAIN Tables
  BY TableNames
<1>. QED BY <1>1, <1>2, AppliesIf DEF u, fields

LEMMA FundingReturnedApplies ==
  ASSUME NEW t, NEW e, e.milestone \in MilestoneId, t["milestones"][e.milestone] # NoRow,
         Carries(e, "partial_funding_cancelled", {"milestone"})
  PROVE  Applies(t, e, changed(t, "milestones", e.milestone,
           [funded_amount |-> 0, status |-> "Unfunded"]))
<1>. DEFINE fields == {"milestone"}
            u == changed(t, "milestones", e.milestone,
           [funded_amount |-> 0, status |-> "Unfunded"])
            changes == [funded_amount |-> 0, status |-> "Unfunded"]
<1>1. ASSUME NEW s, NEW d, Holds(s, d, {}, t), d.id \in Nat, s.failed = FALSE,
             d.name = "partial_funding_cancelled", \A x \in fields : d[x] = e[x]
      PROVE  Holds(projectEvent(s, d), d, {"milestones"}, u)
  <2>0. ~missing(s, "milestones", e.milestone)
    BY <1>1, Reads, TableNames
  <2>1. projectEvent(s, d) = partialFundingCancelled(s, d)
    BY <1>1, <2>0 DEF projectEvent, RequiresMilestone
  <2>2. partialFundingCancelled(s, d) = updateMilestone(s, d, changes)
    BY <1>1 DEF partialFundingCancelled
  <2>3. d.milestone = e.milestone
    BY <1>1
  <2>. HIDE DEF changes
  <2>. QED BY <1>1, <2>1, <2>2, <2>3, MilestoneFirst DEF changes
<1>. HIDE DEF u, fields
<1>2. {"milestones"} \in SUBSET DOMAIN Tables
  BY TableNames
<1>. QED BY <1>1, <1>2, AppliesIf DEF u, fields

LEMMA VerifiedApplies ==
  ASSUME NEW t, NEW e, e.milestone \in MilestoneId, t["milestones"][e.milestone] # NoRow,
         Carries(e, "milestone_verified", {"milestone", "evidence_hash"})
  PROVE  Applies(t, e, changed(t, "milestones", e.milestone,
           [evidence_hash |-> e.evidence_hash, status |-> "Verified"]))
<1>. DEFINE fields == {"milestone", "evidence_hash"}
            u == changed(t, "milestones", e.milestone,
           [evidence_hash |-> e.evidence_hash, status |-> "Verified"])
            changes == [evidence_hash |-> e.evidence_hash, status |-> "Verified"]
<1>1. ASSUME NEW s, NEW d, Holds(s, d, {}, t), d.id \in Nat, s.failed = FALSE,
             d.name = "milestone_verified", \A x \in fields : d[x] = e[x]
      PROVE  Holds(projectEvent(s, d), d, {"milestones"}, u)
  <2>0. ~missing(s, "milestones", e.milestone)
    BY <1>1, Reads, TableNames
  <2>1. projectEvent(s, d) = milestoneVerified(s, d)
    BY <1>1, <2>0 DEF projectEvent, RequiresMilestone
  <2>2. milestoneVerified(s, d) = updateMilestone(s, d, changes)
    BY <1>1 DEF milestoneVerified
  <2>3. d.milestone = e.milestone
    BY <1>1
  <2>. HIDE DEF changes
  <2>. QED BY <1>1, <2>1, <2>2, <2>3, MilestoneFirst DEF changes
<1>. HIDE DEF u, fields
<1>2. {"milestones"} \in SUBSET DOMAIN Tables
  BY TableNames
<1>. QED BY <1>1, <1>2, AppliesIf DEF u, fields

LEMMA RequestApplies ==
  ASSUME NEW t, NEW e, e.milestone \in MilestoneId, t["milestones"][e.milestone] # NoRow,
         Carries(e, "finance_requested", {"milestone", "requested_principal", "expires_at"})
  PROVE  Applies(t, e, changed(
           upserted(t, "requests", e.milestone,
             [requested_principal |-> e.requested_principal, expires_at |-> e.expires_at,
              status |-> "Open"]),
           "milestones", e.milestone, [status |-> "FinanceRequested"]))
<1>. DEFINE fields == {"milestone", "requested_principal", "expires_at"}
            u == changed(
           upserted(t, "requests", e.milestone,
             [requested_principal |-> e.requested_principal, expires_at |-> e.expires_at,
              status |-> "Open"]),
           "milestones", e.milestone, [status |-> "FinanceRequested"])
            row == [requested_principal |-> e.requested_principal,
                    expires_at |-> e.expires_at, status |-> "Open"]
<1>1. ASSUME NEW s, NEW d, Holds(s, d, {}, t), d.id \in Nat, s.failed = FALSE,
             d.name = "finance_requested", \A x \in fields : d[x] = e[x]
      PROVE  Holds(projectEvent(s, d), d, {"requests", "milestones"}, u)
  <2>0. ~missing(s, "milestones", e.milestone)
    BY <1>1, Reads, TableNames
  <2>1. projectEvent(s, d) = financeRequested(s, d)
    BY <1>1, <2>0 DEF projectEvent, RequiresMilestone
  <2>2. d.milestone = e.milestone
    BY <1>1
  <2>3. financeRequested(s, d) =
          updateMilestone(IF missing(s, "requests", d.milestone)
                          THEN create(s, "requests", d.milestone, row, d)
                          ELSE update(s, "requests", d.milestone, row, d),
                          d, [status |-> "FinanceRequested"])
    BY <1>1 DEF financeRequested
  <2>. HIDE DEF row
  <2>4. missing(s, "requests", d.milestone) <=> t["requests"][d.milestone] = NoRow
    BY <1>1, <2>2, Reads, TableNames
  <2>5. Holds(IF missing(s, "requests", d.milestone)
              THEN create(s, "requests", d.milestone, row, d)
              ELSE update(s, "requests", d.milestone, row, d),
              d, {"requests"}, upserted(t, "requests", d.milestone, row))
    <3>1. /\ t["requests"][d.milestone] = NoRow =>
               Holds(create(s, "requests", d.milestone, row, d), d, {"requests"},
                     placed(t, "requests", d.milestone, row))
          /\ Holds(update(s, "requests", d.milestone, row, d), d, {"requests"},
                   changed(t, "requests", d.milestone, row))
      BY <1>1, <2>2, FirstWrites, TableNames
    <3>. QED BY <2>4, <3>1 DEF upserted
  <2>6. Holds(updateMilestone(IF missing(s, "requests", d.milestone)
                              THEN create(s, "requests", d.milestone, row, d)
                              ELSE update(s, "requests", d.milestone, row, d),
                              d, [status |-> "FinanceRequested"]),
              d, {"requests"} \cup {"milestones"},
              changed(upserted(t, "requests", d.milestone, row), "milestones", d.milestone,
                      [status |-> "FinanceRequested"]))
    BY <1>1, <2>2, <2>5, MilestoneUpdated
  <2>7. {"requests"} \cup {"milestones"} = {"requests", "milestones"}
    OBVIOUS
  <2>. QED BY <2>1, <2>2, <2>3, <2>6, <2>7 DEF row
<1>. HIDE DEF u, fields
<1>2. {"requests", "milestones"} \in SUBSET DOMAIN Tables
  BY TableNames
<1>. QED BY <1>1, <1>2, AppliesIf DEF u, fields

LEMMA RequestCancelledApplies ==
  ASSUME NEW t, NEW e, e.milestone \in MilestoneId, t["milestones"][e.milestone] # NoRow,
         t["requests"][e.milestone] # NoRow,
         Carries(e, "finance_request_cancelled", {"milestone"})
  PROVE  Applies(t, e, changed(
           changed(t, "requests", e.milestone, [status |-> "Cancelled"]),
           "milestones", e.milestone, [status |-> "Funded"]))
<1>. DEFINE fields == {"milestone"}
            u == changed(
           changed(t, "requests", e.milestone, [status |-> "Cancelled"]),
           "milestones", e.milestone, [status |-> "Funded"])
<1>1. ASSUME NEW s, NEW d, Holds(s, d, {}, t), d.id \in Nat, s.failed = FALSE,
             d.name = "finance_request_cancelled", \A x \in fields : d[x] = e[x]
      PROVE  Holds(projectEvent(s, d), d, {"requests", "milestones"}, u)
  <2>0. ~missing(s, "milestones", e.milestone)
    BY <1>1, Reads, TableNames
  <2>1. projectEvent(s, d) = financeRequestCancelled(s, d)
    BY <1>1, <2>0 DEF projectEvent, RequiresMilestone
  <2>2. d.milestone = e.milestone /\ ~missing(s, "requests", e.milestone)
    BY <1>1, Reads, TableNames
  <2>. DEFINE closed == update(s, "requests", e.milestone, [status |-> "Cancelled"], d)
              v == changed(t, "requests", e.milestone, [status |-> "Cancelled"])
  <2>3. financeRequestCancelled(s, d) = updateMilestone(closed, d, [status |-> "Funded"])
    BY <2>2 DEF financeRequestCancelled
  <2>4. Holds(closed, d, {"requests"}, v)
    BY <1>1, FirstWrites, TableNames
  <2>. HIDE DEF closed, v
  <2>5. Holds(updateMilestone(closed, d, [status |-> "Funded"]), d,
              {"requests"} \cup {"milestones"},
              changed(v, "milestones", d.milestone, [status |-> "Funded"]))
    BY <1>1, <2>2, <2>4, MilestoneUpdated
  <2>6. {"requests"} \cup {"milestones"} = {"requests", "milestones"}
    OBVIOUS
  <2>. QED BY <2>1, <2>2, <2>3, <2>5, <2>6 DEF v
<1>. HIDE DEF u, fields
<1>2. {"requests", "milestones"} \in SUBSET DOMAIN Tables
  BY TableNames
<1>. QED BY <1>1, <1>2, AppliesIf DEF u, fields

LEMMA OfferCreatedApplies ==
  ASSUME NEW t, NEW e, e.milestone \in MilestoneId, t["milestones"][e.milestone] # NoRow,
         e.offer \in OfferId, t["offers"][e.offer] = NoRow,
         Carries(e, "funding_offer_created",
                 {"milestone", "offer", "funder", "principal", "repayment", "expires_at"})
  PROVE  Applies(t, e, placed(t, "offers", e.offer,
           [milestone |-> e.milestone, funder |-> e.funder, principal |-> e.principal,
            repayment |-> e.repayment, expires_at |-> e.expires_at, status |-> "Open"]))
<1>. DEFINE fields == {"milestone", "offer", "funder", "principal", "repayment", "expires_at"}
            u == placed(t, "offers", e.offer,
           [milestone |-> e.milestone, funder |-> e.funder, principal |-> e.principal,
            repayment |-> e.repayment, expires_at |-> e.expires_at, status |-> "Open"])
            row == [milestone |-> e.milestone, funder |-> e.funder, principal |-> e.principal,
                    repayment |-> e.repayment, expires_at |-> e.expires_at, status |-> "Open"]
<1>1. ASSUME NEW s, NEW d, Holds(s, d, {}, t), d.id \in Nat, s.failed = FALSE,
             d.name = "funding_offer_created", \A x \in fields : d[x] = e[x]
      PROVE  Holds(projectEvent(s, d), d, {"offers"}, u)
  <2>0. ~missing(s, "milestones", e.milestone)
    BY <1>1, Reads, TableNames
  <2>1. projectEvent(s, d) = fundingOfferCreated(s, d)
    BY <1>1, <2>0 DEF projectEvent, RequiresMilestone
  <2>2. fundingOfferCreated(s, d) = create(s, "offers", e.offer, row, d)
    BY <1>1 DEF fundingOfferCreated
  <2>. HIDE DEF row
  <2>. QED BY <1>1, <2>1, <2>2, FirstWrites, TableNames DEF row
<1>. HIDE DEF u, fields
<1>2. {"offers"} \in SUBSET DOMAIN Tables
  BY TableNames
<1>. QED BY <1>1, <1>2, AppliesIf DEF u, fields

LEMMA OfferCancelledApplies ==
  ASSUME NEW t, NEW e, e.offer \in OfferId, t["offers"][e.offer] # NoRow,
         Carries(e, "funding_offer_cancelled", {"offer"})
  PROVE  Applies(t, e, changed(t, "offers", e.offer, [status |-> "Cancelled"]))
<1>. DEFINE fields == {"offer"}
            u == changed(t, "offers", e.offer, [status |-> "Cancelled"])
<1>1. ASSUME NEW s, NEW d, Holds(s, d, {}, t), d.id \in Nat, s.failed = FALSE,
             d.name = "funding_offer_cancelled", \A x \in fields : d[x] = e[x]
      PROVE  Holds(projectEvent(s, d), d, {"offers"}, u)
  <2>1. projectEvent(s, d) = fundingOfferCancelled(s, d)
    BY <1>1 DEF projectEvent, RequiresMilestone
  <2>2. ~missing(s, "offers", e.offer)
    BY <1>1, Reads, TableNames
  <2>3. fundingOfferCancelled(s, d) = update(s, "offers", e.offer, [status |-> "Cancelled"], d)
    BY <1>1, <2>2 DEF fundingOfferCancelled
  <2>. QED BY <1>1, <2>1, <2>3, FirstWrites, TableNames
<1>. HIDE DEF u, fields
<1>2. {"offers"} \in SUBSET DOMAIN Tables
  BY TableNames
<1>. QED BY <1>1, <1>2, AppliesIf DEF u, fields

LEMMA OfferAcceptedApplies ==
  ASSUME NEW t, NEW e, e.milestone \in MilestoneId, t["requests"][e.milestone] # NoRow,
         e.offer \in OfferId, t["offers"][e.offer] # NoRow,
         Carries(e, "offer_accepted", {"offer", "milestone"})
  PROVE  Applies(t, e, changed(
           changed(t, "offers", e.offer, [status |-> "Accepted"]),
           "requests", e.milestone, [status |-> "Accepted"]))
<1>. DEFINE fields == {"offer", "milestone"}
            u == changed(
           changed(t, "offers", e.offer, [status |-> "Accepted"]),
           "requests", e.milestone, [status |-> "Accepted"])
<1>1. ASSUME NEW s, NEW d, Holds(s, d, {}, t), d.id \in Nat, s.failed = FALSE,
             d.name = "offer_accepted", \A x \in fields : d[x] = e[x]
      PROVE  Holds(projectEvent(s, d), d, {"offers", "requests"}, u)
  <2>1. projectEvent(s, d) = offerAccepted(s, d)
    BY <1>1 DEF projectEvent, RequiresMilestone
  <2>2. /\ ~missing(s, "offers", e.offer) /\ ~missing(s, "requests", e.milestone)
        /\ isNewer(s, "offers", e.offer, d) /\ d.offer = e.offer /\ d.milestone = e.milestone
    BY <1>1, Reads, TableNames
  <2>. DEFINE selected == set(s, "offers", e.offer, [status |-> "Accepted"], d)
              v == changed(t, "offers", e.offer, [status |-> "Accepted"])
  <2>3. offerAccepted(s, d) =
          update(selected, "requests", e.milestone, [status |-> "Accepted"], d)
    BY <2>2 DEF offerAccepted
  <2>4. Holds(selected, d, {"offers"}, v)
    BY <1>1, FirstWrites, TableNames
  <2>. HIDE DEF selected, v
  <2>5. Holds(update(selected, "requests", e.milestone, [status |-> "Accepted"], d), d,
              {"offers"} \cup {"requests"},
              changed(v, "requests", e.milestone, [status |-> "Accepted"]))
    BY <1>1, <2>4, Writes, TableNames
  <2>6. {"offers"} \cup {"requests"} = {"offers", "requests"}
    OBVIOUS
  <2>. QED BY <2>1, <2>3, <2>5, <2>6 DEF v
<1>. HIDE DEF u, fields
<1>2. {"offers", "requests"} \in SUBSET DOMAIN Tables
  BY TableNames
<1>. QED BY <1>1, <1>2, AppliesIf DEF u, fields

LEMMA AdvanceApplies ==
  ASSUME NEW t, NEW e, e.milestone \in MilestoneId, t["milestones"][e.milestone] # NoRow,
         e.offer \in OfferId, t["offers"][e.offer] # NoRow, t["positions"][e.offer] = NoRow,
         Carries(e, "advance_funded", {"milestone", "offer", "funder", "principal", "repayment"})
  PROVE  Applies(t, e, changed(
           changed(
             placed(t, "positions", e.offer,
               [milestone |-> e.milestone, funder |-> e.funder, principal |-> e.principal,
                repayment |-> e.repayment, status |-> "Active"]),
             "offers", e.offer, [status |-> "Funded"]),
           "milestones", e.milestone, [status |-> "Financed"]))
<1>. DEFINE fields == {"milestone", "offer", "funder", "principal", "repayment"}
            u == changed(
           changed(
             placed(t, "positions", e.offer,
               [milestone |-> e.milestone, funder |-> e.funder, principal |-> e.principal,
                repayment |-> e.repayment, status |-> "Active"]),
             "offers", e.offer, [status |-> "Funded"]),
           "milestones", e.milestone, [status |-> "Financed"])
            row == [milestone |-> e.milestone, funder |-> e.funder, principal |-> e.principal,
                    repayment |-> e.repayment, status |-> "Active"]
<1>1. ASSUME NEW s, NEW d, Holds(s, d, {}, t), d.id \in Nat, s.failed = FALSE,
             d.name = "advance_funded", \A x \in fields : d[x] = e[x]
      PROVE  Holds(projectEvent(s, d), d, {"positions", "offers", "milestones"}, u)
  <2>0. ~missing(s, "milestones", e.milestone)
    BY <1>1, Reads, TableNames
  <2>1. projectEvent(s, d) = advanceFunded(s, d)
    BY <1>1, <2>0 DEF projectEvent, RequiresMilestone
  <2>2. ~missing(s, "offers", e.offer) /\ d.offer = e.offer /\ d.milestone = e.milestone
    BY <1>1, Reads, TableNames
  <2>. DEFINE opened == create(s, "positions", e.offer, row, d)
              paid == set(opened, "offers", e.offer, [status |-> "Funded"], d)
              v == placed(t, "positions", e.offer, row)
              w == changed(v, "offers", e.offer, [status |-> "Funded"])
  <2>3. advanceFunded(s, d) = updateMilestone(paid, d, [status |-> "Financed"])
    BY <1>1, <2>2 DEF advanceFunded
  <2>. HIDE DEF row
  <2>4. Holds(opened, d, {"positions"}, v)
    BY <1>1, FirstWrites, TableNames
  <2>. HIDE DEF opened, v
  <2>5. Holds(paid, d, {"positions"} \cup {"offers"}, w)
    BY <1>1, <2>4, Writes, TableNames
  <2>. HIDE DEF paid, w
  <2>6. Holds(updateMilestone(paid, d, [status |-> "Financed"]), d,
              ({"positions"} \cup {"offers"}) \cup {"milestones"},
              changed(w, "milestones", d.milestone, [status |-> "Financed"]))
    BY <1>1, <2>2, <2>5, MilestoneUpdated
  <2>7. ({"positions"} \cup {"offers"}) \cup {"milestones"}
          = {"positions", "offers", "milestones"}
    OBVIOUS
  <2>. QED BY <2>1, <2>2, <2>3, <2>6, <2>7 DEF w, v, row
<1>. HIDE DEF u, fields
<1>2. {"positions", "offers", "milestones"} \in SUBSET DOMAIN Tables
  BY TableNames
<1>. QED BY <1>1, <1>2, AppliesIf DEF u, fields

LEMMA ReleaseApplies ==
  ASSUME NEW t, NEW e, e.milestone \in MilestoneId, t["milestones"][e.milestone] # NoRow,
         t["requests"][e.milestone] # NoRow, e.offer \in OfferId, t["offers"][e.offer] # NoRow,
         Carries(e, "acceptance_released", {"milestone", "offer", "request_reopened"})
  PROVE  Applies(t, e, changed(
           changed(
             changed(t, "offers", e.offer, [status |-> "Cancelled"]),
             "requests", e.milestone,
             [status |-> IF e.request_reopened THEN "Open" ELSE "Cancelled"]),
           "milestones", e.milestone,
           [status |-> IF e.request_reopened THEN "FinanceRequested" ELSE "Funded"]))
<1>. DEFINE fields == {"milestone", "offer", "request_reopened"}
            u == changed(
           changed(
             changed(t, "offers", e.offer, [status |-> "Cancelled"]),
             "requests", e.milestone,
             [status |-> IF e.request_reopened THEN "Open" ELSE "Cancelled"]),
           "milestones", e.milestone,
           [status |-> IF e.request_reopened THEN "FinanceRequested" ELSE "Funded"])
            request == [status |-> IF e.request_reopened THEN "Open" ELSE "Cancelled"]
            round == [status |-> IF e.request_reopened THEN "FinanceRequested" ELSE "Funded"]
<1>1. ASSUME NEW s, NEW d, Holds(s, d, {}, t), d.id \in Nat, s.failed = FALSE,
             d.name = "acceptance_released", \A x \in fields : d[x] = e[x]
      PROVE  Holds(projectEvent(s, d), d, {"offers", "requests", "milestones"}, u)
  <2>0. ~missing(s, "milestones", e.milestone)
    BY <1>1, Reads, TableNames
  <2>1. projectEvent(s, d) = acceptanceReleased(s, d)
    BY <1>1, <2>0 DEF projectEvent, RequiresMilestone
  <2>2. /\ ~missing(s, "offers", e.offer) /\ ~missing(s, "requests", e.milestone)
        /\ d.offer = e.offer /\ d.milestone = e.milestone
        /\ d.request_reopened = e.request_reopened
    BY <1>1, Reads, TableNames
  <2>. DEFINE freed == set(s, "offers", e.offer, [status |-> "Cancelled"], d)
              asked == update(freed, "requests", e.milestone, request, d)
              v == changed(t, "offers", e.offer, [status |-> "Cancelled"])
              w == changed(v, "requests", e.milestone, request)
  <2>3. acceptanceReleased(s, d) = updateMilestone(asked, d, round)
    BY <2>2 DEF acceptanceReleased, releasedStatus
  <2>. HIDE DEF request, round
  <2>4. Holds(freed, d, {"offers"}, v)
    BY <1>1, FirstWrites, TableNames
  <2>. HIDE DEF freed, v
  <2>5. Holds(asked, d, {"offers"} \cup {"requests"}, w)
    BY <1>1, <2>4, Writes, TableNames
  <2>. HIDE DEF asked, w
  <2>6. Holds(updateMilestone(asked, d, round), d,
              ({"offers"} \cup {"requests"}) \cup {"milestones"},
              changed(w, "milestones", d.milestone, round))
    BY <1>1, <2>2, <2>5, MilestoneUpdated
  <2>7. ({"offers"} \cup {"requests"}) \cup {"milestones"}
          = {"offers", "requests", "milestones"}
    OBVIOUS
  <2>. QED BY <2>1, <2>2, <2>3, <2>6, <2>7 DEF w, v, request, round
<1>. HIDE DEF u, fields
<1>2. {"offers", "requests", "milestones"} \in SUBSET DOMAIN Tables
  BY TableNames
<1>. QED BY <1>1, <1>2, AppliesIf DEF u, fields

LEMMA EvidenceApplies ==
  ASSUME NEW t, NEW e, e.milestone \in MilestoneId, t["milestones"][e.milestone] # NoRow,
         Carries(e, "evidence_submitted", {"milestone", "evidence_hash"})
  PROVE  Applies(t, e, upserted(
           changed(t, "milestones", e.milestone,
             [evidence_hash |-> e.evidence_hash, status |-> "Submitted"]),
           "anchors", e.milestone, [content_hash |-> e.evidence_hash, status |-> "Anchored"]))
<1>. DEFINE fields == {"milestone", "evidence_hash"}
            u == upserted(
           changed(t, "milestones", e.milestone,
             [evidence_hash |-> e.evidence_hash, status |-> "Submitted"]),
           "anchors", e.milestone, [content_hash |-> e.evidence_hash, status |-> "Anchored"])
            changes == [evidence_hash |-> e.evidence_hash, status |-> "Submitted"]
            row == [content_hash |-> e.evidence_hash, status |-> "Anchored"]
<1>1. ASSUME NEW s, NEW d, Holds(s, d, {}, t), d.id \in Nat, s.failed = FALSE,
             d.name = "evidence_submitted", \A x \in fields : d[x] = e[x]
      PROVE  Holds(projectEvent(s, d), d, {"milestones", "anchors"}, u)
  <2>0. ~missing(s, "milestones", e.milestone)
    BY <1>1, Reads, TableNames
  <2>1. projectEvent(s, d) = evidenceSubmitted(s, d)
    BY <1>1, <2>0 DEF projectEvent, RequiresMilestone
  <2>2. d.milestone = e.milestone /\ d.evidence_hash = e.evidence_hash
    BY <1>1
  <2>. DEFINE submitted == updateMilestone(s, d, changes)
              v == changed(t, "milestones", d.milestone, changes)
  <2>3. evidenceSubmitted(s, d) =
          IF missing(s, "anchors", d.milestone)
          THEN create(submitted, "anchors", d.milestone, row, d)
          ELSE update(submitted, "anchors", d.milestone, row, d)
    BY <2>2 DEF evidenceSubmitted
  <2>. HIDE DEF row, changes
  <2>4. Holds(submitted, d, {"milestones"}, v)
    BY <1>1, <2>2, MilestoneFirst
  <2>5. missing(s, "anchors", d.milestone) <=> v["anchors"][d.milestone] = NoRow
    <3>1. missing(s, "anchors", d.milestone) <=> t["anchors"][d.milestone] = NoRow
      BY <1>1, <2>2, Reads, TableNames
    <3>2. v["anchors"] = t["anchors"]
      BY <1>1, <2>2, PlacedFacts, TableNames DEF Holds, Going, changed
    <3>. QED BY <3>1, <3>2
  <2>. HIDE DEF submitted, v
  <2>6. Holds(IF missing(s, "anchors", d.milestone)
              THEN create(submitted, "anchors", d.milestone, row, d)
              ELSE update(submitted, "anchors", d.milestone, row, d),
              d, {"milestones"} \cup {"anchors"},
              upserted(v, "anchors", d.milestone, row))
    <3>1. /\ v["anchors"][d.milestone] = NoRow =>
               Holds(create(submitted, "anchors", d.milestone, row, d), d,
                     {"milestones"} \cup {"anchors"},
                     placed(v, "anchors", d.milestone, row))
          /\ Holds(update(submitted, "anchors", d.milestone, row, d), d,
                   {"milestones"} \cup {"anchors"},
                   changed(v, "anchors", d.milestone, row))
      BY <1>1, <2>2, <2>4, Writes, TableNames
    <3>. QED BY <2>5, <3>1 DEF upserted
  <2>7. {"milestones"} \cup {"anchors"} = {"milestones", "anchors"}
    OBVIOUS
  <2>. QED BY <2>1, <2>2, <2>3, <2>6, <2>7 DEF v, row, changes
<1>. HIDE DEF u, fields
<1>2. {"milestones", "anchors"} \in SUBSET DOMAIN Tables
  BY TableNames
<1>. QED BY <1>1, <1>2, AppliesIf DEF u, fields

LEMMA DisputeOpenedApplies ==
  ASSUME NEW t, NEW e, e.milestone \in MilestoneId, t["milestones"][e.milestone] # NoRow,
         e.dispute \in DisputeId, t["disputes"][e.dispute] = NoRow,
         Carries(e, "dispute_opened", {"milestone", "dispute"})
  PROVE  Applies(t, e, changed(
           placed(t, "disputes", e.dispute, [milestone |-> e.milestone, status |-> "Open"]),
           "milestones", e.milestone, [status |-> "Disputed"]))
<1>. DEFINE fields == {"milestone", "dispute"}
            u == changed(
           placed(t, "disputes", e.dispute, [milestone |-> e.milestone, status |-> "Open"]),
           "milestones", e.milestone, [status |-> "Disputed"])
            row == [milestone |-> e.milestone, status |-> "Open"]
<1>1. ASSUME NEW s, NEW d, Holds(s, d, {}, t), d.id \in Nat, s.failed = FALSE,
             d.name = "dispute_opened", \A x \in fields : d[x] = e[x]
      PROVE  Holds(projectEvent(s, d), d, {"disputes", "milestones"}, u)
  <2>0. ~missing(s, "milestones", e.milestone)
    BY <1>1, Reads, TableNames
  <2>1. projectEvent(s, d) = disputeOpened(s, d)
    BY <1>1, <2>0 DEF projectEvent, RequiresMilestone
  <2>2. d.dispute = e.dispute /\ d.milestone = e.milestone
    BY <1>1
  <2>. DEFINE opened == create(s, "disputes", e.dispute, row, d)
              v == placed(t, "disputes", e.dispute, row)
  <2>3. disputeOpened(s, d) = updateMilestone(opened, d, [status |-> "Disputed"])
    BY <2>2 DEF disputeOpened
  <2>. HIDE DEF row
  <2>4. Holds(opened, d, {"disputes"}, v)
    BY <1>1, FirstWrites, TableNames
  <2>. HIDE DEF opened, v
  <2>5. Holds(updateMilestone(opened, d, [status |-> "Disputed"]), d,
              {"disputes"} \cup {"milestones"},
              changed(v, "milestones", d.milestone, [status |-> "Disputed"]))
    BY <1>1, <2>2, <2>4, MilestoneUpdated
  <2>6. {"disputes"} \cup {"milestones"} = {"disputes", "milestones"}
    OBVIOUS
  <2>. QED BY <2>1, <2>2, <2>3, <2>5, <2>6 DEF v, row
<1>. HIDE DEF u, fields
<1>2. {"disputes", "milestones"} \in SUBSET DOMAIN Tables
  BY TableNames
<1>. QED BY <1>1, <1>2, AppliesIf DEF u, fields

LEMMA SettleDecidedApplies ==
  ASSUME NEW t, NEW e, e.dispute \in DisputeId, t["disputes"][e.dispute] # NoRow,
         NEW m \in MilestoneId, t["disputes"][e.dispute].milestone = m,
         t["milestones"][m] # NoRow, e.settled = TRUE,
         Carries(e, "dispute_resolved", {"dispute", "settled"})
  PROVE  Applies(t, e, changed(
           changed(t, "disputes", e.dispute, [status |-> "ResolvedSettle"]),
           "milestones", m, [status |-> "Verified"]))
<1>. DEFINE fields == {"dispute", "settled"}
            u == changed(
           changed(t, "disputes", e.dispute, [status |-> "ResolvedSettle"]),
           "milestones", m, [status |-> "Verified"])
<1>1. ASSUME NEW s, NEW d, Holds(s, d, {}, t), d.id \in Nat, s.failed = FALSE,
             d.name = "dispute_resolved", \A x \in fields : d[x] = e[x]
      PROVE  Holds(projectEvent(s, d), d, {"disputes", "milestones"}, u)
  <2>1. projectEvent(s, d) = disputeResolved(s, d)
    BY <1>1 DEF projectEvent, RequiresMilestone
  <2>2. /\ ~missing(s, "disputes", e.dispute) /\ ~missing(s, "milestones", m)
        /\ isNewer(s, "disputes", e.dispute, d)
    BY <1>1, Reads, TableNames
  <2>3. /\ d.dispute = e.dispute /\ d.settled = e.settled
        /\ s.tables.disputes[e.dispute].milestone = m
    BY <1>1 DEF Holds
  <2>. DEFINE decided == set(s, "disputes", e.dispute, [status |-> "ResolvedSettle"], d)
              v == changed(t, "disputes", e.dispute, [status |-> "ResolvedSettle"])
  <2>4. disputeResolved(s, d) = update(decided, "milestones", m, [status |-> "Verified"], d)
    BY <2>2, <2>3 DEF disputeResolved
  <2>5. Holds(decided, d, {"disputes"}, v)
    BY <1>1, FirstWrites, TableNames
  <2>. HIDE DEF decided, v
  <2>6. Holds(update(decided, "milestones", m, [status |-> "Verified"], d), d,
              {"disputes"} \cup {"milestones"},
              changed(v, "milestones", m, [status |-> "Verified"]))
    BY <1>1, <2>5, Writes, TableNames
  <2>7. {"disputes"} \cup {"milestones"} = {"disputes", "milestones"}
    OBVIOUS
  <2>. QED BY <2>1, <2>4, <2>6, <2>7 DEF v
<1>. HIDE DEF u, fields
<1>2. {"disputes", "milestones"} \in SUBSET DOMAIN Tables
  BY TableNames
<1>. QED BY <1>1, <1>2, AppliesIf DEF u, fields

LEMMA RefundDecidedApplies ==
  ASSUME NEW t, NEW e, e.dispute \in DisputeId, t["disputes"][e.dispute] # NoRow,
         NEW m \in MilestoneId, t["disputes"][e.dispute].milestone = m,
         t["milestones"][m] # NoRow, e.settled = FALSE,
         Carries(e, "dispute_resolved", {"dispute", "settled"})
  PROVE  Applies(t, e, changed(t, "disputes", e.dispute, [status |-> "ResolvedRefund"]))
<1>. DEFINE fields == {"dispute", "settled"}
            u == changed(t, "disputes", e.dispute, [status |-> "ResolvedRefund"])
<1>1. ASSUME NEW s, NEW d, Holds(s, d, {}, t), d.id \in Nat, s.failed = FALSE,
             d.name = "dispute_resolved", \A x \in fields : d[x] = e[x]
      PROVE  Holds(projectEvent(s, d), d, {"disputes"}, u)
  <2>1. projectEvent(s, d) = disputeResolved(s, d)
    BY <1>1 DEF projectEvent, RequiresMilestone
  <2>2. /\ ~missing(s, "disputes", e.dispute) /\ ~missing(s, "milestones", m)
        /\ isNewer(s, "disputes", e.dispute, d)
    BY <1>1, Reads, TableNames
  <2>3. /\ d.dispute = e.dispute /\ d.settled = e.settled
        /\ s.tables.disputes[e.dispute].milestone = m
    BY <1>1 DEF Holds
  <2>4. disputeResolved(s, d) = set(s, "disputes", e.dispute, [status |-> "ResolvedRefund"], d)
    BY <2>2, <2>3 DEF disputeResolved
  <2>. QED BY <1>1, <2>1, <2>4, FirstWrites, TableNames
<1>. HIDE DEF u, fields
<1>2. {"disputes"} \in SUBSET DOMAIN Tables
  BY TableNames
<1>. QED BY <1>1, <1>2, AppliesIf DEF u, fields

\* Ending the positions of a set, one at a time.
IsEnding(g, S, s, changes, e) ==
  g = [x \in SUBSET S |->
         IF x = {} THEN s
         ELSE set(g[x \ {CHOOSE y \in x : TRUE}], "positions", CHOOSE y \in x : TRUE, changes, e)]

ending(S, s, changes, e) == (CHOOSE g : IsEnding(g, S, s, changes, e))[S]

LEMMA EndUnfold ==
  ASSUME NEW s, NEW m, NEW status, NEW e
  PROVE  endPositions(s, m, status, e) = ending(activePositions(s, m), s, [status |-> status], e)
BY DEF endPositions, FoldSet, MapThenFoldSet, IsEnding, ending

LEMMA EndsNone ==
  ASSUME NEW s, NEW changes, NEW e
  PROVE  ending({}, s, changes, e) = s
<1>. DEFINE g == [x \in SUBSET {} |-> s]
<1>1. IsEnding(g, {}, s, changes, e)
  BY DEF IsEnding
<1>. DEFINE h == CHOOSE f : IsEnding(f, {}, s, changes, e)
<1>2. IsEnding(h, {}, s, changes, e)
  BY <1>1
<1>. HIDE DEF h
<1>3. h[{}] = s
  BY <1>2 DEF IsEnding
<1>. QED BY <1>3 DEF h, ending

LEMMA EndsOne ==
  ASSUME NEW s, NEW changes, NEW e, NEW f
  PROVE  ending({f}, s, changes, e) = set(s, "positions", f, changes, e)
<1>. DEFINE g == [x \in SUBSET {f} |->
               IF x = {} THEN s ELSE set(s, "positions", f, changes, e)]
<1>0. ASSUME NEW x \in SUBSET {f}, x # {}
      PROVE  x = {f} /\ (CHOOSE y \in x : TRUE) = f /\ x \ {CHOOSE y \in x : TRUE} = {}
  BY <1>0
<1>1. IsEnding(g, {f}, s, changes, e)
  <2>1. \A x \in SUBSET {f} : g[x] =
          IF x = {} THEN s
          ELSE set(g[x \ {CHOOSE y \in x : TRUE}], "positions", CHOOSE y \in x : TRUE, changes, e)
    <3>1. g[{}] = s
      OBVIOUS
    <3>2. \A x \in SUBSET {f} : x # {} => g[x] = set(s, "positions", f, changes, e)
      OBVIOUS
    <3>. HIDE DEF g
    <3>. QED BY <3>1, <3>2, <1>0
  <2>2. g = [x \in SUBSET {f} |-> g[x]]
    OBVIOUS
  <2>. HIDE DEF g
  <2>. QED BY <2>1, <2>2 DEF IsEnding
<1>. DEFINE h == CHOOSE a : IsEnding(a, {f}, s, changes, e)
<1>2. IsEnding(h, {f}, s, changes, e)
  <2>. HIDE DEF g
  <2>. QED BY <1>1
<1>. HIDE DEF h, g
<1>3. \A x \in SUBSET {f} : h[x] =
        IF x = {} THEN s
        ELSE set(h[x \ {CHOOSE y \in x : TRUE}], "positions", CHOOSE y \in x : TRUE, changes, e)
  BY <1>2 DEF IsEnding
<1>4. h[{}] = s
  BY <1>3
<1>5. h[{f}] = set(s, "positions", f, changes, e)
  <2>1. (CHOOSE y \in {f} : TRUE) = f /\ {f} \ {f} = {} /\ {f} # {}
    OBVIOUS
  <2>. QED BY <1>3, <1>4, <2>1
<1>. QED BY <1>5 DEF h, ending

\* The active positions of a milestone, in tables.
ActiveRows(t, m) ==
  {f \in OfferId : /\ t["positions"][f] # NoRow
                   /\ t["positions"][f].milestone = m /\ t["positions"][f].status = "Active"}

LEMMA ActiveHeld ==
  ASSUME NEW s, NEW e, NEW done, NEW t, Holds(s, e, done, t), NEW m
  PROVE  activePositions(s, m) = ActiveRows(t, m)
BY TableNames DEF Holds, activePositions, ActiveRows, rowsOf

\* What a payout does to the milestone and to the positions on it.
ended(t, table, m, row, status) ==
  changed(placed(t, table, m, row), "milestones", m, [status |-> status, funded_amount |-> 0])

LEMMA EndedFacts ==
  ASSUME NEW t, Shaped(t), NEW table \in {"settlements", "refunds"}, NEW m \in MilestoneId,
         NEW row, NEW status
  PROVE  /\ Shaped(ended(t, table, m, row, status))
         /\ ended(t, table, m, row, status)["positions"] = t["positions"]
<1>. DEFINE v == placed(t, table, m, row)
<1>1. Shaped(v) /\ v["positions"] = t["positions"]
  BY PlacedFacts, TableNames
<1>. HIDE DEF v
<1>. QED BY <1>1, PlacedFacts, TableNames DEF ended, changed, v

LEMMA PayoutHeld ==
  ASSUME NEW s, NEW d, NEW t, Holds(s, d, {}, t), d.id \in Nat,
         NEW table \in {"settlements", "refunds"}, NEW m \in MilestoneId, d.milestone = m,
         t[table][m] = NoRow, NEW row, NEW status
  PROVE  LET after == updateMilestone(create(s, table, m, row, d), d,
                                      [status |-> status, funded_amount |-> 0])
         IN  Holds(after, d, {table, "milestones"}, ended(t, table, m, row, status))
<1>. DEFINE paid == create(s, table, m, row, d)
            v == placed(t, table, m, row)
<1>1. Holds(paid, d, {table}, v)
  BY FirstWrites, TableNames
<1>. HIDE DEF paid, v
<1>2. Holds(updateMilestone(paid, d, [status |-> status, funded_amount |-> 0]), d,
            {table} \cup {"milestones"},
            changed(v, "milestones", d.milestone, [status |-> status, funded_amount |-> 0]))
  BY <1>1, MilestoneUpdated
<1>3. {table} \cup {"milestones"} = {table, "milestones"}
  OBVIOUS
<1>. QED BY <1>2, <1>3 DEF paid, v, ended

LEMMA SettledApplies ==
  ASSUME NEW t, NEW e, NEW m \in MilestoneId, e.milestone = m, t["milestones"][m] # NoRow,
         t["settlements"][m] = NoRow, Shaped(t),
         Carries(e, "milestone_settled", {"milestone", "order", "protected_amount",
                   "funder_repayment", "supplier_payout", "ledger"}),
         NEW row, row = [protected_amount |-> e.protected_amount,
                         funder_repayment |-> e.funder_repayment,
                         supplier_payout |-> e.supplier_payout, order |-> e.order,
                         at |-> e.ledger]
  PROVE  LET v == ended(t, "settlements", m, row, "Settled") IN
         /\ e.funder_repayment = 0 => Applies(t, e, v)
         /\ \A f \in OfferId : e.funder_repayment # 0 /\ ActiveRows(t, m) = {f} =>
              Applies(t, e, changed(v, "positions", f, [status |-> "Repaid"]))
<1>. DEFINE v == ended(t, "settlements", m, row, "Settled")
            fields == {"milestone", "order", "protected_amount", "funder_repayment",
                       "supplier_payout", "ledger"}
            settled(s, d) == updateMilestone(create(s, "settlements", m, row, d), d,
                                             [status |-> "Settled", funded_amount |-> 0])
<1>1. ASSUME NEW s, NEW d, Holds(s, d, {}, t), d.id \in Nat, s.failed = FALSE,
             d.name = "milestone_settled", \A x \in fields : d[x] = e[x]
      PROVE  /\ projectEvent(s, d) =
                  IF e.funder_repayment = 0 THEN settled(s, d)
                  ELSE IF Cardinality(activePositions(settled(s, d), m)) # 1 THEN fail(s)
                  ELSE endPositions(settled(s, d), m, "Repaid", d)
             /\ Holds(settled(s, d), d, {"settlements", "milestones"}, v)
             /\ activePositions(settled(s, d), m) = ActiveRows(t, m)
  <2>0. ~missing(s, "milestones", m) /\ d.milestone = m
    BY <1>1, Reads, TableNames
  <2>1. projectEvent(s, d) = milestoneSettled(s, d)
    BY <1>1, <2>0 DEF projectEvent, RequiresMilestone
  <2>2. milestoneSettled(s, d) =
          IF e.funder_repayment = 0 THEN settled(s, d)
          ELSE IF Cardinality(activePositions(settled(s, d), m)) # 1 THEN fail(s)
          ELSE endPositions(settled(s, d), m, "Repaid", d)
    BY <1>1, <2>0 DEF milestoneSettled, escrowLeft
  <2>3. Holds(settled(s, d), d, {"settlements", "milestones"}, v)
    BY <1>1, <2>0, PayoutHeld
  <2>4. activePositions(settled(s, d), m) = ActiveRows(v, m)
    <3>. HIDE DEF settled, v
    <3>. QED BY <2>3, ActiveHeld
  <2>5. ActiveRows(v, m) = ActiveRows(t, m)
    <3>1. v["positions"] = t["positions"]
      BY EndedFacts
    <3>. HIDE DEF v
    <3>. QED BY <3>1 DEF ActiveRows
  <2>. HIDE DEF settled, v
  <2>. QED BY <2>1, <2>2, <2>3, <2>4, <2>5
<1>. HIDE DEF settled, v
<1>2. ASSUME e.funder_repayment = 0 PROVE Applies(t, e, v)
  <2>1. \A s, d : /\ Holds(s, d, {}, t) /\ d.id \in Nat /\ s.failed = FALSE
                  /\ d.name = "milestone_settled" /\ \A x \in fields : d[x] = e[x]
                  => Holds(projectEvent(s, d), d, {"settlements", "milestones"}, v)
    BY <1>1, <1>2
  <2>2. {"settlements", "milestones"} \in SUBSET DOMAIN Tables
    BY TableNames
  <2>. QED BY <2>1, <2>2, AppliesIf
<1>3. ASSUME NEW f \in OfferId, e.funder_repayment # 0, ActiveRows(t, m) = {f}
      PROVE  Applies(t, e, changed(v, "positions", f, [status |-> "Repaid"]))
  <2>1. ASSUME NEW s, NEW d, Holds(s, d, {}, t), d.id \in Nat, s.failed = FALSE,
               d.name = "milestone_settled", \A x \in fields : d[x] = e[x]
        PROVE  Holds(projectEvent(s, d), d, {"settlements", "milestones", "positions"},
                     changed(v, "positions", f, [status |-> "Repaid"]))
    <3>1. Cardinality({f}) = 1
      BY FS_Singleton
    <3>2. projectEvent(s, d) = set(settled(s, d), "positions", f, [status |-> "Repaid"], d)
      <4>. DEFINE a == settled(s, d)
                  S == activePositions(a, m)
      <4>1. S = {f} /\ projectEvent(s, d) = endPositions(a, m, "Repaid", d)
        BY <1>1, <1>3, <2>1, <3>1
      <4>2. endPositions(a, m, "Repaid", d) = ending(S, a, [status |-> "Repaid"], d)
        BY EndUnfold
      <4>3. ending({f}, a, [status |-> "Repaid"], d) = set(a, "positions", f, [status |-> "Repaid"], d)
        BY EndsOne
      <4>. HIDE DEF a, S
      <4>4. projectEvent(s, d) = set(a, "positions", f, [status |-> "Repaid"], d)
        BY <4>1, <4>2, <4>3
      <4>. QED BY <4>4 DEF a
    <3>3. Holds(settled(s, d), d, {"settlements", "milestones"}, v)
      BY <1>1, <2>1
    <3>4. Holds(set(settled(s, d), "positions", f, [status |-> "Repaid"], d), d,
                {"settlements", "milestones"} \cup {"positions"},
                changed(v, "positions", f, [status |-> "Repaid"]))
      BY <2>1, <3>3, Writes, TableNames
    <3>5. {"settlements", "milestones"} \cup {"positions"}
            = {"settlements", "milestones", "positions"}
      OBVIOUS
    <3>. QED BY <3>2, <3>4, <3>5
  <2>2. {"settlements", "milestones", "positions"} \in SUBSET DOMAIN Tables
    BY TableNames
  <2>. QED BY <2>1, <2>2, AppliesIf
<1>. QED BY <1>2, <1>3 DEF v

LEMMA RefundedApplies ==
  ASSUME NEW t, NEW e, NEW m \in MilestoneId, e.milestone = m, t["milestones"][m] # NoRow,
         t["refunds"][m] = NoRow, Shaped(t),
         Carries(e, "milestone_refunded", {"milestone", "order", "refunded_amount",
                   "funder_advance_outstanding", "ledger"}),
         NEW row, row = [refunded_amount |-> e.refunded_amount, order |-> e.order,
                         at |-> e.ledger]
  PROVE  LET v == ended(t, "refunds", m, row, "Refunded") IN
         /\ ~(e.funder_advance_outstanding > 0) /\ ActiveRows(t, m) = {} => Applies(t, e, v)
         /\ \A f \in OfferId : e.funder_advance_outstanding > 0 /\ ActiveRows(t, m) = {f} =>
              Applies(t, e, changed(v, "positions", f, [status |-> "Closed"]))
<1>. DEFINE v == ended(t, "refunds", m, row, "Refunded")
            fields == {"milestone", "order", "refunded_amount", "funder_advance_outstanding",
                       "ledger"}
            refunded(s, d) == updateMilestone(create(s, "refunds", m, row, d), d,
                                              [status |-> "Refunded", funded_amount |-> 0])
<1>1. ASSUME NEW s, NEW d, Holds(s, d, {}, t), d.id \in Nat, s.failed = FALSE,
             d.name = "milestone_refunded", \A x \in fields : d[x] = e[x]
      PROVE  /\ projectEvent(s, d) =
                  IF Cardinality(activePositions(refunded(s, d), m)) # expectedClosed(e)
                  THEN fail(s) ELSE endPositions(refunded(s, d), m, "Closed", d)
             /\ Holds(refunded(s, d), d, {"refunds", "milestones"}, v)
             /\ activePositions(refunded(s, d), m) = ActiveRows(t, m)
  <2>0. ~missing(s, "milestones", m) /\ d.milestone = m
    BY <1>1, Reads, TableNames
  <2>1. projectEvent(s, d) = milestoneRefunded(s, d)
    BY <1>1, <2>0 DEF projectEvent, RequiresMilestone
  <2>2. milestoneRefunded(s, d) =
          IF Cardinality(activePositions(refunded(s, d), m)) # expectedClosed(e)
          THEN fail(s) ELSE endPositions(refunded(s, d), m, "Closed", d)
    <3>1. expectedClosed(d) = expectedClosed(e)
      BY <1>1 DEF expectedClosed
    <3>. QED BY <1>1, <2>0, <3>1 DEF milestoneRefunded, escrowLeft
  <2>3. Holds(refunded(s, d), d, {"refunds", "milestones"}, v)
    BY <1>1, <2>0, PayoutHeld
  <2>4. activePositions(refunded(s, d), m) = ActiveRows(v, m)
    <3>. HIDE DEF refunded, v
    <3>. QED BY <2>3, ActiveHeld
  <2>5. ActiveRows(v, m) = ActiveRows(t, m)
    <3>1. v["positions"] = t["positions"]
      BY EndedFacts
    <3>. HIDE DEF v
    <3>. QED BY <3>1 DEF ActiveRows
  <2>. HIDE DEF refunded, v
  <2>. QED BY <2>1, <2>2, <2>3, <2>4, <2>5
<1>. HIDE DEF refunded, v
<1>2. ASSUME ~(e.funder_advance_outstanding > 0), ActiveRows(t, m) = {} PROVE Applies(t, e, v)
  <2>1. ASSUME NEW s, NEW d, Holds(s, d, {}, t), d.id \in Nat, s.failed = FALSE,
               d.name = "milestone_refunded", \A x \in fields : d[x] = e[x]
        PROVE  Holds(projectEvent(s, d), d, {"refunds", "milestones"}, v)
    <3>1. Cardinality({}) = 0 /\ expectedClosed(e) = 0
      BY <1>2, FS_EmptySet DEF expectedClosed
    <3>2. projectEvent(s, d) = refunded(s, d)
      <4>. DEFINE a == refunded(s, d)
                  S == activePositions(a, m)
      <4>1. S = {} /\ projectEvent(s, d) = endPositions(a, m, "Closed", d)
        BY <1>1, <1>2, <2>1, <3>1
      <4>2. endPositions(a, m, "Closed", d) = ending(S, a, [status |-> "Closed"], d)
        BY EndUnfold
      <4>3. ending({}, a, [status |-> "Closed"], d) = a
        BY EndsNone
      <4>. HIDE DEF a, S
      <4>4. projectEvent(s, d) = a
        BY <4>1, <4>2, <4>3
      <4>. QED BY <4>4 DEF a
    <3>. QED BY <1>1, <2>1, <3>2
  <2>2. {"refunds", "milestones"} \in SUBSET DOMAIN Tables
    BY TableNames
  <2>. QED BY <2>1, <2>2, AppliesIf
<1>3. ASSUME NEW f \in OfferId, e.funder_advance_outstanding > 0, ActiveRows(t, m) = {f}
      PROVE  Applies(t, e, changed(v, "positions", f, [status |-> "Closed"]))
  <2>1. ASSUME NEW s, NEW d, Holds(s, d, {}, t), d.id \in Nat, s.failed = FALSE,
               d.name = "milestone_refunded", \A x \in fields : d[x] = e[x]
        PROVE  Holds(projectEvent(s, d), d, {"refunds", "milestones", "positions"},
                     changed(v, "positions", f, [status |-> "Closed"]))
    <3>1. Cardinality({f}) = 1 /\ expectedClosed(e) = 1
      BY <1>3, FS_Singleton DEF expectedClosed
    <3>2. projectEvent(s, d) = set(refunded(s, d), "positions", f, [status |-> "Closed"], d)
      <4>. DEFINE a == refunded(s, d)
                  S == activePositions(a, m)
      <4>1. S = {f} /\ projectEvent(s, d) = endPositions(a, m, "Closed", d)
        BY <1>1, <1>3, <2>1, <3>1
      <4>2. endPositions(a, m, "Closed", d) = ending(S, a, [status |-> "Closed"], d)
        BY EndUnfold
      <4>3. ending({f}, a, [status |-> "Closed"], d) = set(a, "positions", f, [status |-> "Closed"], d)
        BY EndsOne
      <4>. HIDE DEF a, S
      <4>4. projectEvent(s, d) = set(a, "positions", f, [status |-> "Closed"], d)
        BY <4>1, <4>2, <4>3
      <4>. QED BY <4>4 DEF a
    <3>3. Holds(refunded(s, d), d, {"refunds", "milestones"}, v)
      BY <1>1, <2>1
    <3>4. Holds(set(refunded(s, d), "positions", f, [status |-> "Closed"], d), d,
                {"refunds", "milestones"} \cup {"positions"},
                changed(v, "positions", f, [status |-> "Closed"]))
      BY <2>1, <3>3, Writes, TableNames
    <3>5. {"refunds", "milestones"} \cup {"positions"} = {"refunds", "milestones", "positions"}
      OBVIOUS
    <3>. QED BY <3>2, <3>4, <3>5
  <2>2. {"refunds", "milestones", "positions"} \in SUBSET DOMAIN Tables
    BY TableNames
  <2>. QED BY <2>1, <2>2, AppliesIf
<1>. QED BY <1>2, <1>3 DEF v

-----------------------------------------------------------------------------
(* Tables that say what the contract says                                   *)

\* A row says of the fields, and of the status, what the entry does.
Says(row, entry, fields) ==
  fields \cup {"status"} \subseteq DOMAIN row /\ \A x \in fields \cup {"status"} : row[x] = entry[x]
Same(rows, entries, fields, keys) ==
  \A k \in keys :
    IF entries[k].status = "Absent" THEN rows[k] = NoRow ELSE Says(rows[k], entries[k], fields)

OrderFields == {"buyer", "supplier", "attestor", "resolver", "asset"}
MilestoneFields == {"order_id", "amount", "funded_amount", "evidence_hash"}
RequestFields == {"requested_principal", "expires_at"}
PositionFields == {"funder", "principal", "repayment"}

\* An order's row keeps the time it was created.
OrdersTimed(t) ==
  \A o \in OrderId : t["orders"][o] # NoRow =>
    "at" \in DOMAIN t["orders"][o] /\ t["orders"][o].at \in 0..now

\* One row for every offer ever made; that of a selected offer follows the selection.
OffersPlaced(t) ==
  /\ \A f \in OfferId :
       LET row == t["offers"][f] IN
       /\ row = NoRow <=> f > offer_count
       /\ row # NoRow => "milestone" \in DOMAIN row
       /\ offers[f].status # "Absent" => row.milestone = offers[f].milestone_id
       /\ offers[f].status = "Open" => row.status = "Open"
  /\ \A m \in MilestoneId : accepted[m].status # "Absent" =>
       LET f == accepted[m].id IN
       /\ f \in OfferId /\ f <= offer_count
       /\ t["offers"][f].milestone = m /\ t["offers"][f].status = accepted[m].status

\* It says what the offer and the selection say, as long as they are stored, and
\* that it is accepted of the selected offer only.
OfferFields == {"funder", "principal", "repayment", "expires_at"}
TermsMirrored(t) ==
  /\ \A f \in OfferId :
       LET row == t["offers"][f] IN
       row # NoRow =>
         /\ OfferFields \cup {"milestone", "status"} \subseteq DOMAIN row
         /\ row.milestone \in MilestoneId
         /\ offers[f].status # "Absent" => \A x \in OfferFields : row[x] = offers[f][x]
         /\ row.status = "Accepted" =>
              accepted[row.milestone].status = "Accepted" /\ accepted[row.milestone].id = f
  /\ \A m \in MilestoneId : accepted[m].status # "Absent" =>
       \A x \in OfferFields : t["offers"][accepted[m].id][x] = accepted[m][x]

OffersMirrored(t) == OffersPlaced(t) /\ TermsMirrored(t)

\* One row for every advance, and no other.
PositionsMirrored(t) ==
  /\ \A f \in OfferId :
       LET row == t["positions"][f] IN
       row # NoRow => /\ row.milestone \in MilestoneId
                      /\ positions[row.milestone].status # "Absent"
                      /\ positions[row.milestone].offer_id = f
  /\ \A m \in MilestoneId : positions[m].status # "Absent" =>
       LET f == positions[m].offer_id IN
       /\ f \in OfferId /\ "milestone" \in DOMAIN t["positions"][f]
       /\ t["positions"][f].milestone = m /\ Says(t["positions"][f], positions[m], PositionFields)

DisputesMirrored(t) ==
  /\ Same(t["disputes"], disputes, {}, DisputeId)
  /\ \A d \in DisputeId : disputes[d].status # "Absent" =>
       /\ "milestone" \in DOMAIN t["disputes"][d]
       /\ t["disputes"][d].milestone = disputes[d].milestone_id

AnchorsMirrored(t) ==
  \A m \in MilestoneId : milestones[m].evidence_hash # NoDigest =>
    /\ "content_hash" \in DOMAIN t["anchors"][m]
    /\ t["anchors"][m].content_hash = milestones[m].evidence_hash

\* One payout row for every milestone that ended, of its kind and its order, and not
\* earlier than the order.
PayoutsMirrored(t) ==
  \A m \in MilestoneId :
    /\ t["settlements"][m] # NoRow <=> milestones[m].status = "Settled"
    /\ t["refunds"][m] # NoRow <=> milestones[m].status = "Refunded"
    /\ \A table \in {"settlements", "refunds"} : t[table][m] # NoRow =>
         /\ t[table][m].order = milestones[m].order_id
         /\ t[table][m].at \in t["orders"][milestones[m].order_id].at .. now

Mirror(t) ==
  /\ Shaped(t)
  /\ Same(t["orders"], orders, OrderFields, OrderId) /\ OrdersTimed(t)
  /\ Same(t["milestones"], milestones, MilestoneFields, MilestoneId)
  /\ Same(t["requests"], requests, RequestFields, MilestoneId)
  /\ OffersMirrored(t) /\ PositionsMirrored(t) /\ DisputesMirrored(t)
  /\ AnchorsMirrored(t) /\ PayoutsMirrored(t)

LEMMA SaysJoined ==
  ASSUME NEW row, NEW entry, NEW fields, Says(row, entry, fields), NEW changes, NEW later,
         \A x \in fields \cup {"status"} :
           later[x] = IF x \in DOMAIN changes THEN changes[x] ELSE entry[x]
  PROVE  Says(joined(changes, row), later, fields)
<1>. DEFINE j == joined(changes, row)
<1>1. /\ DOMAIN j = DOMAIN changes \cup DOMAIN row
      /\ \A x \in DOMAIN changes : j[x] = changes[x]
      /\ \A x \in DOMAIN row \ DOMAIN changes : j[x] = row[x]
  BY ONLY JoinedFacts
<1>. HIDE DEF j
<1>2. \A x \in fields \cup {"status"} : x \in DOMAIN j /\ j[x] = later[x]
  BY <1>1 DEF Says
<1>. QED BY <1>2 DEF Says, j

\* One entry and its row are rewritten.
LEMMA SameRewritten ==
  ASSUME NEW rows, NEW entries, NEW fields, NEW keys, Same(rows, entries, fields, keys),
         NEW after, NEW later, NEW k \in keys,
         \A j \in keys \ {k} : after[j] = rows[j] /\ later[j] = entries[j],
         later[k].status # "Absent", Says(after[k], later[k], fields)
  PROVE  Same(after, later, fields, keys)
BY DEF Same

\* An entry that is there changes some of its fields, and so does its row.
LEMMA SameChanged ==
  ASSUME NEW rows, NEW entries, NEW fields, NEW keys, Same(rows, entries, fields, keys),
         NEW after, NEW later, NEW k \in keys, NEW changes,
         \A j \in keys \ {k} : after[j] = rows[j] /\ later[j] = entries[j],
         entries[k].status # "Absent", later[k].status # "Absent",
         after[k] = joined(changes, rows[k]),
         \A x \in fields \cup {"status"} :
           later[k][x] = IF x \in DOMAIN changes THEN changes[x] ELSE entries[k][x]
  PROVE  Same(after, later, fields, keys)
<1>1. Says(rows[k], entries[k], fields)
  BY DEF Same
<1>2. Says(after[k], later[k], fields)
  BY <1>1, SaysJoined
<1>. QED BY <1>2, SameRewritten

\* A row is there exactly when its entry is.
LEMMA RowsThere ==
  ASSUME NEW t, ContractInv, Mirror(t)
  PROVE  /\ \A o \in OrderId : t["orders"][o] = NoRow <=> orders[o].status = "Absent"
         /\ \A m \in MilestoneId : t["milestones"][m] = NoRow <=> milestones[m].status = "Absent"
         /\ \A m \in MilestoneId : t["requests"][m] = NoRow <=> requests[m].status = "Absent"
         /\ \A d \in DisputeId : t["disputes"][d] = NoRow <=> disputes[d].status = "Absent"
<1>1. /\ \A o \in OrderId : orders[o].status # "none"
      /\ \A m \in MilestoneId : milestones[m].status # "none" /\ requests[m].status # "none"
      /\ \A d \in DisputeId : disputes[d].status # "none"
  <2>1. /\ \A o \in OrderId : orders[o] \in OrderRecord
        /\ \A m \in MilestoneId : milestones[m] \in MilestoneRecord /\ requests[m] \in RequestRecord
        /\ \A d \in DisputeId : disputes[d] \in DisputeRecord
    BY DEF ContractInv, TypeOK
  <2>2. "none" \notin OrderStatus /\ "none" \notin MilestoneStatus
    BY DEF OrderStatus, MilestoneStatus, Protected, Terminal
  <2>. QED BY <2>1, <2>2 DEF OrderRecord, MilestoneRecord, RequestRecord, DisputeRecord
<1>. QED BY <1>1 DEF Mirror, DisputesMirrored, Same, Says, NoRow

\* Rows of orders keep their times.
OrdersKept(t, v) ==
  \A o \in OrderId : t["orders"][o] # NoRow =>
    /\ v["orders"][o] # NoRow /\ "at" \in DOMAIN v["orders"][o]
    /\ v["orders"][o].at = t["orders"][o].at

\* No milestone ends, or changes its order.
NoneEnds ==
  \A m \in MilestoneId :
    /\ milestones'[m].status = "Settled" <=> milestones[m].status = "Settled"
    /\ milestones'[m].status = "Refunded" <=> milestones[m].status = "Refunded"
    /\ milestones[m].status \in Terminal => milestones'[m].order_id = milestones[m].order_id

\* The tables, and the parts of the contract, that a step leaves alone.
LEMMA OrderRowsAside ==
  ASSUME NEW t, Mirror(t), NEW v, v["orders"] = t["orders"], UNCHANGED <<orders, now>>
  PROVE  /\ Same(v["orders"], orders', OrderFields, OrderId) /\ OrdersTimed(v)'
         /\ OrdersKept(t, v)
BY DEF Mirror, OrdersTimed, OrdersKept

LEMMA MilestoneRowsAside ==
  ASSUME NEW t, Mirror(t), NEW v, v["milestones"] = t["milestones"], UNCHANGED milestones
  PROVE  Same(v["milestones"], milestones', MilestoneFields, MilestoneId)
BY DEF Mirror

LEMMA RequestRowsAside ==
  ASSUME NEW t, Mirror(t), NEW v, v["requests"] = t["requests"], UNCHANGED requests
  PROVE  Same(v["requests"], requests', RequestFields, MilestoneId)
BY DEF Mirror

LEMMA OfferRowsAside ==
  ASSUME NEW t, Mirror(t), NEW v, v["offers"] = t["offers"],
         UNCHANGED <<offers, offer_count, accepted>>
  PROVE  OffersMirrored(v)'
BY DEF Mirror, OffersMirrored, OffersPlaced, TermsMirrored

LEMMA PositionRowsAside ==
  ASSUME NEW t, Mirror(t), NEW v, v["positions"] = t["positions"], UNCHANGED positions
  PROVE  PositionsMirrored(v)'
BY DEF Mirror, PositionsMirrored

LEMMA DisputeRowsAside ==
  ASSUME NEW t, Mirror(t), NEW v, v["disputes"] = t["disputes"], UNCHANGED disputes
  PROVE  DisputesMirrored(v)'
BY DEF Mirror, DisputesMirrored

LEMMA AnchorRowsAside ==
  ASSUME NEW t, Mirror(t), NEW v, v["anchors"] = t["anchors"],
         \A m \in MilestoneId : milestones'[m].evidence_hash # NoDigest =>
           milestones'[m].evidence_hash = milestones[m].evidence_hash
  PROVE  AnchorsMirrored(v)'
BY DEF Mirror, AnchorsMirrored

LEMMA PayoutRowsAside ==
  ASSUME ContractInv, NEW t, Mirror(t), NEW v, v["settlements"] = t["settlements"],
         v["refunds"] = t["refunds"], OrdersKept(t, v), NoneEnds, now' = now
  PROVE  PayoutsMirrored(v)'
<1>1. ASSUME NEW m \in MilestoneId, NEW table \in {"settlements", "refunds"},
             v[table][m] # NoRow
      PROVE  /\ v[table][m].order = milestones'[m].order_id
             /\ v[table][m].at \in v["orders"][milestones'[m].order_id].at .. now
  <2>1. v[table] = t[table]
    BY <1>1
  <2>2. milestones[m].status \in Terminal /\ t[table][m] # NoRow
    BY <1>1, <2>1 DEF Mirror, PayoutsMirrored, Terminal
  <2>3. milestones'[m].order_id = milestones[m].order_id
    BY <2>2 DEF NoneEnds
  <2>4. milestones[m].order_id \in OrderId /\ orders[milestones[m].order_id].status # "Absent"
    BY <2>2 DEF ContractInv, Registered, order_of, Terminal
  <2>5. v["orders"][milestones[m].order_id].at = t["orders"][milestones[m].order_id].at
    BY <2>4, RowsThere DEF OrdersKept
  <2>. QED BY <2>1, <2>2, <2>3, <2>5 DEF Mirror, PayoutsMirrored
<1>. QED BY <1>1 DEF Mirror, PayoutsMirrored, NoneEnds

\* The parts make the whole.
LEMMA MirrorParts ==
  ASSUME NEW v, Shaped(v),
         Same(v["orders"], orders', OrderFields, OrderId), OrdersTimed(v)',
         Same(v["milestones"], milestones', MilestoneFields, MilestoneId),
         Same(v["requests"], requests', RequestFields, MilestoneId),
         OffersMirrored(v)', PositionsMirrored(v)', DisputesMirrored(v)',
         AnchorsMirrored(v)', PayoutsMirrored(v)'
  PROVE  Mirror(v)'
<1>1. /\ Same(v["orders"], orders, OrderFields, OrderId)'
      /\ Same(v["milestones"], milestones, MilestoneFields, MilestoneId)'
      /\ Same(v["requests"], requests, RequestFields, MilestoneId)'
  BY DEF Same
<1>. QED BY <1>1 DEF Mirror

-----------------------------------------------------------------------------
(* What an invocation does to the contract, its event does to the tables    *)

Followed == \E u : Follows(u) /\ Mirror(u)

LEMMA OneEvent ==
  ASSUME NEW u, Follows(u), UNCHANGED <<tables, now>>, NEW e, Plain(e), publish(<<e>>),
         NEW v, Applies(u, stamped(e, 1), v), Mirror(v)'
  PROVE  Followed'
<1>1. Follows(v)'
  BY PublishOne
<1>. QED BY <1>1 DEF Followed

\* Fields that the log does not add itself.
Clean(fields) == DOMAIN fields \cap {"name", "index", "tx", "ledger", "id"} = {}
\* The event e of an entry point, and d, the same as the k-th of the call in the log.
Announces(e, d, name, nth, fields, k) ==
  /\ e = event(name, nth, fields) /\ Plain(e) /\ e.index = nth
  /\ d = stamped(e, k) /\ d.name = name /\ d.ledger = now
  /\ DOMAIN fields \cup {"name", "ledger"} \subseteq DOMAIN d
  /\ \A x \in DOMAIN fields : d[x] = fields[x]

LEMMA Announced ==
  ASSUME NEW u, Follows(u), NEW name, NEW nth \in Nat, NEW fields, Clean(fields), NEW k \in Nat
  PROVE  \E e, d : Announces(e, d, name, nth, fields, k)
<1>. DEFINE head == [name |-> name, index |-> nth]
            j == joined(head, fields)
<1>1. /\ DOMAIN head = {"name", "index"} /\ head.name = name /\ head.index = nth
  OBVIOUS
<1>. HIDE DEF head
<1>2. /\ DOMAIN j = DOMAIN head \cup DOMAIN fields
      /\ \A x \in DOMAIN head : j[x] = head[x]
      /\ \A x \in DOMAIN fields \ DOMAIN head : j[x] = fields[x]
  BY ONLY JoinedFacts
<1>e. PICK e : e = j
  OBVIOUS
<1>3. e = event(name, nth, fields)
  BY <1>e DEF event, head
<1>. HIDE DEF j
<1>4. /\ DOMAIN e = {"name", "index"} \cup DOMAIN fields /\ e.name = name /\ e.index = nth
      /\ \A x \in DOMAIN fields : e[x] = fields[x]
  BY <1>1, <1>2, <1>e DEF Clean
<1>5. Plain(e)
  BY <1>4 DEF Plain, Clean
<1>d. PICK d : d = stamped(e, k)
  OBVIOUS
<1>6. /\ d.ledger = now /\ DOMAIN d = DOMAIN e \cup {"tx", "ledger", "id"}
      /\ \A x \in DOMAIN e : d[x] = e[x]
  BY <1>5, <1>d, StampedFacts
<1>7. Announces(e, d, name, nth, fields, k)
  BY <1>3, <1>4, <1>5, <1>6, <1>d DEF Announces
<1>. QED BY <1>7

\* One row of a table, the one at k, is now row.
Wrote(t, v, table, k, row) ==
  v[table][k] = row /\ \A j \in Tables[table] : j # k => v[table][j] = t[table][j]
\* Only the tables of names may differ.
Beside(t, v, names) == \A table \in DOMAIN Tables : table \notin names => v[table] = t[table]

LEMMA PlacedRow ==
  ASSUME NEW t, Shaped(t), NEW table \in DOMAIN Tables, NEW k \in Tables[table], NEW row,
         NEW v, v = placed(t, table, k, row)
  PROVE  Shaped(v) /\ Wrote(t, v, table, k, row) /\ Beside(t, v, {table})
BY PlacedFacts DEF Wrote, Beside

LEMMA ChangedRow ==
  ASSUME NEW t, Shaped(t), NEW table \in DOMAIN Tables, NEW k \in Tables[table], NEW changes,
         NEW v, v = changed(t, table, k, changes)
  PROVE  /\ Shaped(v) /\ Wrote(t, v, table, k, joined(changes, t[table][k]))
         /\ Beside(t, v, {table})
BY PlacedRow DEF changed

\* The row at k has the changes.
Upserts(t, v, table, k, changes) ==
  \E row : /\ Wrote(t, v, table, k, row) /\ DOMAIN changes \subseteq DOMAIN row
           /\ \A x \in DOMAIN changes : row[x] = changes[x]

LEMMA UpsertedRow ==
  ASSUME NEW t, Shaped(t), NEW table \in DOMAIN Tables, NEW k \in Tables[table], NEW changes,
         NEW v, v = upserted(t, table, k, changes)
  PROVE  Shaped(v) /\ Beside(t, v, {table}) /\ Upserts(t, v, table, k, changes)
<1>1. CASE t[table][k] = NoRow
  <2>1. v = placed(t, table, k, changes)
    BY <1>1 DEF upserted
  <2>2. Shaped(v) /\ Wrote(t, v, table, k, changes) /\ Beside(t, v, {table})
    BY <2>1, PlacedRow
  <2>. QED BY <2>2 DEF Upserts
<1>2. CASE t[table][k] # NoRow
  <2>. DEFINE j == joined(changes, t[table][k])
  <2>1. DOMAIN j = DOMAIN changes \cup DOMAIN t[table][k]
        /\ \A x \in DOMAIN changes : j[x] = changes[x]
    BY ONLY JoinedFacts
  <2>2. v = changed(t, table, k, changes)
    BY <1>2 DEF upserted
  <2>3. Shaped(v) /\ Wrote(t, v, table, k, j) /\ Beside(t, v, {table})
    BY <2>2, ChangedRow
  <2>. HIDE DEF j
  <2>. QED BY <2>1, <2>3 DEF Upserts
<1>. QED BY <1>1, <1>2

-----------------------------------------------------------------------------
(* The parts of a mirror, when a row and its entry change                   *)

LEMMA OrderRowCreated ==
  ASSUME ContractInv, NEW t, Mirror(t), NEW o \in OrderId, orders[o].status = "Absent",
         NEW entry, entry.status = "Created", \A j \in OrderId : orders'[j] =
           IF j = o THEN entry ELSE orders[j],
         NEW row, Says(row, entry, OrderFields), "at" \in DOMAIN row, row.at = now,
         NEW v, Wrote(t, v, "orders", o, row), now' = now
  PROVE  /\ Same(v["orders"], orders', OrderFields, OrderId) /\ OrdersTimed(v)'
         /\ OrdersKept(t, v)
<1>1. t["orders"][o] = NoRow
  BY RowsThere
<1>2. v["orders"][o] = row /\ \A j \in OrderId : j # o => v["orders"][j] = t["orders"][j]
  BY TableNames DEF Wrote
<1>3. now \in Nat /\ now \in 0..now
  BY DEF ContractInv, TypeOK
<1>4. Same(v["orders"], orders', OrderFields, OrderId)
  <2>1. Same(t["orders"], orders, OrderFields, OrderId)
    BY DEF Mirror
  <2>. QED BY <1>2, <2>1 DEF Same
<1>5. ASSUME NEW j \in OrderId, v["orders"][j] # NoRow
      PROVE  "at" \in DOMAIN v["orders"][j] /\ v["orders"][j].at \in 0..now
  <2>1. CASE j = o
    BY <1>2, <1>3, <2>1
  <2>2. CASE j # o
    BY <1>2, <1>5, <2>2 DEF Mirror, OrdersTimed
  <2>. QED BY <2>1, <2>2
<1>6. ASSUME NEW j \in OrderId, t["orders"][j] # NoRow
      PROVE  /\ v["orders"][j] # NoRow /\ "at" \in DOMAIN v["orders"][j]
             /\ v["orders"][j].at = t["orders"][j].at
  <2>1. v["orders"][j] = t["orders"][j]
    BY <1>1, <1>2, <1>6
  <2>. QED BY <1>6, <2>1 DEF Mirror, OrdersTimed
<1>. QED BY <1>4, <1>5, <1>6 DEF OrdersTimed, OrdersKept

LEMMA OrderRowMoved ==
  ASSUME ContractInv, NEW t, Mirror(t), NEW o \in OrderId, orders[o].status # "Absent",
         NEW status \in {"Active", "Cancelled", "Completed"},
         orders' = [orders EXCEPT ![o].status = status],
         NEW v, Wrote(t, v, "orders", o, joined([status |-> status], t["orders"][o])), now' = now
  PROVE  /\ Same(v["orders"], orders', OrderFields, OrderId) /\ OrdersTimed(v)'
         /\ OrdersKept(t, v)
<1>. DEFINE changes == [status |-> status]
            row == joined(changes, t["orders"][o])
<1>1. t["orders"][o] # NoRow
  BY RowsThere
<1>2. v["orders"][o] = row /\ \A j \in OrderId : j # o => v["orders"][j] = t["orders"][j]
  BY TableNames DEF Wrote
<1>3. orders[o] \in OrderRecord /\ DOMAIN orders = OrderId
  BY DEF ContractInv, TypeOK
<1>4. /\ orders'[o] = [orders[o] EXCEPT !.status = status]
      /\ \A j \in OrderId : j # o => orders'[j] = orders[j]
  BY <1>3
<1>5. \A x \in OrderFields \cup {"status"} :
        orders'[o][x] = IF x \in DOMAIN changes THEN changes[x] ELSE orders[o][x]
  BY <1>3, <1>4 DEF OrderFields, OrderRecord
<1>6. orders'[o].status # "Absent"
  BY <1>3, <1>4 DEF OrderRecord
<1>7. DOMAIN changes = {"status"} /\ changes.status # "none"
  OBVIOUS
<1>. HIDE DEF changes
<1>8. /\ DOMAIN row = {"status"} \cup DOMAIN t["orders"][o] /\ row.status = changes.status
      /\ \A x \in DOMAIN t["orders"][o] \ {"status"} : row[x] = t["orders"][o][x]
  <2>. DEFINE old == t["orders"][o]
              j == joined(changes, old)
  <2>. HIDE DEF old
  <2>1. /\ DOMAIN j = DOMAIN changes \cup DOMAIN old
        /\ \A x \in DOMAIN changes : j[x] = changes[x]
        /\ \A x \in DOMAIN old \ DOMAIN changes : j[x] = old[x]
    BY ONLY JoinedFacts
  <2>. HIDE DEF j
  <2>2. DOMAIN j = {"status"} \cup DOMAIN old /\ j.status = changes.status
        /\ \A x \in DOMAIN old \ {"status"} : j[x] = old[x]
    BY <1>7, <2>1
  <2>. QED BY <2>2 DEF j, old
<1>9. Same(v["orders"], orders', OrderFields, OrderId)
  <2>1. Same(t["orders"], orders, OrderFields, OrderId)
    BY DEF Mirror
  <2>2. \A j \in OrderId \ {o} : v["orders"][j] = t["orders"][j] /\ orders'[j] = orders[j]
    BY <1>2, <1>4
  <2>3. v["orders"][o] = joined(changes, t["orders"][o])
    BY <1>2
  <2>4. Says(t["orders"][o], orders[o], OrderFields)
    BY <2>1 DEF Same
  <2>. HIDE DEF row
  <2>5. Says(joined(changes, t["orders"][o]), orders'[o], OrderFields)
    BY <1>5, <2>4, SaysJoined
  <2>. QED BY <1>6, <2>1, <2>2, <2>3, <2>5 DEF Same
<1>. HIDE DEF row
<1>10. /\ "at" \in DOMAIN t["orders"][o] /\ t["orders"][o].at \in 0..now
  BY <1>1 DEF Mirror, OrdersTimed
<1>11. row # NoRow /\ "at" \in DOMAIN row /\ row.at = t["orders"][o].at
  BY <1>7, <1>8, <1>10 DEF NoRow
<1>12. ASSUME NEW j \in OrderId, v["orders"][j] # NoRow
       PROVE  "at" \in DOMAIN v["orders"][j] /\ v["orders"][j].at \in 0..now
  <2>1. CASE j = o
    BY <1>2, <1>10, <1>11, <2>1
  <2>2. CASE j # o
    BY <1>2, <1>12, <2>2 DEF Mirror, OrdersTimed
  <2>. QED BY <2>1, <2>2
<1>13. ASSUME NEW j \in OrderId, t["orders"][j] # NoRow
       PROVE  /\ v["orders"][j] # NoRow /\ "at" \in DOMAIN v["orders"][j]
              /\ v["orders"][j].at = t["orders"][j].at
  <2>1. CASE j = o
    BY <1>2, <1>10, <1>11, <2>1
  <2>2. CASE j # o
    BY <1>2, <1>13, <2>2 DEF Mirror, OrdersTimed
  <2>. QED BY <2>1, <2>2
<1>. QED BY <1>9, <1>12, <1>13 DEF OrdersTimed, OrdersKept

LEMMA MilestoneRowChanged ==
  ASSUME ContractInv, NEW t, Mirror(t), NEW m \in MilestoneId, milestones[m].status # "Absent",
         NEW later, milestones' = [milestones EXCEPT ![m] = later], later.status # "Absent",
         NEW changes,
         \A x \in MilestoneFields \cup {"status"} :
           later[x] = IF x \in DOMAIN changes THEN changes[x] ELSE milestones[m][x],
         NEW v, Wrote(t, v, "milestones", m, joined(changes, t["milestones"][m]))
  PROVE  Same(v["milestones"], milestones', MilestoneFields, MilestoneId)
<1>1. /\ v["milestones"][m] = joined(changes, t["milestones"][m])
      /\ \A j \in MilestoneId : j # m => v["milestones"][j] = t["milestones"][j]
  BY TableNames DEF Wrote
<1>2. DOMAIN milestones = MilestoneId
  BY DEF ContractInv, TypeOK
<1>3. /\ milestones'[m] = later /\ \A j \in MilestoneId : j # m => milestones'[j] = milestones[j]
  BY <1>2
<1>4. Same(t["milestones"], milestones, MilestoneFields, MilestoneId)
  BY DEF Mirror
<1>5. \A j \in MilestoneId \ {m} :
        v["milestones"][j] = t["milestones"][j] /\ milestones'[j] = milestones[j]
  BY <1>1, <1>3
<1>6. /\ v["milestones"][m] = joined(changes, t["milestones"][m])
      /\ milestones'[m].status # "Absent"
      /\ \A x \in MilestoneFields \cup {"status"} :
           milestones'[m][x] = IF x \in DOMAIN changes THEN changes[x] ELSE milestones[m][x]
  BY <1>1, <1>3
<1>7. Says(t["milestones"][m], milestones[m], MilestoneFields)
  BY <1>4 DEF Same
<1>8. Says(joined(changes, t["milestones"][m]), milestones'[m], MilestoneFields)
  BY <1>6, <1>7, SaysJoined
<1>. QED BY <1>4, <1>5, <1>6, <1>8 DEF Same

LEMMA FollowCreateOrder ==
  ASSUME ContractInv, NEW u, Follows(u), Mirror(u), UNCHANGED tables,
         NEW roles \in Proposals, invoke_create_order(roles)
  PROVE  Followed'
<1>. DEFINE o == order_count + 1
            fields == joined([order |-> o, asset |-> Usdc], roles)
            entry == [buyer |-> roles.buyer, supplier |-> roles.supplier,
                      attestor |-> roles.attestor, resolver |-> roles.resolver,
                      asset |-> Usdc, status |-> "Created"]
<1>1. create_order(roles) /\ publish(<<event("order_created", 0, fields)>>)
  BY DEF invoke_create_order, OrderCreated
<1>2. DOMAIN roles = {"buyer", "supplier", "attestor", "resolver"}
  BY PartiesAssumption
<1>3. /\ UNCHANGED <<tables, now>>
      /\ UNCHANGED <<milestones, requests, offers, offer_count, accepted, positions, disputes>>
  BY <1>1 DEF create_order, financeVars, disputeVars
<1>4. o \in OrderId
  BY <1>1, LimitsAssumption DEF create_order, ContractInv, TypeOK, OrderId
<1>5. orders[o].status = "Absent"
  BY <1>4 DEF ContractInv, Registered, TypeOK
<1>6. u["orders"][o] = NoRow
  BY <1>4, <1>5, RowsThere
<1>7. /\ DOMAIN fields = {"order", "asset", "buyer", "supplier", "attestor", "resolver"}
      /\ fields.order = o /\ fields.asset = Usdc
      /\ \A x \in {"buyer", "supplier", "attestor", "resolver"} : fields[x] = roles[x]
  BY <1>2 DEF joined
<1>8. \A j \in OrderId : orders'[j] = IF j = o THEN entry ELSE orders[j]
  BY <1>1, <1>4 DEF create_order, ContractInv, TypeOK
<1>. HIDE DEF o, fields
<1>9. PICK e, d : Announces(e, d, "order_created", 0, fields, 1)
  <2>1. Clean(fields)
    BY <1>7 DEF Clean
  <2>. QED BY <2>1, Announced
<1>10. /\ e = event("order_created", 0, fields) /\ Plain(e) /\ d = stamped(e, 1)
       /\ Carries(d, "order_created", {"order", "buyer", "supplier", "attestor", "resolver",
                                       "asset", "ledger"})
       /\ d.ledger = now /\ \A x \in DOMAIN fields : d[x] = fields[x]
  BY <1>7, <1>9 DEF Announces, Carries
<1>. DEFINE row == [buyer |-> d.buyer, supplier |-> d.supplier, attestor |-> d.attestor,
                    resolver |-> d.resolver, asset |-> d.asset, status |-> "Created",
                    at |-> d.ledger]
<1>11. /\ d.order = o /\ d.asset = Usdc
       /\ \A x \in {"buyer", "supplier", "attestor", "resolver"} : d[x] = roles[x]
  BY <1>7, <1>10
<1>v. PICK v : v = placed(u, "orders", o, row)
  OBVIOUS
<1>12. Applies(u, d, v)
  BY <1>4, <1>6, <1>10, <1>11, <1>v, OrderCreatedApplies
<1>13. /\ Says(row, entry, OrderFields) /\ entry.status = "Created"
       /\ "at" \in DOMAIN row /\ row.at = now
  BY <1>10, <1>11 DEF Says, OrderFields
<1>. HIDE DEF row, entry
<1>14. Shaped(v) /\ Wrote(u, v, "orders", o, row) /\ Beside(u, v, {"orders"})
  BY <1>4, <1>v, PlacedRow, TableNames DEF Mirror
<1>15. /\ Same(v["orders"], orders', OrderFields, OrderId) /\ OrdersTimed(v)' /\ OrdersKept(u, v)
  BY <1>3, <1>4, <1>5, <1>8, <1>13, <1>14, OrderRowCreated
<1>16. \A table \in DOMAIN Tables \ {"orders"} : v[table] = u[table]
  BY <1>14 DEF Beside
<1>17. /\ Same(v["milestones"], milestones', MilestoneFields, MilestoneId)
       /\ Same(v["requests"], requests', RequestFields, MilestoneId)
  BY <1>3, <1>16, TableNames, MilestoneRowsAside, RequestRowsAside
<1>18. OffersMirrored(v)' /\ PositionsMirrored(v)' /\ DisputesMirrored(v)' 
  BY <1>3, <1>16, TableNames, OfferRowsAside, PositionRowsAside, DisputeRowsAside
<1>19. AnchorsMirrored(v)'
  BY <1>3, <1>16, TableNames, AnchorRowsAside
<1>20. PayoutsMirrored(v)'
  <2>1. NoneEnds
    BY <1>3 DEF NoneEnds
  <2>. QED BY <1>3, <1>15, <1>16, <2>1, TableNames, PayoutRowsAside
<1>21. Mirror(v)'
  BY <1>14, <1>15, <1>17, <1>18, <1>19, <1>20, MirrorParts
<1>. QED BY <1>1, <1>3, <1>10, <1>12, <1>21, OneEvent

LEMMA OrderMoves ==
  ASSUME ContractInv, NEW u, Follows(u), Mirror(u), UNCHANGED tables, NEW o \in OrderId,
         NEW name, NEW status \in {"Active", "Cancelled", "Completed"},
         orders[o].status # "Absent", orders' = [orders EXCEPT ![o].status = status],
         UNCHANGED <<milestones, requests, offers, offer_count, accepted, positions, disputes, now>>,
         publish(<<OrderMoved(name, o, 0)>>),
         \A d : d.order = o /\ Carries(d, name, {"order"}) =>
           Applies(u, d, changed(u, "orders", o, [status |-> status]))
  PROVE  Followed'
<1>. DEFINE fields == [order |-> o]
<1>1. publish(<<event(name, 0, fields)>>)
  BY DEF OrderMoved
<1>2. DOMAIN fields = {"order"} /\ fields.order = o
  OBVIOUS
<1>. HIDE DEF fields
<1>3. PICK e, d : Announces(e, d, name, 0, fields, 1)
  <2>1. Clean(fields)
    BY <1>2 DEF Clean
  <2>. QED BY <2>1, Announced
<1>4. /\ e = event(name, 0, fields) /\ Plain(e) /\ d = stamped(e, 1)
      /\ Carries(d, name, {"order"}) /\ d.order = o
  BY <1>2, <1>3 DEF Announces, Carries
<1>v. PICK v : v = changed(u, "orders", o, [status |-> status])
  OBVIOUS
<1>5. Applies(u, d, v)
  BY <1>4, <1>v
<1>6. /\ Shaped(v) /\ Wrote(u, v, "orders", o, joined([status |-> status], u["orders"][o]))
      /\ Beside(u, v, {"orders"})
  BY <1>v, ChangedRow, TableNames DEF Mirror
<1>7. /\ Same(v["orders"], orders', OrderFields, OrderId) /\ OrdersTimed(v)' /\ OrdersKept(u, v)
  BY <1>6, OrderRowMoved
<1>8. \A table \in DOMAIN Tables \ {"orders"} : v[table] = u[table]
  BY <1>6 DEF Beside
<1>9. /\ Same(v["milestones"], milestones', MilestoneFields, MilestoneId)
      /\ Same(v["requests"], requests', RequestFields, MilestoneId)
  BY <1>8, TableNames, MilestoneRowsAside, RequestRowsAside
<1>10. OffersMirrored(v)' /\ PositionsMirrored(v)' /\ DisputesMirrored(v)'
  BY <1>8, TableNames, OfferRowsAside, PositionRowsAside, DisputeRowsAside
<1>11. AnchorsMirrored(v)'
  BY <1>8, TableNames, AnchorRowsAside
<1>12. PayoutsMirrored(v)'
  <2>1. NoneEnds
    BY DEF NoneEnds
  <2>. QED BY <1>7, <1>8, <2>1, TableNames, PayoutRowsAside
<1>13. Mirror(v)'
  BY <1>6, <1>7, <1>9, <1>10, <1>11, <1>12, MirrorParts
<1>. QED BY <1>1, <1>4, <1>5, <1>13, OneEvent

LEMMA FollowAcceptOrder ==
  ASSUME ContractInv, NEW u, Follows(u), Mirror(u), UNCHANGED tables, NEW o \in OrderId,
         invoke_accept_order(o)
  PROVE  Followed'
<1>1. /\ accept_order(o) /\ publish(<<OrderMoved("order_accepted", o, 0)>>)
      /\ orders[o].status # "Absent" /\ orders' = [orders EXCEPT ![o].status = "Active"]
      /\ UNCHANGED <<milestones, requests, offers, offer_count, accepted, positions, disputes, now>>
  BY DEF invoke_accept_order, accept_order, financeVars, disputeVars
<1>2. u["orders"][o] # NoRow
  BY <1>1, RowsThere
<1>3. ASSUME NEW d, d.order = o, Carries(d, "order_accepted", {"order"})
      PROVE  Applies(u, d, changed(u, "orders", o, [status |-> "Active"]))
  BY <1>2, <1>3, OrderAcceptedApplies
<1>. QED BY <1>1, <1>3, OrderMoves

LEMMA FollowCancelOrder ==
  ASSUME ContractInv, NEW u, Follows(u), Mirror(u), UNCHANGED tables, NEW o \in OrderId,
         invoke_cancel_order(o)
  PROVE  Followed'
<1>1. /\ cancel_order(o) /\ publish(<<OrderMoved("order_cancelled", o, 0)>>)
      /\ orders[o].status # "Absent" /\ orders' = [orders EXCEPT ![o].status = "Cancelled"]
      /\ UNCHANGED <<milestones, requests, offers, offer_count, accepted, positions, disputes, now>>
  BY DEF invoke_cancel_order, cancel_order, financeVars, disputeVars
<1>2. u["orders"][o] # NoRow
  BY <1>1, RowsThere
<1>3. ASSUME NEW d, d.order = o, Carries(d, "order_cancelled", {"order"})
      PROVE  Applies(u, d, changed(u, "orders", o, [status |-> "Cancelled"]))
  BY <1>2, <1>3, OrderCancelledApplies
<1>. QED BY <1>1, <1>3, OrderMoves

LEMMA FollowCreateMilestone ==
  ASSUME ContractInv, NEW u, Follows(u), Mirror(u), UNCHANGED tables, NEW o \in OrderId,
         NEW amount \in MilestoneAmounts, invoke_create_milestone(o, amount)
  PROVE  Followed'
<1>. DEFINE m == milestone_count + 1
            fields == [order |-> o, milestone |-> m, amount |-> amount]
            row == [order_id |-> o, amount |-> amount, funded_amount |-> 0,
                    evidence_hash |-> NoDigest, status |-> "Unfunded"]
<1>1. /\ create_milestone(o, amount) /\ publish(<<event("milestone_created", 0, fields)>>)
  BY DEF invoke_create_milestone, MilestoneCreated
<1>2. UNCHANGED <<tables, orders, requests, offers, offer_count, accepted, positions, disputes, now>>
  BY <1>1 DEF create_milestone, financeVars, disputeVars
<1>3. m \in MilestoneId
  BY <1>1, LimitsAssumption DEF create_milestone, ContractInv, TypeOK, MilestoneId
<1>4. milestones[m].status = "Absent" /\ orders[o].status # "Absent"
  BY <1>1, <1>3 DEF create_milestone, ContractInv, Registered, TypeOK
<1>5. u["milestones"][m] = NoRow /\ u["orders"][o] # NoRow
  BY <1>3, <1>4, RowsThere
<1>6. \A j \in MilestoneId : milestones'[j] = IF j = m THEN row ELSE milestones[j]
  BY <1>1, <1>3 DEF create_milestone, ContractInv, TypeOK
<1>7. /\ DOMAIN fields = {"order", "milestone", "amount"}
      /\ fields.order = o /\ fields.milestone = m /\ fields.amount = amount
  OBVIOUS
<1>8. Says(row, row, MilestoneFields) /\ row.status = "Unfunded" /\ row.evidence_hash = NoDigest
  BY DEF Says, MilestoneFields
<1>. HIDE DEF m, fields
<1>9. PICK e, d : Announces(e, d, "milestone_created", 0, fields, 1)
  <2>1. Clean(fields)
    BY <1>7 DEF Clean
  <2>. QED BY <2>1, Announced
<1>10. /\ e = event("milestone_created", 0, fields) /\ Plain(e) /\ d = stamped(e, 1)
       /\ Carries(d, "milestone_created", {"order", "milestone", "amount"})
       /\ d.order = o /\ d.milestone = m /\ d.amount = amount
  BY <1>7, <1>9 DEF Announces, Carries
<1>v. PICK v : v = placed(u, "milestones", m, row)
  OBVIOUS
<1>11. Applies(u, d, v)
  BY <1>3, <1>5, <1>10, <1>v, MilestoneCreatedApplies
<1>. HIDE DEF row
<1>12. Shaped(v) /\ Wrote(u, v, "milestones", m, row) /\ Beside(u, v, {"milestones"})
  BY <1>3, <1>v, PlacedRow, TableNames DEF Mirror
<1>13. \A table \in DOMAIN Tables \ {"milestones"} : v[table] = u[table]
  BY <1>12 DEF Beside
<1>14. Same(v["milestones"], milestones', MilestoneFields, MilestoneId)
  <2>1. Same(u["milestones"], milestones, MilestoneFields, MilestoneId)
    BY DEF Mirror
  <2>2. v["milestones"][m] = row
        /\ \A j \in MilestoneId : j # m => v["milestones"][j] = u["milestones"][j]
    BY <1>12, TableNames DEF Wrote
  <2>. QED BY <1>3, <1>6, <1>8, <2>1, <2>2 DEF Same
<1>15. /\ Same(v["orders"], orders', OrderFields, OrderId) /\ OrdersTimed(v)' /\ OrdersKept(u, v)
       /\ Same(v["requests"], requests', RequestFields, MilestoneId)
  BY <1>2, <1>13, TableNames, OrderRowsAside, RequestRowsAside
<1>16. OffersMirrored(v)' /\ PositionsMirrored(v)' /\ DisputesMirrored(v)'
  BY <1>2, <1>13, TableNames, OfferRowsAside, PositionRowsAside, DisputeRowsAside
<1>17. AnchorsMirrored(v)'
  BY <1>6, <1>8, <1>13, TableNames, AnchorRowsAside
<1>18. PayoutsMirrored(v)'
  <2>1. NoneEnds
    BY <1>4, <1>6, <1>8 DEF NoneEnds, Terminal
  <2>. QED BY <1>2, <1>13, <1>15, <2>1, TableNames, PayoutRowsAside
<1>19. Mirror(v)'
  BY <1>12, <1>14, <1>15, <1>16, <1>17, <1>18, MirrorParts
<1>. QED BY <1>1, <1>2, <1>10, <1>11, <1>19, OneEvent

\* A milestone under way becomes later, and stays under way; the changes of its row
\* amount to the same.
Reworked(m, later, changes) ==
  /\ milestones[m].status \notin Terminal \cup {"Absent"}
  /\ later.status \notin Terminal \cup {"Absent"} /\ later.order_id = milestones[m].order_id
  /\ milestones' = [milestones EXCEPT ![m] = later]
  /\ \A x \in MilestoneFields \cup {"status"} :
       later[x] = IF x \in DOMAIN changes THEN changes[x] ELSE milestones[m][x]

LEMMA MilestoneStep ==
  ASSUME ContractInv, NEW t, Mirror(t), NEW m \in MilestoneId, NEW later, NEW changes,
         Reworked(m, later, changes), UNCHANGED <<orders, now>>,
         NEW v, Wrote(t, v, "milestones", m, joined(changes, t["milestones"][m])),
         v["orders"] = t["orders"], v["settlements"] = t["settlements"],
         v["refunds"] = t["refunds"]
  PROVE  /\ Same(v["orders"], orders', OrderFields, OrderId) /\ OrdersTimed(v)'
         /\ Same(v["milestones"], milestones', MilestoneFields, MilestoneId)
         /\ PayoutsMirrored(v)'
<1>1. /\ Same(v["orders"], orders', OrderFields, OrderId) /\ OrdersTimed(v)' /\ OrdersKept(t, v)
  BY OrderRowsAside
<1>2. Same(v["milestones"], milestones', MilestoneFields, MilestoneId)
  BY MilestoneRowChanged DEF Reworked
<1>3. NoneEnds
  <2>1. DOMAIN milestones = MilestoneId
    BY DEF ContractInv, TypeOK
  <2>. QED BY <2>1 DEF NoneEnds, Terminal, Reworked
<1>. QED BY <1>1, <1>2, <1>3, PayoutRowsAside

LEMMA MilestoneMoves ==
  ASSUME ContractInv, NEW u, Follows(u), Mirror(u), NEW m \in MilestoneId,
         NEW later, NEW changes, Reworked(m, later, changes),
         later.evidence_hash = milestones[m].evidence_hash,
         UNCHANGED <<tables, orders, requests, offers, offer_count, accepted, positions, disputes, now>>,
         NEW e, Plain(e), publish(<<e>>),
         Applies(u, stamped(e, 1), changed(u, "milestones", m, changes))
  PROVE  Followed'
<1>v. PICK v : v = changed(u, "milestones", m, changes)
  OBVIOUS
<1>1. /\ Shaped(v) /\ Wrote(u, v, "milestones", m, joined(changes, u["milestones"][m]))
      /\ Beside(u, v, {"milestones"})
  BY <1>v, ChangedRow, TableNames DEF Mirror
<1>2. \A table \in DOMAIN Tables \ {"milestones"} : v[table] = u[table]
  BY <1>1 DEF Beside
<1>3. /\ Same(v["orders"], orders', OrderFields, OrderId) /\ OrdersTimed(v)'
      /\ Same(v["milestones"], milestones', MilestoneFields, MilestoneId)
      /\ PayoutsMirrored(v)'
  BY <1>1, <1>2, TableNames, MilestoneStep
<1>4. Same(v["requests"], requests', RequestFields, MilestoneId)
  BY <1>2, TableNames, RequestRowsAside
<1>5. OffersMirrored(v)' /\ PositionsMirrored(v)' /\ DisputesMirrored(v)'
  BY <1>2, TableNames, OfferRowsAside, PositionRowsAside, DisputeRowsAside
<1>6. AnchorsMirrored(v)'
  <2>1. \A j \in MilestoneId : milestones'[j].evidence_hash = milestones[j].evidence_hash
    BY DEF ContractInv, TypeOK, Reworked
  <2>. QED BY <1>2, <2>1, TableNames, AnchorRowsAside
<1>7. Mirror(v)'
  BY <1>1, <1>3, <1>4, <1>5, <1>6, MirrorParts
<1>. QED BY <1>v, <1>7, OneEvent

\* The record of a milestone under way.
LEMMA UnderWay ==
  ASSUME ContractInv, NEW t, Mirror(t), NEW m \in MilestoneId, milestones[m].status # "Absent"
  PROVE  milestones[m] \in MilestoneRecord /\ t["milestones"][m] # NoRow /\ Shaped(t)
BY RowsThere DEF ContractInv, TypeOK, Mirror

LEMMA FollowFundMilestone ==
  ASSUME ContractInv, NEW u, Follows(u), Mirror(u), UNCHANGED tables, NEW m \in MilestoneId,
         NEW amount \in Payments, invoke_fund_milestone(m, amount)
  PROVE  Followed'
<1>. DEFINE sum == milestones[m].funded_amount + amount
            fields == [milestone |-> m, amount |-> amount, funded_amount |-> sum,
                       fully_funded |-> sum = milestones[m].amount]
<1>1. /\ fund_milestone(m, amount, Usdc) /\ publish(<<event("milestone_funded", 1, fields)>>)
  BY DEF invoke_fund_milestone, MilestoneFunded
<1>2. /\ UNCHANGED <<tables, orders, requests, offers, offer_count, accepted, positions, disputes, now>>
      /\ milestones[m].status = "Unfunded"
  BY <1>1 DEF fund_milestone, financeVars, disputeVars, orderVars, in_active_order
<1>3. milestones[m] \in MilestoneRecord /\ u["milestones"][m] # NoRow
  BY <1>2, UnderWay
<1>4. PICK later : later = [milestones[m] EXCEPT !.funded_amount = sum,
                                                 !.status = status_after(m, sum)]
  OBVIOUS
<1>5. milestones' = [milestones EXCEPT ![m] = later]
  BY <1>1, <1>4 DEF fund_milestone, ContractInv, TypeOK
<1>6. /\ DOMAIN fields = {"milestone", "amount", "funded_amount", "fully_funded"}
      /\ fields.milestone = m /\ fields.funded_amount = sum
      /\ fields.fully_funded = (sum = milestones[m].amount)
  OBVIOUS
<1>. HIDE DEF fields
<1>7. PICK e, d : Announces(e, d, "milestone_funded", 1, fields, 1)
  <2>1. Clean(fields)
    BY <1>6 DEF Clean
  <2>. QED BY <2>1, Announced
<1>8. /\ e = event("milestone_funded", 1, fields) /\ Plain(e) /\ d = stamped(e, 1)
      /\ Carries(d, "milestone_funded", {"milestone", "funded_amount", "fully_funded"})
      /\ d.milestone = m /\ d.funded_amount = sum
      /\ d.fully_funded = (sum = milestones[m].amount)
  BY <1>6, <1>7 DEF Announces, Carries
<1>9. PICK changes : changes = [funded_amount |-> d.funded_amount,
                                status |-> IF d.fully_funded THEN "Funded" ELSE "Unfunded"]
  OBVIOUS
<1>10. Applies(u, d, changed(u, "milestones", m, changes))
  BY <1>3, <1>8, <1>9, MilestoneFundedApplies
<1>11. /\ DOMAIN changes = {"funded_amount", "status"} /\ changes.funded_amount = sum
       /\ changes.status = status_after(m, sum)
  BY <1>8, <1>9 DEF status_after
<1>12. \A x \in MilestoneFields \cup {"status"} :
         later[x] = IF x \in DOMAIN changes THEN changes[x] ELSE milestones[m][x]
  BY <1>3, <1>4, <1>11 DEF MilestoneFields, MilestoneRecord
<1>13. /\ later.status \in {"Unfunded", "Funded"}
       /\ later.order_id = milestones[m].order_id
       /\ later.evidence_hash = milestones[m].evidence_hash
  BY <1>3, <1>4 DEF MilestoneRecord, status_after
<1>14. Reworked(m, later, changes)
  BY <1>2, <1>5, <1>12, <1>13 DEF Reworked, Terminal
<1>. QED BY <1>1, <1>2, <1>8, <1>10, <1>13, <1>14, MilestoneMoves

LEMMA FollowCancelPartialFunding ==
  ASSUME ContractInv, NEW u, Follows(u), Mirror(u), UNCHANGED tables, NEW m \in MilestoneId,
         invoke_cancel_partial_funding(m)
  PROVE  Followed'
<1>. DEFINE fields == [milestone |-> m]
<1>1. /\ cancel_partial_funding(m)
      /\ publish(<<event("partial_funding_cancelled", 1, fields)>>)
  BY DEF invoke_cancel_partial_funding, PartialFundingCancelled
<1>2. /\ UNCHANGED <<tables, orders, requests, offers, offer_count, accepted, positions, disputes, now>>
      /\ milestones[m].status = "Unfunded"
  BY <1>1 DEF cancel_partial_funding, financeVars, disputeVars, orderVars, in_active_order
<1>3. milestones[m] \in MilestoneRecord /\ u["milestones"][m] # NoRow
  BY <1>2, UnderWay
<1>4. PICK later : later = [milestones[m] EXCEPT !.funded_amount = 0]
  OBVIOUS
<1>5. milestones' = [milestones EXCEPT ![m] = later]
  BY <1>1, <1>4 DEF cancel_partial_funding, ContractInv, TypeOK
<1>6. DOMAIN fields = {"milestone"} /\ fields.milestone = m
  OBVIOUS
<1>. HIDE DEF fields
<1>7. PICK e, d : Announces(e, d, "partial_funding_cancelled", 1, fields, 1)
  <2>1. Clean(fields)
    BY <1>6 DEF Clean
  <2>. QED BY <2>1, Announced
<1>8. /\ e = event("partial_funding_cancelled", 1, fields) /\ Plain(e) /\ d = stamped(e, 1)
      /\ Carries(d, "partial_funding_cancelled", {"milestone"}) /\ d.milestone = m
  BY <1>6, <1>7 DEF Announces, Carries
<1>9. PICK changes : changes = [funded_amount |-> 0, status |-> "Unfunded"]
  OBVIOUS
<1>10. Applies(u, d, changed(u, "milestones", m, changes))
  BY <1>3, <1>8, <1>9, FundingReturnedApplies
<1>11. /\ DOMAIN changes = {"funded_amount", "status"} /\ changes.funded_amount = 0
       /\ changes.status = "Unfunded"
  BY <1>9
<1>12. \A x \in MilestoneFields \cup {"status"} :
         later[x] = IF x \in DOMAIN changes THEN changes[x] ELSE milestones[m][x]
  BY <1>2, <1>3, <1>4, <1>11 DEF MilestoneFields, MilestoneRecord
<1>13. /\ later.status = "Unfunded" /\ later.order_id = milestones[m].order_id
       /\ later.evidence_hash = milestones[m].evidence_hash
  BY <1>2, <1>3, <1>4 DEF MilestoneRecord
<1>14. Reworked(m, later, changes)
  BY <1>2, <1>5, <1>12, <1>13 DEF Reworked, Terminal
<1>. QED BY <1>1, <1>2, <1>8, <1>10, <1>13, <1>14, MilestoneMoves

LEMMA FollowAttest ==
  ASSUME ContractInv, NEW u, Follows(u), Mirror(u), UNCHANGED tables, NEW m \in MilestoneId,
         NEW digest \in Digest, invoke_attest_milestone(m, digest)
  PROVE  Followed'
<1>. DEFINE fields == [milestone |-> m, evidence_hash |-> digest]
<1>1. /\ attest_milestone(m, digest) /\ publish(<<event("milestone_verified", 0, fields)>>)
  BY DEF invoke_attest_milestone, MilestoneVerified
<1>2. /\ UNCHANGED <<tables, orders, requests, offers, offer_count, accepted, positions, disputes, now>>
      /\ milestones[m].status = "Submitted" /\ milestones[m].evidence_hash = digest
  BY <1>1 DEF attest_milestone, financeVars, disputeVars, orderVars, in_active_order
<1>3. milestones[m] \in MilestoneRecord /\ u["milestones"][m] # NoRow
  BY <1>2, UnderWay
<1>4. PICK later : later = [milestones[m] EXCEPT !.status = "Verified"]
  OBVIOUS
<1>5. milestones' = [milestones EXCEPT ![m] = later]
  BY <1>1, <1>4 DEF attest_milestone, ContractInv, TypeOK
<1>6. /\ DOMAIN fields = {"milestone", "evidence_hash"}
      /\ fields.milestone = m /\ fields.evidence_hash = digest
  OBVIOUS
<1>. HIDE DEF fields
<1>7. PICK e, d : Announces(e, d, "milestone_verified", 0, fields, 1)
  <2>1. Clean(fields)
    BY <1>6 DEF Clean
  <2>. QED BY <2>1, Announced
<1>8. /\ e = event("milestone_verified", 0, fields) /\ Plain(e) /\ d = stamped(e, 1)
      /\ Carries(d, "milestone_verified", {"milestone", "evidence_hash"})
      /\ d.milestone = m /\ d.evidence_hash = digest
  BY <1>6, <1>7 DEF Announces, Carries
<1>9. PICK changes : changes = [evidence_hash |-> d.evidence_hash, status |-> "Verified"]
  OBVIOUS
<1>10. Applies(u, d, changed(u, "milestones", m, changes))
  BY <1>3, <1>8, <1>9, VerifiedApplies
<1>11. /\ DOMAIN changes = {"evidence_hash", "status"} /\ changes.evidence_hash = digest
       /\ changes.status = "Verified"
  BY <1>8, <1>9
<1>12. \A x \in MilestoneFields \cup {"status"} :
         later[x] = IF x \in DOMAIN changes THEN changes[x] ELSE milestones[m][x]
  BY <1>2, <1>3, <1>4, <1>11 DEF MilestoneFields, MilestoneRecord
<1>13. /\ later.status = "Verified" /\ later.order_id = milestones[m].order_id
       /\ later.evidence_hash = milestones[m].evidence_hash
  BY <1>3, <1>4 DEF MilestoneRecord
<1>14. Reworked(m, later, changes)
  BY <1>2, <1>5, <1>12, <1>13 DEF Reworked, Terminal
<1>. QED BY <1>1, <1>2, <1>8, <1>10, <1>13, <1>14, MilestoneMoves

\* One entry of a table and its row are rewritten.
LEMMA RowWritten ==
  ASSUME NEW t, NEW v, NEW table \in DOMAIN Tables, NEW k \in Tables[table], NEW row,
         Wrote(t, v, table, k, row), NEW entries, NEW later, NEW fields,
         Same(t[table], entries, fields, Tables[table]),
         \A j \in Tables[table] : j # k => later[j] = entries[j],
         later[k].status # "Absent", Says(row, later[k], fields)
  PROVE  Same(v[table], later, fields, Tables[table])
BY DEF Wrote, Same

\* A second write after a first, to another table.
LEMMA ThenChanged ==
  ASSUME NEW t, NEW w, Shaped(w), NEW first \in DOMAIN Tables, Beside(t, w, {first}),
         NEW table \in DOMAIN Tables, table # first, NEW k \in Tables[table], NEW changes,
         NEW v, v = changed(w, table, k, changes)
  PROVE  /\ Shaped(v) /\ Wrote(t, v, table, k, joined(changes, t[table][k]))
         /\ Beside(t, v, {first, table}) /\ v[first] = w[first]
<1>1. Shaped(v) /\ Wrote(w, v, table, k, joined(changes, w[table][k])) /\ Beside(w, v, {table})
  BY ChangedRow
<1>2. w[table] = t[table]
  BY DEF Beside
<1>. QED BY <1>1, <1>2 DEF Wrote, Beside

LEMMA FollowRequest ==
  ASSUME ContractInv, NEW u, Follows(u), Mirror(u), UNCHANGED tables, NEW m \in MilestoneId,
         NEW principal \in Payments, NEW expires_at \in Expiries,
         invoke_request_finance(m, principal, expires_at)
  PROVE  Followed'
<1>. DEFINE fields == [milestone |-> m, requested_principal |-> principal,
                       expires_at |-> expires_at]
            F == {"milestone", "requested_principal", "expires_at"}
            written == [requested_principal |-> principal, expires_at |-> expires_at,
                        status |-> "Open"]
<1>1. /\ request_finance(m, principal, expires_at)
      /\ publish(<<event("finance_requested", 0, fields)>>)
  BY DEF invoke_request_finance, FinanceRequested
<1>2. /\ UNCHANGED <<tables, orders, offers, offer_count, accepted, positions, disputes, now>>
      /\ milestones[m].status \in {"Funded", "FinanceRequested"}
      /\ requests' = [requests EXCEPT ![m] = written]
  BY <1>1 DEF request_finance, financeVars, disputeVars, orderVars, in_active_order
<1>3. milestones[m] \in MilestoneRecord /\ u["milestones"][m] # NoRow /\ Shaped(u)
  BY <1>2, UnderWay
<1>4. PICK later : later = [milestones[m] EXCEPT !.status = "FinanceRequested"]
  OBVIOUS
<1>5. milestones' = [milestones EXCEPT ![m] = later]
  BY <1>1, <1>4 DEF request_finance, ContractInv, TypeOK
<1>6. /\ DOMAIN fields = F /\ fields.milestone = m
      /\ fields.requested_principal = principal /\ fields.expires_at = expires_at
  OBVIOUS
<1>s. /\ DOMAIN written = RequestFields \cup {"status"} /\ written.status = "Open"
      /\ requests'[m] = written /\ \A j \in MilestoneId : j # m => requests'[j] = requests[j]
  BY <1>2 DEF RequestFields, ContractInv, TypeOK
<1>. HIDE DEF fields
<1>7. PICK e, d : Announces(e, d, "finance_requested", 0, fields, 1)
  <2>1. Clean(fields)
    BY <1>6 DEF Clean
  <2>. QED BY <2>1, Announced
<1>8. /\ e = event("finance_requested", 0, fields) /\ Plain(e) /\ d = stamped(e, 1)
      /\ Carries(d, "finance_requested", F)
      /\ d.milestone = m /\ d.requested_principal = principal /\ d.expires_at = expires_at
  BY <1>6, <1>7 DEF Announces, Carries
<1>9. PICK changes : changes = [status |-> "FinanceRequested"]
  OBVIOUS
<1>w. PICK w : w = upserted(u, "requests", m, written)
  OBVIOUS
<1>v. PICK v : v = changed(w, "milestones", m, changes)
  OBVIOUS
<1>10. Applies(u, d, v)
  BY <1>3, <1>8, <1>9, <1>w, <1>v, RequestApplies
<1>. HIDE DEF written, F
<1>11. Shaped(w) /\ Beside(u, w, {"requests"}) /\ Upserts(u, w, "requests", m, written)
  BY <1>3, <1>w, UpsertedRow, TableNames
<1>12. /\ Shaped(v) /\ Wrote(u, v, "milestones", m, joined(changes, u["milestones"][m]))
       /\ Beside(u, v, {"requests", "milestones"}) /\ v["requests"] = w["requests"]
  BY <1>11, <1>v, ThenChanged, TableNames
<1>13. \A table \in DOMAIN Tables \ {"requests", "milestones"} : v[table] = u[table]
  BY <1>12 DEF Beside
<1>14. Reworked(m, later, changes)
  BY <1>2, <1>3, <1>4, <1>5, <1>9 DEF Reworked, Terminal, MilestoneFields, MilestoneRecord
<1>15. /\ Same(v["orders"], orders', OrderFields, OrderId) /\ OrdersTimed(v)'
       /\ Same(v["milestones"], milestones', MilestoneFields, MilestoneId)
       /\ PayoutsMirrored(v)'
  BY <1>2, <1>12, <1>13, <1>14, TableNames, MilestoneStep
<1>16. Same(v["requests"], requests', RequestFields, MilestoneId)
  <2>0. PICK row : /\ Wrote(u, w, "requests", m, row) /\ DOMAIN written \subseteq DOMAIN row
                   /\ \A x \in DOMAIN written : row[x] = written[x]
    BY <1>11 DEF Upserts
  <2>1. Says(row, requests'[m], RequestFields)
    BY <1>s, <2>0 DEF Says
  <2>2. Wrote(u, v, "requests", m, row)
    BY <1>12, <2>0, TableNames DEF Wrote
  <2>3. Same(u["requests"], requests, RequestFields, Tables["requests"])
    BY TableNames DEF Mirror
  <2>4. \A j \in Tables["requests"] : j # m => requests'[j] = requests[j]
    BY <1>s, TableNames
  <2>5. requests'[m].status # "Absent"
    BY <1>s
  <2>6. Same(v["requests"], requests', RequestFields, Tables["requests"])
    BY <2>1, <2>2, <2>3, <2>4, <2>5 DEF Wrote, Same
  <2>. QED BY <2>6, TableNames
<1>17. OffersMirrored(v)' /\ PositionsMirrored(v)' /\ DisputesMirrored(v)'
  BY <1>2, <1>13, TableNames, OfferRowsAside, PositionRowsAside, DisputeRowsAside
<1>18. AnchorsMirrored(v)'
  <2>1. \A j \in MilestoneId : milestones'[j].evidence_hash = milestones[j].evidence_hash
    BY <1>3, <1>4, <1>5 DEF ContractInv, TypeOK, MilestoneRecord
  <2>. QED BY <1>13, <2>1, TableNames, AnchorRowsAside
<1>19. Mirror(v)'
  BY <1>12, <1>15, <1>16, <1>17, <1>18, MirrorParts
<1>. QED BY <1>1, <1>2, <1>8, <1>10, <1>19, OneEvent

\* A request that is there changes its status, and so does its row.
LEMMA RequestRowMoved ==
  ASSUME ContractInv, NEW t, Mirror(t), NEW m \in MilestoneId, requests[m].status # "Absent",
         NEW status \in {"Open", "Accepted", "Cancelled"},
         requests' = [requests EXCEPT ![m].status = status],
         NEW v, Wrote(t, v, "requests", m, joined([status |-> status], t["requests"][m]))
  PROVE  Same(v["requests"], requests', RequestFields, MilestoneId)
<1>. DEFINE changes == [status |-> status]
<1>1. requests \in [MilestoneId -> RequestRecord]
  BY DEF ContractInv, TypeOK
<1>2. /\ requests'[m] = [requests[m] EXCEPT !.status = status]
      /\ \A j \in MilestoneId : j # m => requests'[j] = requests[j]
  BY <1>1
<1>3. Same(t["requests"], requests, RequestFields, MilestoneId)
  BY DEF Mirror
<1>4. Says(t["requests"][m], requests[m], RequestFields)
  BY <1>3 DEF Same
<1>5. \A x \in RequestFields \cup {"status"} :
        requests'[m][x] = IF x \in DOMAIN changes THEN changes[x] ELSE requests[m][x]
  BY <1>1, <1>2 DEF RequestFields, RequestRecord
<1>6. requests'[m].status # "Absent"
  BY <1>1, <1>2 DEF RequestRecord
<1>. HIDE DEF changes
<1>7. Says(joined(changes, t["requests"][m]), requests'[m], RequestFields)
  BY <1>4, <1>5, SaysJoined
<1>8. /\ v["requests"][m] = joined(changes, t["requests"][m])
      /\ \A j \in MilestoneId : j # m => v["requests"][j] = t["requests"][j]
  BY TableNames DEF Wrote, changes
<1>. QED BY <1>2, <1>3, <1>6, <1>7, <1>8 DEF Same

LEMMA FollowCancelRequest ==
  ASSUME ContractInv, NEW u, Follows(u), Mirror(u), UNCHANGED tables, NEW m \in MilestoneId,
         invoke_cancel_finance_request(m)
  PROVE  Followed'
<1>. DEFINE fields == [milestone |-> m, was_expired |-> ~is_live(requests[m].expires_at)]
<1>1. /\ cancel_finance_request(m)
      /\ publish(<<event("finance_request_cancelled", 0, fields)>>)
  BY DEF invoke_cancel_finance_request, FinanceRequestCancelled
<1>2. /\ UNCHANGED <<tables, orders, offers, offer_count, accepted, positions, disputes, now>>
      /\ milestones[m].status = "FinanceRequested" /\ requests[m].status = "Open"
      /\ requests' = [requests EXCEPT ![m].status = "Cancelled"]
  BY <1>1 DEF cancel_finance_request, disputeVars, orderVars, in_active_order
<1>3. milestones[m] \in MilestoneRecord /\ u["milestones"][m] # NoRow /\ Shaped(u)
  BY <1>2, UnderWay
<1>r. u["requests"][m] # NoRow
  BY <1>2, RowsThere
<1>4. PICK later : later = [milestones[m] EXCEPT !.status = "Funded"]
  OBVIOUS
<1>5. milestones' = [milestones EXCEPT ![m] = later]
  BY <1>1, <1>4 DEF cancel_finance_request, ContractInv, TypeOK
<1>6. DOMAIN fields = {"milestone", "was_expired"} /\ fields.milestone = m
  OBVIOUS
<1>. HIDE DEF fields
<1>7. PICK e, d : Announces(e, d, "finance_request_cancelled", 0, fields, 1)
  <2>1. Clean(fields)
    BY <1>6 DEF Clean
  <2>. QED BY <2>1, Announced
<1>8. /\ e = event("finance_request_cancelled", 0, fields) /\ Plain(e) /\ d = stamped(e, 1)
      /\ Carries(d, "finance_request_cancelled", {"milestone"}) /\ d.milestone = m
  BY <1>6, <1>7 DEF Announces, Carries
<1>9. PICK changes : changes = [status |-> "Funded"]
  OBVIOUS
<1>w. PICK w : w = changed(u, "requests", m, [status |-> "Cancelled"])
  OBVIOUS
<1>v. PICK v : v = changed(w, "milestones", m, changes)
  OBVIOUS
<1>10. Applies(u, d, v)
  BY <1>3, <1>8, <1>9, <1>r, <1>w, <1>v, RequestCancelledApplies
<1>11. /\ Shaped(w) /\ Beside(u, w, {"requests"})
       /\ Wrote(u, w, "requests", m, joined([status |-> "Cancelled"], u["requests"][m]))
  BY <1>3, <1>w, ChangedRow, TableNames
<1>12. /\ Shaped(v) /\ Wrote(u, v, "milestones", m, joined(changes, u["milestones"][m]))
       /\ Beside(u, v, {"requests", "milestones"}) /\ v["requests"] = w["requests"]
  BY <1>11, <1>v, ThenChanged, TableNames
<1>13. \A table \in DOMAIN Tables \ {"requests", "milestones"} : v[table] = u[table]
  BY <1>12 DEF Beside
<1>14. Reworked(m, later, changes)
  BY <1>2, <1>3, <1>4, <1>5, <1>9 DEF Reworked, Terminal, MilestoneFields, MilestoneRecord
<1>15. /\ Same(v["orders"], orders', OrderFields, OrderId) /\ OrdersTimed(v)'
       /\ Same(v["milestones"], milestones', MilestoneFields, MilestoneId)
       /\ PayoutsMirrored(v)'
  BY <1>2, <1>12, <1>13, <1>14, TableNames, MilestoneStep
<1>16. Same(v["requests"], requests', RequestFields, MilestoneId)
  <2>1. Wrote(u, v, "requests", m, joined([status |-> "Cancelled"], u["requests"][m]))
    BY <1>11, <1>12 DEF Wrote
  <2>. QED BY <1>2, <2>1, RequestRowMoved
<1>17. OffersMirrored(v)' /\ PositionsMirrored(v)' /\ DisputesMirrored(v)'
  BY <1>2, <1>13, TableNames, OfferRowsAside, PositionRowsAside, DisputeRowsAside
<1>18. AnchorsMirrored(v)'
  <2>1. \A j \in MilestoneId : milestones'[j].evidence_hash = milestones[j].evidence_hash
    BY <1>3, <1>4, <1>5 DEF ContractInv, TypeOK, MilestoneRecord
  <2>. QED BY <1>13, <2>1, TableNames, AnchorRowsAside
<1>19. Mirror(v)'
  BY <1>12, <1>15, <1>16, <1>17, <1>18, MirrorParts
<1>. QED BY <1>1, <1>2, <1>8, <1>10, <1>19, OneEvent

LEMMA FollowSubmit ==
  ASSUME ContractInv, NEW u, Follows(u), Mirror(u), UNCHANGED tables, NEW m \in MilestoneId,
         NEW digest \in Digest, invoke_submit_evidence(m, digest)
  PROVE  Followed'
<1>. DEFINE fields == [milestone |-> m, evidence_hash |-> digest]
            written == [content_hash |-> digest, status |-> "Anchored"]
<1>1. /\ submit_evidence(m, digest) /\ publish(<<event("evidence_submitted", 0, fields)>>)
  BY DEF invoke_submit_evidence, EvidenceSubmitted
<1>2. /\ UNCHANGED <<tables, orders, requests, offers, offer_count, accepted, positions, disputes, now>>
      /\ milestones[m].status \in Workable
  BY <1>1 DEF submit_evidence, financeVars, disputeVars, orderVars, in_active_order
<1>3. milestones[m] \in MilestoneRecord /\ u["milestones"][m] # NoRow /\ Shaped(u)
  BY <1>2, UnderWay DEF Workable
<1>4. PICK later : later = [milestones[m] EXCEPT !.evidence_hash = digest, !.status = "Submitted"]
  OBVIOUS
<1>5. milestones' = [milestones EXCEPT ![m] = later]
  BY <1>1, <1>4 DEF submit_evidence, ContractInv, TypeOK
<1>6. /\ DOMAIN fields = {"milestone", "evidence_hash"}
      /\ fields.milestone = m /\ fields.evidence_hash = digest
      /\ DOMAIN written = {"content_hash", "status"} /\ written.content_hash = digest
  OBVIOUS
<1>. HIDE DEF fields
<1>7. PICK e, d : Announces(e, d, "evidence_submitted", 0, fields, 1)
  <2>1. Clean(fields)
    BY <1>6 DEF Clean
  <2>. QED BY <2>1, Announced
<1>8. /\ e = event("evidence_submitted", 0, fields) /\ Plain(e) /\ d = stamped(e, 1)
      /\ Carries(d, "evidence_submitted", {"milestone", "evidence_hash"})
      /\ d.milestone = m /\ d.evidence_hash = digest
  BY <1>6, <1>7 DEF Announces, Carries
<1>9. PICK changes : changes = [evidence_hash |-> digest, status |-> "Submitted"]
  OBVIOUS
<1>w. PICK w : w = changed(u, "milestones", m, changes)
  OBVIOUS
<1>v. PICK v : v = upserted(w, "anchors", m, written)
  OBVIOUS
<1>10. Applies(u, d, v)
  BY <1>3, <1>8, <1>9, <1>w, <1>v, EvidenceApplies
<1>. HIDE DEF written
<1>11. /\ Shaped(w) /\ Beside(u, w, {"milestones"})
       /\ Wrote(u, w, "milestones", m, joined(changes, u["milestones"][m]))
  BY <1>3, <1>w, ChangedRow, TableNames
<1>12. Shaped(v) /\ Beside(w, v, {"anchors"}) /\ Upserts(w, v, "anchors", m, written)
  BY <1>11, <1>v, UpsertedRow, TableNames
<1>13. /\ \A table \in DOMAIN Tables \ {"anchors", "milestones"} : v[table] = u[table]
       /\ v["milestones"] = w["milestones"] /\ w["anchors"] = u["anchors"]
  BY <1>11, <1>12, TableNames DEF Beside
<1>14. Reworked(m, later, changes)
  BY <1>2, <1>3, <1>4, <1>5, <1>9
     DEF Reworked, Terminal, Workable, MilestoneFields, MilestoneRecord
<1>15. /\ Same(v["orders"], orders', OrderFields, OrderId) /\ OrdersTimed(v)'
       /\ Same(v["milestones"], milestones', MilestoneFields, MilestoneId)
       /\ PayoutsMirrored(v)'
  <2>1. Wrote(u, v, "milestones", m, joined(changes, u["milestones"][m]))
    BY <1>11, <1>13 DEF Wrote
  <2>. QED BY <1>2, <1>13, <1>14, <2>1, TableNames, MilestoneStep
<1>16. Same(v["requests"], requests', RequestFields, MilestoneId)
  BY <1>2, <1>13, TableNames, RequestRowsAside
<1>17. OffersMirrored(v)' /\ PositionsMirrored(v)' /\ DisputesMirrored(v)'
  BY <1>2, <1>13, TableNames, OfferRowsAside, PositionRowsAside, DisputeRowsAside
<1>18. AnchorsMirrored(v)'
  <2>1. /\ milestones'[m].evidence_hash = digest
        /\ \A j \in MilestoneId : j # m => milestones'[j] = milestones[j]
    BY <1>3, <1>4, <1>5 DEF ContractInv, TypeOK, MilestoneRecord
  <2>2. /\ "content_hash" \in DOMAIN v["anchors"][m] /\ v["anchors"][m].content_hash = digest
        /\ \A j \in MilestoneId : j # m => v["anchors"][j] = u["anchors"][j]
    BY <1>6, <1>12, <1>13, TableNames DEF Wrote, Upserts
  <2>. QED BY <2>1, <2>2 DEF AnchorsMirrored, Mirror
<1>19. Mirror(v)'
  BY <1>12, <1>15, <1>16, <1>17, <1>18, MirrorParts
<1>. QED BY <1>1, <1>2, <1>8, <1>10, <1>19, OneEvent

\* A dispute that is there is decided, and so is its row.
LEMMA DisputeRowMoved ==
  ASSUME ContractInv, NEW t, Mirror(t), NEW d \in DisputeId, disputes[d].status # "Absent",
         NEW status \in {"ResolvedSettle", "ResolvedRefund"},
         disputes' = [disputes EXCEPT ![d].status = status],
         NEW v, Wrote(t, v, "disputes", d, joined([status |-> status], t["disputes"][d]))
  PROVE  DisputesMirrored(v)'
<1>. DEFINE changes == [status |-> status]
            old == t["disputes"][d]
            row == joined(changes, old)
<1>1. disputes \in [DisputeId -> DisputeRecord]
  BY DEF ContractInv, TypeOK
<1>2. /\ disputes'[d] = [disputes[d] EXCEPT !.status = status]
      /\ disputes'[d].status = status /\ disputes'[d].milestone_id = disputes[d].milestone_id
      /\ \A j \in DisputeId : j # d => disputes'[j] = disputes[j]
  BY <1>1 DEF DisputeRecord
<1>3. /\ Same(t["disputes"], disputes, {}, DisputeId)
      /\ "milestone" \in DOMAIN old /\ old.milestone = disputes[d].milestone_id
  BY DEF Mirror, DisputesMirrored
<1>4. DOMAIN changes = {"status"} /\ changes.status = status
  OBVIOUS
<1>. HIDE DEF changes, old
<1>5. /\ DOMAIN row = DOMAIN changes \cup DOMAIN old
      /\ \A x \in DOMAIN changes : row[x] = changes[x]
      /\ \A x \in DOMAIN old \ DOMAIN changes : row[x] = old[x]
  BY ONLY JoinedFacts
<1>. HIDE DEF row
<1>6. /\ "status" \in DOMAIN row /\ row.status = status
      /\ "milestone" \in DOMAIN row /\ row.milestone = disputes[d].milestone_id
  <2>1. "status" \in DOMAIN row /\ row["status"] = status
    BY <1>4, <1>5
  <2>2. "milestone" \in DOMAIN old \ DOMAIN changes
    BY <1>3, <1>4
  <2>3. "milestone" \in DOMAIN row /\ row["milestone"] = old["milestone"]
    BY <1>5, <2>2
  <2>. QED BY <1>3, <2>1, <2>3
<1>7. v["disputes"][d] = row /\ \A j \in DisputeId : j # d => v["disputes"][j] = t["disputes"][j]
  BY TableNames DEF Wrote, row, old, changes
<1>8. Same(v["disputes"], disputes', {}, DisputeId)
  BY <1>2, <1>3, <1>6, <1>7 DEF Same, Says
<1>9. ASSUME NEW j \in DisputeId, disputes'[j].status # "Absent"
      PROVE  /\ "milestone" \in DOMAIN v["disputes"][j]
             /\ v["disputes"][j].milestone = disputes'[j].milestone_id
  <2>1. CASE j = d
    BY <1>2, <1>6, <1>7, <2>1
  <2>2. CASE j # d
    BY <1>2, <1>7, <1>9, <2>2 DEF Mirror, DisputesMirrored
  <2>. QED BY <2>1, <2>2
<1>10. Same(v["disputes"], disputes, {}, DisputeId)'
  BY <1>8 DEF Same
<1>. QED BY <1>9, <1>10 DEF DisputesMirrored

\* The dispute that is about to be decided.
LEMMA Resolvable ==
  ASSUME ContractInv, NEW t, Mirror(t), NEW m \in MilestoneId, resolvable(m)
  PROVE  LET d == milestone_dispute[m] IN
         /\ d \in DisputeId /\ disputes[d].status = "Open" /\ disputes[d].milestone_id = m
         /\ t["disputes"][d] # NoRow /\ t["disputes"][d].milestone = m
         /\ milestones[m].status = "Disputed"
<1>. DEFINE d == milestone_dispute[m]
<1>1. /\ d \in DisputeId /\ disputes[d].status = "Open" /\ disputes[d].milestone_id = m
      /\ milestones[m].status = "Disputed"
  BY DEF resolvable, in_active_order, ContractInv, TypeOK, DisputesRegistered
<1>. HIDE DEF d
<1>2. t["disputes"][d] # NoRow /\ t["disputes"][d].milestone = m
  BY <1>1, RowsThere DEF Mirror, DisputesMirrored
<1>. QED BY <1>1, <1>2 DEF d

LEMMA FollowResolveSettle ==
  ASSUME ContractInv, NEW u, Follows(u), Mirror(u), UNCHANGED tables, NEW m \in MilestoneId,
         invoke_resolve_settle(m)
  PROVE  Followed'
<1>. DEFINE dispute == milestone_dispute[m]
            fields == [milestone |-> m, dispute |-> dispute, settled |-> TRUE]
<1>1. /\ resolve_settle(m) /\ publish(<<event("dispute_resolved", 0, fields)>>)
  BY DEF invoke_resolve_settle, DisputeResolved
<1>2. /\ UNCHANGED <<tables, orders, requests, offers, offer_count, accepted, positions, now>>
      /\ disputes' = [disputes EXCEPT ![dispute].status = "ResolvedSettle"]
  BY <1>1 DEF resolve_settle, resolved, financeVars, orderVars
<1>r. /\ dispute \in DisputeId /\ disputes[dispute].status = "Open"
      /\ u["disputes"][dispute] # NoRow /\ u["disputes"][dispute].milestone = m
      /\ milestones[m].status = "Disputed"
  BY <1>1, Resolvable DEF resolve_settle
<1>3. milestones[m] \in MilestoneRecord /\ u["milestones"][m] # NoRow /\ Shaped(u)
  BY <1>r, UnderWay
<1>4. PICK later : later = [milestones[m] EXCEPT !.status = "Verified"]
  OBVIOUS
<1>5. milestones' = [milestones EXCEPT ![m] = later]
  BY <1>1, <1>4 DEF resolve_settle, ContractInv, TypeOK
<1>6. /\ DOMAIN fields = {"milestone", "dispute", "settled"}
      /\ fields.milestone = m /\ fields.dispute = dispute /\ fields.settled = TRUE
  OBVIOUS
<1>. HIDE DEF fields, dispute
<1>7. PICK e, d : Announces(e, d, "dispute_resolved", 0, fields, 1)
  <2>1. Clean(fields)
    BY <1>6 DEF Clean
  <2>. QED BY <2>1, Announced
<1>8. /\ e = event("dispute_resolved", 0, fields) /\ Plain(e) /\ d = stamped(e, 1)
      /\ Carries(d, "dispute_resolved", {"dispute", "settled"})
      /\ d.dispute = dispute /\ d.settled = TRUE
  BY <1>6, <1>7 DEF Announces, Carries
<1>9. PICK changes : changes = [status |-> "Verified"]
  OBVIOUS
<1>w. PICK w : w = changed(u, "disputes", dispute, [status |-> "ResolvedSettle"])
  OBVIOUS
<1>v. PICK v : v = changed(w, "milestones", m, changes)
  OBVIOUS
<1>10. Applies(u, d, v)
  BY <1>3, <1>8, <1>9, <1>r, <1>w, <1>v, SettleDecidedApplies
<1>11. /\ Shaped(w) /\ Beside(u, w, {"disputes"})
       /\ Wrote(u, w, "disputes", dispute,
                joined([status |-> "ResolvedSettle"], u["disputes"][dispute]))
  BY <1>3, <1>r, <1>w, ChangedRow, TableNames
<1>12. /\ Shaped(v) /\ Wrote(u, v, "milestones", m, joined(changes, u["milestones"][m]))
       /\ Beside(u, v, {"disputes", "milestones"}) /\ v["disputes"] = w["disputes"]
  BY <1>11, <1>v, ThenChanged, TableNames
<1>13. \A table \in DOMAIN Tables \ {"disputes", "milestones"} : v[table] = u[table]
  BY <1>12 DEF Beside
<1>14. Reworked(m, later, changes)
  BY <1>r, <1>3, <1>4, <1>5, <1>9 DEF Reworked, Terminal, MilestoneFields, MilestoneRecord
<1>15. /\ Same(v["orders"], orders', OrderFields, OrderId) /\ OrdersTimed(v)'
       /\ Same(v["milestones"], milestones', MilestoneFields, MilestoneId)
       /\ PayoutsMirrored(v)'
  BY <1>2, <1>12, <1>13, <1>14, TableNames, MilestoneStep
<1>16. DisputesMirrored(v)'
  <2>1. Wrote(u, v, "disputes", dispute,
              joined([status |-> "ResolvedSettle"], u["disputes"][dispute]))
    BY <1>11, <1>12 DEF Wrote
  <2>. QED BY <1>2, <1>r, <2>1, DisputeRowMoved
<1>17. /\ Same(v["requests"], requests', RequestFields, MilestoneId)
       /\ OffersMirrored(v)' /\ PositionsMirrored(v)'
  BY <1>2, <1>13, TableNames, RequestRowsAside, OfferRowsAside, PositionRowsAside
<1>18. AnchorsMirrored(v)'
  <2>1. \A j \in MilestoneId : milestones'[j].evidence_hash = milestones[j].evidence_hash
    BY <1>3, <1>4, <1>5 DEF ContractInv, TypeOK, MilestoneRecord
  <2>. QED BY <1>13, <2>1, TableNames, AnchorRowsAside
<1>19. Mirror(v)'
  BY <1>12, <1>15, <1>16, <1>17, <1>18, MirrorParts
<1>. QED BY <1>1, <1>2, <1>8, <1>10, <1>19, OneEvent

LEMMA FollowOpenDispute ==
  ASSUME ContractInv, NEW u, Follows(u), Mirror(u), UNCHANGED tables, NEW m \in MilestoneId,
         NEW caller \in Account, invoke_open_dispute(m, caller)
  PROVE  Followed'
<1>. DEFINE dispute == dispute_count + 1
            fields == [milestone |-> m, dispute |-> dispute, opened_by |-> caller]
            row == [milestone |-> m, status |-> "Open"]
            entry == [milestone_id |-> m, opened_by |-> caller, status |-> "Open"]
<1>1. /\ open_dispute(m, caller) /\ publish(<<event("dispute_opened", 0, fields)>>)
  BY DEF invoke_open_dispute, DisputeOpened
<1>2. /\ UNCHANGED <<tables, orders, requests, offers, offer_count, accepted, positions, now>>
      /\ disputes' = [disputes EXCEPT ![dispute] = entry]
      /\ milestones[m].status \in Workable
  BY <1>1 DEF open_dispute, financeVars, orderVars, in_active_order
<1>r. dispute \in DisputeId /\ disputes[dispute].status = "Absent"
  <2>1. dispute = dispute_count + 1 /\ dispute_count < MaxDisputes
    BY <1>1 DEF open_dispute
  <2>2. dispute_count \in Nat /\ MaxDisputes \in Nat
    BY LimitsAssumption DEF ContractInv, TypeOK
  <2>3. dispute \in DisputeId /\ ~(dispute <= dispute_count)
    BY <2>1, <2>2 DEF DisputeId
  <2>. HIDE DEF dispute
  <2>. QED BY <2>3 DEF ContractInv, DisputesRegistered
<1>s. u["disputes"][dispute] = NoRow
  BY <1>r, RowsThere
<1>3. milestones[m] \in MilestoneRecord /\ u["milestones"][m] # NoRow /\ Shaped(u)
  BY <1>2, UnderWay DEF Workable
<1>4. PICK later : later = [milestones[m] EXCEPT !.status = "Disputed"]
  OBVIOUS
<1>5. milestones' = [milestones EXCEPT ![m] = later]
  BY <1>1, <1>4 DEF open_dispute, ContractInv, TypeOK
<1>6. /\ DOMAIN fields = {"milestone", "dispute", "opened_by"}
      /\ fields.milestone = m /\ fields.dispute = dispute
      /\ DOMAIN row = {"milestone", "status"} /\ row.milestone = m /\ row.status = "Open"
      /\ entry.milestone_id = m /\ entry.status = "Open"
  OBVIOUS
<1>7. disputes'[dispute] = entry /\ \A j \in DisputeId : j # dispute => disputes'[j] = disputes[j]
  BY <1>2, <1>r DEF ContractInv, TypeOK
<1>. HIDE DEF fields, dispute, entry
<1>8. PICK e, d : Announces(e, d, "dispute_opened", 0, fields, 1)
  <2>1. Clean(fields)
    BY <1>6 DEF Clean
  <2>. QED BY <2>1, Announced
<1>9. /\ e = event("dispute_opened", 0, fields) /\ Plain(e) /\ d = stamped(e, 1)
      /\ Carries(d, "dispute_opened", {"milestone", "dispute"})
      /\ d.milestone = m /\ d.dispute = dispute
  BY <1>6, <1>8 DEF Announces, Carries
<1>10. PICK changes : changes = [status |-> "Disputed"]
  OBVIOUS
<1>w. PICK w : w = placed(u, "disputes", dispute, row)
  OBVIOUS
<1>v. PICK v : v = changed(w, "milestones", m, changes)
  OBVIOUS
<1>11. Applies(u, d, v)
  BY <1>3, <1>9, <1>10, <1>r, <1>s, <1>w, <1>v, DisputeOpenedApplies
<1>. HIDE DEF row
<1>12. Shaped(w) /\ Beside(u, w, {"disputes"}) /\ Wrote(u, w, "disputes", dispute, row)
  BY <1>3, <1>r, <1>w, PlacedRow, TableNames
<1>13. /\ Shaped(v) /\ Wrote(u, v, "milestones", m, joined(changes, u["milestones"][m]))
       /\ Beside(u, v, {"disputes", "milestones"}) /\ v["disputes"] = w["disputes"]
  BY <1>12, <1>v, ThenChanged, TableNames
<1>14. \A table \in DOMAIN Tables \ {"disputes", "milestones"} : v[table] = u[table]
  BY <1>13 DEF Beside
<1>15. Reworked(m, later, changes)
  BY <1>2, <1>3, <1>4, <1>5, <1>10
     DEF Reworked, Terminal, Workable, MilestoneFields, MilestoneRecord
<1>16. /\ Same(v["orders"], orders', OrderFields, OrderId) /\ OrdersTimed(v)'
       /\ Same(v["milestones"], milestones', MilestoneFields, MilestoneId)
       /\ PayoutsMirrored(v)'
  BY <1>2, <1>13, <1>14, <1>15, TableNames, MilestoneStep
<1>17. DisputesMirrored(v)'
  <2>1. v["disputes"][dispute] = row
        /\ \A j \in DisputeId : j # dispute => v["disputes"][j] = u["disputes"][j]
    BY <1>12, <1>13, TableNames DEF Wrote
  <2>2. Same(v["disputes"], disputes', {}, DisputeId)
    BY <1>6, <1>7, <2>1 DEF Mirror, DisputesMirrored, Same, Says
  <2>3. ASSUME NEW j \in DisputeId, disputes'[j].status # "Absent"
        PROVE  /\ "milestone" \in DOMAIN v["disputes"][j]
               /\ v["disputes"][j].milestone = disputes'[j].milestone_id
    <3>1. CASE j = dispute
      BY <1>6, <1>7, <2>1, <3>1
    <3>2. CASE j # dispute
      BY <1>7, <2>1, <2>3, <3>2 DEF Mirror, DisputesMirrored
    <3>. QED BY <3>1, <3>2
  <2>4. Same(v["disputes"], disputes, {}, DisputeId)'
    BY <2>2 DEF Same
  <2>. QED BY <2>3, <2>4 DEF DisputesMirrored
<1>18. /\ Same(v["requests"], requests', RequestFields, MilestoneId)
       /\ OffersMirrored(v)' /\ PositionsMirrored(v)'
  BY <1>2, <1>14, TableNames, RequestRowsAside, OfferRowsAside, PositionRowsAside
<1>19. AnchorsMirrored(v)'
  <2>1. \A j \in MilestoneId : milestones'[j].evidence_hash = milestones[j].evidence_hash
    BY <1>3, <1>4, <1>5 DEF ContractInv, TypeOK, MilestoneRecord
  <2>. QED BY <1>14, <2>1, TableNames, AnchorRowsAside
<1>20. Mirror(v)'
  BY <1>13, <1>16, <1>17, <1>18, <1>19, MirrorParts
<1>. QED BY <1>1, <1>2, <1>9, <1>11, <1>20, OneEvent

-----------------------------------------------------------------------------
(* Financing                                                                *)

LEMMA MilestonesAside ==
  ASSUME ContractInv, NEW t, Mirror(t), UNCHANGED <<orders, milestones, now>>,
         NEW v, v["orders"] = t["orders"], v["milestones"] = t["milestones"],
         v["anchors"] = t["anchors"], v["settlements"] = t["settlements"],
         v["refunds"] = t["refunds"]
  PROVE  /\ Same(v["orders"], orders', OrderFields, OrderId) /\ OrdersTimed(v)'
         /\ Same(v["milestones"], milestones', MilestoneFields, MilestoneId)
         /\ AnchorsMirrored(v)' /\ PayoutsMirrored(v)'
<1>1. /\ Same(v["orders"], orders', OrderFields, OrderId) /\ OrdersTimed(v)' /\ OrdersKept(t, v)
  BY OrderRowsAside
<1>2. Same(v["milestones"], milestones', MilestoneFields, MilestoneId)
  BY MilestoneRowsAside
<1>3. AnchorsMirrored(v)'
  BY AnchorRowsAside
<1>4. NoneEnds
  BY DEF NoneEnds
<1>. QED BY <1>1, <1>2, <1>3, <1>4, PayoutRowsAside

\* A row with its milestone changes its status.
restated(old, status) == joined([status |-> status], old)

LEMMA MovedFacts ==
  ASSUME NEW old, NEW status
  PROVE  /\ DOMAIN restated(old, status) = DOMAIN old \cup {"status"}
         /\ restated(old, status).status = status
         /\ \A x \in DOMAIN old \ {"status"} : restated(old, status)[x] = old[x]
<1>. DEFINE changes == [status |-> status]
            j == joined(changes, old)
<1>1. DOMAIN changes = {"status"} /\ changes.status = status
  OBVIOUS
<1>. HIDE DEF changes
<1>2. /\ DOMAIN j = DOMAIN changes \cup DOMAIN old
      /\ \A x \in DOMAIN changes : j[x] = changes[x]
      /\ \A x \in DOMAIN old \ DOMAIN changes : j[x] = old[x]
  BY ONLY JoinedFacts
<1>3. restated(old, status) = j
  BY DEF changes, restated
<1>. HIDE DEF j
<1>. QED BY <1>1, <1>2, <1>3

LEMMA StatusRow ==
  ASSUME NEW old, "milestone" \in DOMAIN old, NEW status
  PROVE  /\ "milestone" \in DOMAIN restated(old, status)
         /\ restated(old, status).milestone = old.milestone
         /\ "status" \in DOMAIN restated(old, status)
         /\ restated(old, status).status = status /\ restated(old, status) # NoRow
<1>. DEFINE row == restated(old, status)
<1>1. /\ DOMAIN row = DOMAIN old \cup {"status"} /\ row.status = status
      /\ \A x \in DOMAIN old \ {"status"} : row[x] = old[x]
  BY MovedFacts
<1>. HIDE DEF row
<1>2. "milestone" \in DOMAIN row /\ row.milestone = old.milestone /\ "status" \in DOMAIN row
  BY <1>1
<1>3. DOMAIN NoRow = {"status"}
  BY DEF NoRow
<1>4. row # NoRow
  BY <1>2, <1>3
<1>. QED BY <1>1, <1>2, <1>4 DEF row

\* An open offer has its row, and nobody selected it.
LEMMA OpenOffer ==
  ASSUME ContractInv, NEW t, Mirror(t), NEW f \in OfferId, offers[f].status = "Open"
  PROVE  /\ f <= offer_count /\ t["offers"][f] # NoRow /\ "milestone" \in DOMAIN t["offers"][f]
         /\ t["offers"][f].milestone = offers[f].milestone_id
         /\ offers[f].milestone_id \in MilestoneId
         /\ \A m \in MilestoneId : accepted[m].status # "Absent" => accepted[m].id # f
<1>1. f <= offer_count /\ offers[f].milestone_id \in MilestoneId /\ offer_count \in Nat /\ f \in Nat
  BY DEF ContractInv, OffersRegistered, TypeOK, OfferId
<1>2. /\ t["offers"][f] # NoRow /\ "milestone" \in DOMAIN t["offers"][f]
      /\ t["offers"][f].milestone = offers[f].milestone_id /\ t["offers"][f].status = "Open"
  BY <1>1 DEF Mirror, OffersMirrored, OffersPlaced
<1>3. ASSUME NEW m \in MilestoneId, accepted[m].status # "Absent", accepted[m].id = f PROVE FALSE
  <2>1. t["offers"][f].status = accepted[m].status
    BY <1>3 DEF Mirror, OffersMirrored, OffersPlaced
  <2>2. accepted[m].status \in {"Absent", "Accepted", "Funded"}
    BY DEF ContractInv, TypeOK, AcceptedRecord
  <2>. QED BY <1>2, <2>1, <2>2
<1>. QED BY <1>1, <1>2, <1>3

\* The terms of an offer stay when its row changes its status.
LEMMA TermsMoved ==
  ASSUME NEW t, Mirror(t), NEW f \in OfferId, t["offers"][f] # NoRow, NEW status,
         \A g \in OfferId : g # f => offers'[g] = offers[g],
         offers'[f].status # "Absent" =>
           offers[f].status # "Absent" /\ \A x \in OfferFields : offers'[f][x] = offers[f][x],
         \A j \in MilestoneId : accepted'[j].status # "Absent" =>
           \/ accepted'[j] = accepted[j] /\ accepted[j].id # f
           \/ accepted'[j].id = f /\ \A x \in OfferFields : accepted'[j][x] = t["offers"][f][x],
         \A j \in MilestoneId : accepted[j].status = "Accepted" /\ accepted[j].id # f =>
           accepted'[j] = accepted[j],
         status = "Accepted" =>
           /\ accepted'[t["offers"][f].milestone].status = "Accepted"
           /\ accepted'[t["offers"][f].milestone].id = f,
         NEW v, Wrote(t, v, "offers", f, restated(t["offers"][f], status))
  PROVE  TermsMirrored(v)'
<1>1. PICK row : row = restated(t["offers"][f], status)
  OBVIOUS
<1>2. PICK old : old = t["offers"][f]
  OBVIOUS
<1>3. /\ OfferFields \cup {"milestone", "status"} \subseteq DOMAIN old
      /\ old.milestone \in MilestoneId
      /\ offers[f].status # "Absent" => \A x \in OfferFields : old[x] = offers[f][x]
  <2>1. TermsMirrored(t)
    BY DEF Mirror, OffersMirrored
  <2>2. /\ OfferFields \cup {"milestone", "status"} \subseteq DOMAIN t["offers"][f]
        /\ t["offers"][f].milestone \in MilestoneId
        /\ offers[f].status # "Absent" =>
             \A x \in OfferFields : t["offers"][f][x] = offers[f][x]
    BY <2>1 DEF TermsMirrored
  <2>. QED BY <1>2, <2>2
<1>4. /\ DOMAIN row = DOMAIN old \cup {"status"} /\ row.status = status
      /\ \A x \in DOMAIN old \ {"status"} : row[x] = old[x]
  <2>1. row = restated(old, status)
    BY <1>1, <1>2
  <2>2. /\ DOMAIN restated(old, status) = DOMAIN old \cup {"status"}
        /\ restated(old, status).status = status
        /\ \A x \in DOMAIN old \ {"status"} : restated(old, status)[x] = old[x]
    BY ONLY MovedFacts
  <2>. QED BY <2>1, <2>2
<1>5. "status" \notin OfferFields
  BY DEF OfferFields
<1>6. /\ OfferFields \cup {"milestone", "status"} \subseteq DOMAIN row
      /\ row.milestone = old.milestone /\ \A x \in OfferFields : row[x] = old[x]
  BY <1>3, <1>4, <1>5
<1>7. v["offers"][f] = row /\ \A g \in OfferId : g # f => v["offers"][g] = t["offers"][g]
  BY <1>1, TableNames DEF Wrote
<1>8. ASSUME NEW g \in OfferId, v["offers"][g] # NoRow
      PROVE  /\ OfferFields \cup {"milestone", "status"} \subseteq DOMAIN v["offers"][g]
             /\ v["offers"][g].milestone \in MilestoneId
             /\ offers'[g].status # "Absent" =>
                  \A x \in OfferFields : v["offers"][g][x] = offers'[g][x]
             /\ v["offers"][g].status = "Accepted" =>
                  /\ accepted'[v["offers"][g].milestone].status = "Accepted"
                  /\ accepted'[v["offers"][g].milestone].id = g
  <2>1. CASE g = f
    BY <1>2, <1>3, <1>4, <1>6, <1>7, <2>1
  <2>2. CASE g # f
    BY <1>7, <1>8, <2>2 DEF Mirror, OffersMirrored, TermsMirrored
  <2>. QED BY <2>1, <2>2
<1>9. ASSUME NEW j \in MilestoneId, accepted'[j].status # "Absent", NEW x \in OfferFields
      PROVE  v["offers"][accepted'[j].id][x] = accepted'[j][x]
  <2>1. CASE accepted'[j] = accepted[j] /\ accepted[j].id # f
    <3>1. accepted[j].id \in OfferId
      BY <1>9, <2>1 DEF Mirror, OffersMirrored, OffersPlaced
    <3>. QED BY <1>7, <1>9, <2>1, <3>1 DEF Mirror, OffersMirrored, TermsMirrored
  <2>2. CASE accepted'[j].id = f /\ \A y \in OfferFields : accepted'[j][y] = t["offers"][f][y]
    BY <1>2, <1>6, <1>7, <1>9, <2>2
  <2>. QED BY <1>9, <2>1, <2>2
<1>. QED BY <1>8, <1>9 DEF TermsMirrored

LEMMA FollowMakeOffer ==
  ASSUME ContractInv, NEW u, Follows(u), Mirror(u), UNCHANGED tables, NEW m \in MilestoneId,
         NEW funder \in Account, NEW principal \in Payments, NEW repayment \in Payments,
         NEW expires_at \in Expiries,
         invoke_make_offer(m, funder, principal, repayment, expires_at)
  PROVE  Followed'
<1>. DEFINE f == offer_count + 1
            fields == [milestone |-> m, offer |-> f, funder |-> funder, principal |-> principal,
                       repayment |-> repayment, expires_at |-> expires_at]
            F == {"milestone", "offer", "funder", "principal", "repayment", "expires_at"}
<1>1. /\ make_offer(m, funder, principal, repayment, expires_at)
      /\ publish(<<event("funding_offer_created", 0, fields)>>)
  BY DEF invoke_make_offer, FundingOfferCreated
<1>2. /\ UNCHANGED <<tables, orders, milestones, requests, accepted, positions, disputes, now>>
      /\ milestones[m].status = "FinanceRequested" /\ offer_count' = offer_count + 1
  BY <1>1 DEF make_offer, disputeVars, orderVars, in_active_order
<1>r. f \in OfferId /\ offer_count \in Nat
  BY <1>1, LimitsAssumption DEF make_offer, ContractInv, TypeOK, OfferId
<1>s. u["offers"][f] = NoRow
  BY <1>r DEF Mirror, OffersMirrored, OffersPlaced
<1>3. u["milestones"][m] # NoRow /\ Shaped(u)
  BY <1>2, UnderWay
<1>4. /\ offers'[f].milestone_id = m /\ offers'[f].status = "Open"
      /\ offers'[f].funder = funder /\ offers'[f].principal = principal
      /\ offers'[f].repayment = repayment /\ offers'[f].expires_at = expires_at
      /\ \A g \in OfferId : g # f => offers'[g] = offers[g]
  BY <1>1, <1>r DEF make_offer, ContractInv, TypeOK
<1>5. /\ DOMAIN fields = F /\ fields.milestone = m /\ fields.offer = f
      /\ fields.funder = funder /\ fields.principal = principal
      /\ fields.repayment = repayment /\ fields.expires_at = expires_at
  OBVIOUS
<1>f. f = offer_count + 1
  OBVIOUS
<1>. HIDE DEF fields, f
<1>6. PICK e, d : Announces(e, d, "funding_offer_created", 0, fields, 1)
  <2>1. Clean(fields)
    BY <1>5 DEF Clean
  <2>. QED BY <2>1, Announced
<1>7. /\ e = event("funding_offer_created", 0, fields) /\ Plain(e) /\ d = stamped(e, 1)
      /\ Carries(d, "funding_offer_created", F) /\ d.milestone = m /\ d.offer = f
      /\ d.funder = funder /\ d.principal = principal /\ d.repayment = repayment
      /\ d.expires_at = expires_at
  BY <1>5, <1>6 DEF Announces, Carries
<1>8. PICK row : row = [milestone |-> m, funder |-> d.funder, principal |-> d.principal,
                        repayment |-> d.repayment, expires_at |-> d.expires_at,
                        status |-> "Open"]
  OBVIOUS
<1>v. PICK v : v = placed(u, "offers", f, row)
  OBVIOUS
<1>9. Applies(u, d, v)
  BY <1>3, <1>7, <1>8, <1>r, <1>s, <1>v, OfferCreatedApplies
<1>10. Shaped(v) /\ Beside(u, v, {"offers"}) /\ Wrote(u, v, "offers", f, row)
  BY <1>3, <1>r, <1>v, PlacedRow, TableNames
<1>11. \A table \in DOMAIN Tables \ {"offers"} : v[table] = u[table]
  BY <1>10 DEF Beside
<1>12. /\ Same(v["orders"], orders', OrderFields, OrderId) /\ OrdersTimed(v)'
       /\ Same(v["milestones"], milestones', MilestoneFields, MilestoneId)
       /\ AnchorsMirrored(v)' /\ PayoutsMirrored(v)'
  BY <1>2, <1>11, TableNames, MilestonesAside
<1>13. OffersPlaced(v)'
  <2>1. v["offers"][f] = row /\ \A g \in OfferId : g # f => v["offers"][g] = u["offers"][g]
    BY <1>10, TableNames DEF Wrote
  <2>2. row # NoRow /\ "milestone" \in DOMAIN row /\ row.milestone = m /\ row.status = "Open"
    BY <1>8 DEF NoRow
  <2>3. ASSUME NEW g \in OfferId
        PROVE  /\ v["offers"][g] = NoRow <=> g > offer_count'
               /\ v["offers"][g] # NoRow => "milestone" \in DOMAIN v["offers"][g]
               /\ offers'[g].status # "Absent" => v["offers"][g].milestone = offers'[g].milestone_id
               /\ offers'[g].status = "Open" => v["offers"][g].status = "Open"
    <3>1. CASE g = f
      BY <1>2, <1>4, <1>f, <1>r, <2>1, <2>2, <3>1
    <3>2. CASE g # f
      <4>1. g > offer_count' <=> g > offer_count
        BY <1>2, <1>f, <1>r, <3>2 DEF OfferId
      <4>. QED BY <1>4, <2>1, <3>2, <4>1 DEF Mirror, OffersMirrored, OffersPlaced
    <3>. QED BY <3>1, <3>2
  <2>4. ASSUME NEW j \in MilestoneId, accepted'[j].status # "Absent"
        PROVE  /\ accepted'[j].id \in OfferId /\ accepted'[j].id <= offer_count'
               /\ v["offers"][accepted'[j].id].milestone = j
               /\ v["offers"][accepted'[j].id].status = accepted'[j].status
    <3>1. accepted'[j].id \in OfferId /\ accepted'[j].id <= offer_count
      BY <1>2, <2>4 DEF Mirror, OffersMirrored, OffersPlaced
    <3>2. accepted'[j].id # f /\ accepted'[j].id <= offer_count'
      BY <1>2, <1>f, <1>r, <3>1 DEF OfferId
    <3>. QED BY <1>2, <2>1, <2>4, <3>1, <3>2 DEF Mirror, OffersMirrored, OffersPlaced
  <2>. QED BY <2>3, <2>4 DEF OffersPlaced
<1>t. TermsMirrored(v)'
  <2>1. v["offers"][f] = row /\ \A g \in OfferId : g # f => v["offers"][g] = u["offers"][g]
    BY <1>10, TableNames DEF Wrote
  <2>2. /\ OfferFields \cup {"milestone", "status"} \subseteq DOMAIN row
        /\ row.milestone = m /\ row.status = "Open"
        /\ \A x \in OfferFields : row[x] = offers'[f][x]
    BY <1>4, <1>7, <1>8 DEF OfferFields
  <2>3. ASSUME NEW g \in OfferId, v["offers"][g] # NoRow
        PROVE  /\ OfferFields \cup {"milestone", "status"} \subseteq DOMAIN v["offers"][g]
               /\ v["offers"][g].milestone \in MilestoneId
               /\ offers'[g].status # "Absent" =>
                    \A x \in OfferFields : v["offers"][g][x] = offers'[g][x]
               /\ v["offers"][g].status = "Accepted" =>
                    /\ accepted'[v["offers"][g].milestone].status = "Accepted"
                    /\ accepted'[v["offers"][g].milestone].id = g
    <3>1. CASE g = f
      BY <2>1, <2>2, <3>1
    <3>2. CASE g # f
      BY <1>2, <1>4, <2>1, <2>3, <3>2 DEF Mirror, OffersMirrored, TermsMirrored
    <3>. QED BY <3>1, <3>2
  <2>4. ASSUME NEW j \in MilestoneId, accepted'[j].status # "Absent", NEW x \in OfferFields
        PROVE  v["offers"][accepted'[j].id][x] = accepted'[j][x]
    <3>1. accepted'[j] = accepted[j] /\ accepted[j].id \in OfferId /\ accepted[j].id <= offer_count
      BY <1>2, <2>4 DEF Mirror, OffersMirrored, OffersPlaced
    <3>2. accepted[j].id # f
      BY <1>f, <1>r, <3>1 DEF OfferId
    <3>. QED BY <2>1, <2>4, <3>1, <3>2 DEF Mirror, OffersMirrored, TermsMirrored
  <2>. QED BY <2>3, <2>4 DEF TermsMirrored
<1>14. /\ Same(v["requests"], requests', RequestFields, MilestoneId)
       /\ PositionsMirrored(v)' /\ DisputesMirrored(v)'
  BY <1>2, <1>11, TableNames, RequestRowsAside, PositionRowsAside, DisputeRowsAside
<1>15. Mirror(v)'
  BY <1>10, <1>12, <1>13, <1>t, <1>14, MirrorParts DEF OffersMirrored
<1>. QED BY <1>1, <1>2, <1>7, <1>9, <1>15, OneEvent

LEMMA FollowCancelOffer ==
  ASSUME ContractInv, NEW u, Follows(u), Mirror(u), UNCHANGED tables, NEW f \in OfferId,
         invoke_cancel_offer(f)
  PROVE  Followed'
<1>. DEFINE fields == [offer |-> f, milestone |-> offers[f].milestone_id]
<1>1. /\ cancel_offer(f) /\ publish(<<event("funding_offer_cancelled", 0, fields)>>)
  BY DEF invoke_cancel_offer, OfferMoved
<1>2. /\ UNCHANGED <<tables, orders, milestones, requests, accepted, positions, offer_count,
                     disputes, now>>
      /\ offers[f].status = "Open"
  BY <1>1 DEF cancel_offer, disputeVars, orderVars
<1>3. /\ u["offers"][f] # NoRow /\ "milestone" \in DOMAIN u["offers"][f]
      /\ f <= offer_count /\ u["offers"][f].milestone = offers[f].milestone_id
      /\ \A m \in MilestoneId : accepted[m].status # "Absent" => accepted[m].id # f
  BY <1>2, OpenOffer
<1>4. /\ offers'[f].milestone_id = offers[f].milestone_id /\ offers'[f].status = "Cancelled"
      /\ \A x \in OfferFields : offers'[f][x] = offers[f][x]
      /\ \A g \in OfferId : g # f => offers'[g] = offers[g]
  BY <1>1 DEF cancel_offer, with_status, ContractInv, TypeOK, OfferRecord, OfferFields
<1>5. DOMAIN fields = {"offer", "milestone"} /\ fields.offer = f
  OBVIOUS
<1>. HIDE DEF fields
<1>6. PICK e, d : Announces(e, d, "funding_offer_cancelled", 0, fields, 1)
  <2>1. Clean(fields)
    BY <1>5 DEF Clean
  <2>. QED BY <2>1, Announced
<1>7. /\ e = event("funding_offer_cancelled", 0, fields) /\ Plain(e) /\ d = stamped(e, 1)
      /\ Carries(d, "funding_offer_cancelled", {"offer"}) /\ d.offer = f
  BY <1>5, <1>6 DEF Announces, Carries
<1>v. PICK v : v = changed(u, "offers", f, [status |-> "Cancelled"])
  OBVIOUS
<1>8. Applies(u, d, v)
  BY <1>3, <1>7, <1>v, OfferCancelledApplies
<1>9. PICK row : row = restated(u["offers"][f], "Cancelled")
  OBVIOUS
<1>10. Shaped(v) /\ Beside(u, v, {"offers"}) /\ Wrote(u, v, "offers", f, row)
  BY <1>9, <1>v, ChangedRow, TableNames DEF Mirror, restated
<1>11. \A table \in DOMAIN Tables \ {"offers"} : v[table] = u[table]
  BY <1>10 DEF Beside
<1>12. /\ Same(v["orders"], orders', OrderFields, OrderId) /\ OrdersTimed(v)'
       /\ Same(v["milestones"], milestones', MilestoneFields, MilestoneId)
       /\ AnchorsMirrored(v)' /\ PayoutsMirrored(v)'
  BY <1>2, <1>11, TableNames, MilestonesAside
<1>13. OffersPlaced(v)'
  <2>1. v["offers"][f] = row /\ \A g \in OfferId : g # f => v["offers"][g] = u["offers"][g]
    BY <1>10, TableNames DEF Wrote
  <2>2. /\ row # NoRow /\ "milestone" \in DOMAIN row /\ row.milestone = offers[f].milestone_id
        /\ row.status = "Cancelled"
    BY <1>3, <1>9, StatusRow
  <2>3. ASSUME NEW g \in OfferId
        PROVE  /\ v["offers"][g] = NoRow <=> g > offer_count'
               /\ v["offers"][g] # NoRow => "milestone" \in DOMAIN v["offers"][g]
               /\ offers'[g].status # "Absent" => v["offers"][g].milestone = offers'[g].milestone_id
               /\ offers'[g].status = "Open" => v["offers"][g].status = "Open"
    <3>1. CASE g = f
      <4>1. u["offers"][f] = NoRow <=> f > offer_count
        BY DEF Mirror, OffersMirrored, OffersPlaced
      <4>. QED BY <1>2, <1>3, <1>4, <2>1, <2>2, <3>1, <4>1
    <3>2. CASE g # f
      BY <1>2, <1>4, <2>1, <3>2 DEF Mirror, OffersMirrored, OffersPlaced
    <3>. QED BY <3>1, <3>2
  <2>4. ASSUME NEW j \in MilestoneId, accepted'[j].status # "Absent"
        PROVE  /\ accepted'[j].id \in OfferId /\ accepted'[j].id <= offer_count'
               /\ v["offers"][accepted'[j].id].milestone = j
               /\ v["offers"][accepted'[j].id].status = accepted'[j].status
    BY <1>2, <1>3, <2>1, <2>4 DEF Mirror, OffersMirrored, OffersPlaced
  <2>. QED BY <2>3, <2>4 DEF OffersPlaced
<1>t. TermsMirrored(v)'
  <2>1. Wrote(u, v, "offers", f, restated(u["offers"][f], "Cancelled"))
    BY <1>9, <1>10
  <2>. QED BY <1>2, <1>3, <1>4, <2>1, TermsMoved
<1>14. /\ Same(v["requests"], requests', RequestFields, MilestoneId)
       /\ PositionsMirrored(v)' /\ DisputesMirrored(v)'
  BY <1>2, <1>11, TableNames, RequestRowsAside, PositionRowsAside, DisputeRowsAside
<1>15. Mirror(v)'
  BY <1>10, <1>12, <1>13, <1>t, <1>14, MirrorParts DEF OffersMirrored
<1>. QED BY <1>1, <1>2, <1>7, <1>8, <1>15, OneEvent

LEMMA FollowAcceptOffer ==
  ASSUME ContractInv, NEW u, Follows(u), Mirror(u), UNCHANGED tables, NEW f \in OfferId,
         invoke_accept_offer(f)
  PROVE  Followed'
<1>. DEFINE m == offers[f].milestone_id
            fields == [offer |-> f, milestone |-> m]
<1>1. /\ accept_offer(f) /\ publish(<<event("offer_accepted", 0, fields)>>)
  BY DEF invoke_accept_offer, OfferMoved
<1>2. /\ UNCHANGED <<tables, orders, milestones, positions, offer_count, disputes, now>>
      /\ offers[f].status = "Open" /\ requests[m].status = "Open"
      /\ requests' = [requests EXCEPT ![m].status = "Accepted"]
  BY <1>1 DEF accept_offer, disputeVars, orderVars
<1>3. /\ u["offers"][f] # NoRow /\ "milestone" \in DOMAIN u["offers"][f] /\ m \in MilestoneId
      /\ f <= offer_count /\ u["offers"][f].milestone = m
      /\ \A j \in MilestoneId : accepted[j].status # "Absent" => accepted[j].id # f
  BY <1>2, OpenOffer
<1>r. u["requests"][m] # NoRow
  BY <1>2, <1>3, RowsThere
<1>4. /\ offers'[f].milestone_id = m /\ offers'[f].status = "Accepted"
      /\ \A x \in OfferFields : offers'[f][x] = offers[f][x]
      /\ \A g \in OfferId : g # f => offers'[g] = offers[g]
  BY <1>1 DEF accept_offer, with_status, ContractInv, TypeOK, OfferRecord, OfferFields
<1>s. /\ accepted'[m].id = f /\ accepted'[m].status = "Accepted"
      /\ \A x \in OfferFields : accepted'[m][x] = offers[f][x]
      /\ \A j \in MilestoneId : j # m => accepted'[j] = accepted[j]
  BY <1>1, <1>3 DEF accept_offer, ContractInv, TypeOK, OfferFields
<1>a. accepted[m].status = "Absent"
  BY <1>1 DEF accept_offer
<1>5. DOMAIN fields = {"offer", "milestone"} /\ fields.offer = f /\ fields.milestone = m
  OBVIOUS
<1>. HIDE DEF fields, m
<1>6. PICK e, d : Announces(e, d, "offer_accepted", 0, fields, 1)
  <2>1. Clean(fields)
    BY <1>5 DEF Clean
  <2>. QED BY <2>1, Announced
<1>7. /\ e = event("offer_accepted", 0, fields) /\ Plain(e) /\ d = stamped(e, 1)
      /\ Carries(d, "offer_accepted", {"offer", "milestone"}) /\ d.offer = f /\ d.milestone = m
  BY <1>5, <1>6 DEF Announces, Carries
<1>w. PICK w : w = changed(u, "offers", f, [status |-> "Accepted"])
  OBVIOUS
<1>v. PICK v : v = changed(w, "requests", m, [status |-> "Accepted"])
  OBVIOUS
<1>8. Applies(u, d, v)
  BY <1>3, <1>7, <1>r, <1>w, <1>v, OfferAcceptedApplies
<1>9. PICK row : row = restated(u["offers"][f], "Accepted")
  OBVIOUS
<1>10. Shaped(w) /\ Beside(u, w, {"offers"}) /\ Wrote(u, w, "offers", f, row)
  BY <1>9, <1>w, ChangedRow, TableNames DEF Mirror, restated
<1>11. /\ Shaped(v)
       /\ Wrote(u, v, "requests", m, joined([status |-> "Accepted"], u["requests"][m]))
       /\ Beside(u, v, {"offers", "requests"}) /\ v["offers"] = w["offers"]
  BY <1>3, <1>10, <1>v, ThenChanged, TableNames
<1>12. \A table \in DOMAIN Tables \ {"offers", "requests"} : v[table] = u[table]
  BY <1>11 DEF Beside
<1>13. /\ Same(v["orders"], orders', OrderFields, OrderId) /\ OrdersTimed(v)'
       /\ Same(v["milestones"], milestones', MilestoneFields, MilestoneId)
       /\ AnchorsMirrored(v)' /\ PayoutsMirrored(v)'
  BY <1>2, <1>12, TableNames, MilestonesAside
<1>14. OffersPlaced(v)'
  <2>1. v["offers"][f] = row /\ \A g \in OfferId : g # f => v["offers"][g] = u["offers"][g]
    BY <1>10, <1>11, TableNames DEF Wrote
  <2>2. /\ row # NoRow /\ "milestone" \in DOMAIN row /\ row.milestone = m
        /\ row.status = "Accepted"
    BY <1>3, <1>9, StatusRow
  <2>3. ASSUME NEW g \in OfferId
        PROVE  /\ v["offers"][g] = NoRow <=> g > offer_count'
               /\ v["offers"][g] # NoRow => "milestone" \in DOMAIN v["offers"][g]
               /\ offers'[g].status # "Absent" => v["offers"][g].milestone = offers'[g].milestone_id
               /\ offers'[g].status = "Open" => v["offers"][g].status = "Open"
    <3>1. CASE g = f
      <4>1. u["offers"][f] = NoRow <=> f > offer_count
        BY DEF Mirror, OffersMirrored, OffersPlaced
      <4>. QED BY <1>2, <1>3, <1>4, <2>1, <2>2, <3>1, <4>1
    <3>2. CASE g # f
      BY <1>2, <1>4, <2>1, <3>2 DEF Mirror, OffersMirrored, OffersPlaced
    <3>. QED BY <3>1, <3>2
  <2>4. ASSUME NEW j \in MilestoneId, accepted'[j].status # "Absent"
        PROVE  /\ accepted'[j].id \in OfferId /\ accepted'[j].id <= offer_count'
               /\ v["offers"][accepted'[j].id].milestone = j
               /\ v["offers"][accepted'[j].id].status = accepted'[j].status
    <3>1. CASE j = m
      BY <1>2, <1>3, <1>s, <2>1, <2>2, <3>1
    <3>2. CASE j # m
      BY <1>2, <1>3, <1>s, <2>1, <2>4, <3>2 DEF Mirror, OffersMirrored, OffersPlaced
    <3>. QED BY <3>1, <3>2
  <2>. QED BY <2>3, <2>4 DEF OffersPlaced
<1>t. TermsMirrored(v)'
  <2>1. Wrote(u, v, "offers", f, restated(u["offers"][f], "Accepted"))
    BY <1>9, <1>10, <1>11 DEF Wrote
  <2>2. \A x \in OfferFields : u["offers"][f][x] = offers[f][x]
    BY <1>2, <1>3 DEF Mirror, OffersMirrored, TermsMirrored
  <2>3. \A j \in MilestoneId : accepted'[j].status # "Absent" =>
          \/ accepted'[j] = accepted[j] /\ accepted[j].id # f
          \/ accepted'[j].id = f /\ \A x \in OfferFields : accepted'[j][x] = u["offers"][f][x]
    BY <1>3, <1>s, <2>2
  <2>4. \A j \in MilestoneId : accepted[j].status = "Accepted" /\ accepted[j].id # f =>
          accepted'[j] = accepted[j]
    <3>1. accepted[m].status # "Accepted"
      BY <1>a
    <3>. QED BY <1>s, <3>1
  <2>5. Mirror(u) /\ f \in OfferId /\ u["offers"][f] # NoRow
    BY <1>3
  <2>6. /\ \A g \in OfferId : g # f => offers'[g] = offers[g]
        /\ offers[f].status # "Absent" /\ \A x \in OfferFields : offers'[f][x] = offers[f][x]
    BY <1>2, <1>4
  <2>7. /\ accepted'[u["offers"][f].milestone].status = "Accepted"
        /\ accepted'[u["offers"][f].milestone].id = f
    BY <1>3, <1>s
  <2>. QED BY ONLY <2>1, <2>3, <2>4, <2>5, <2>6, <2>7, TermsMoved
<1>15. Same(v["requests"], requests', RequestFields, MilestoneId)
  BY <1>2, <1>3, <1>11, RequestRowMoved
<1>16. PositionsMirrored(v)' /\ DisputesMirrored(v)'
  BY <1>2, <1>12, TableNames, PositionRowsAside, DisputeRowsAside
<1>17. Mirror(v)'
  BY <1>11, <1>13, <1>14, <1>t, <1>15, <1>16, MirrorParts DEF OffersMirrored
<1>. QED BY <1>1, <1>2, <1>7, <1>8, <1>17, OneEvent

-----------------------------------------------------------------------------
(* The advance, and the selection nobody paid for                           *)

\* Two tables, or three, may differ.
BesideTwo(t, v, a, b) == Beside(t, v, {a, b})
BesideThree(t, v, a, b, c) == Beside(t, v, {a, b, c})

\* A third write, to the milestone.
LEMMA ThenMilestone ==
  ASSUME NEW t, NEW w, Shaped(w), NEW a \in DOMAIN Tables, NEW b \in DOMAIN Tables,
         a # "milestones", b # "milestones", BesideTwo(t, w, a, b),
         NEW m \in MilestoneId, NEW changes, NEW v, v = changed(w, "milestones", m, changes)
  PROVE  /\ Shaped(v) /\ Wrote(t, v, "milestones", m, joined(changes, t["milestones"][m]))
         /\ BesideThree(t, v, a, b, "milestones") /\ v[a] = w[a] /\ v[b] = w[b]
<1>0. "milestones" \in DOMAIN Tables /\ m \in Tables["milestones"]
  BY TableNames
<1>1. /\ Shaped(v) /\ Wrote(w, v, "milestones", m, joined(changes, w["milestones"][m]))
      /\ Beside(w, v, {"milestones"})
  BY <1>0, ChangedRow
<1>2. w["milestones"] = t["milestones"]
  BY <1>0 DEF Beside, BesideTwo
<1>. QED BY <1>1, <1>2 DEF Wrote, Beside, BesideTwo, BesideThree

\* The offer a milestone selected and nobody paid yet.
LEMMA SelectedOffer ==
  ASSUME ContractInv, NEW t, Mirror(t), NEW m \in MilestoneId, accepted[m].status = "Accepted",
         NEW f, f = accepted[m].id
  PROVE  /\ f \in OfferId /\ f <= offer_count
         /\ t["offers"][f] # NoRow /\ t["offers"][f].milestone = m
         /\ offers[f].status # "Open"
         /\ \A j \in MilestoneId : j # m /\ accepted[j].status # "Absent" => accepted[j].id # f
         /\ t["requests"][m] # NoRow /\ requests[m].status = "Accepted"
         /\ t["positions"][f] = NoRow
<1>1. /\ f \in OfferId /\ f <= offer_count
      /\ t["offers"][f].milestone = m /\ t["offers"][f].status = "Accepted"
  BY DEF Mirror, OffersMirrored, OffersPlaced
<1>2. t["offers"][f] # NoRow
  <2>1. f \in Nat /\ offer_count \in Nat
    BY <1>1 DEF OfferId, ContractInv, TypeOK
  <2>2. t["offers"][f] = NoRow <=> f > offer_count
    BY <1>1 DEF Mirror, OffersMirrored, OffersPlaced
  <2>. QED BY <1>1, <2>1, <2>2
<1>3. offers[f].status # "Open"
  BY <1>1 DEF Mirror, OffersMirrored, OffersPlaced
<1>4. ASSUME NEW j \in MilestoneId, j # m, accepted[j].status # "Absent" PROVE accepted[j].id # f
  BY <1>1, <1>4 DEF Mirror, OffersMirrored, OffersPlaced
<1>5. requests[m].status = "Accepted" /\ positions[m].status = "Absent"
  BY DEF ContractInv, FinancingSound, FinancingCoherent
<1>6. t["requests"][m] # NoRow
  BY <1>5, RowsThere
<1>7. ASSUME t["positions"][f] # NoRow PROVE FALSE
  <2>. DEFINE j == t["positions"][f].milestone
  <2>1. j \in MilestoneId /\ positions[j].status # "Absent" /\ positions[j].offer_id = f
    BY <1>1, <1>7 DEF Mirror, PositionsMirrored
  <2>2. accepted[j].status = "Funded" /\ accepted[j].id = f
    BY <2>1 DEF ContractInv, FinancingSound, FinancingCoherent
  <2>. QED BY <1>4, <1>5, <2>1, <2>2
<1>. QED BY <1>1, <1>2, <1>3, <1>4, <1>5, <1>6, <1>7

\* An offer's row changes its status.
LEMMA OfferRowMoved ==
  ASSUME ContractInv, NEW t, Mirror(t), NEW f \in OfferId, t["offers"][f] # NoRow,
         NEW status, offer_count' = offer_count,
         \A g \in OfferId : g # f => offers'[g] = offers[g], offers'[f].status # "Open",
         offers'[f].status # "Absent" =>
           offers[f].status # "Absent" /\ offers'[f].milestone_id = offers[f].milestone_id,
         \A j \in MilestoneId : accepted'[j].status # "Absent" =>
           \/ accepted'[j] = accepted[j] /\ accepted[j].id # f
           \/ /\ accepted'[j].id = f /\ accepted'[j].status = status
              /\ t["offers"][f].milestone = j,
         NEW v, Wrote(t, v, "offers", f, restated(t["offers"][f], status))
  PROVE  OffersPlaced(v)'
<1>1. PICK row : row = restated(t["offers"][f], status)
  OBVIOUS
<1>2. /\ "milestone" \in DOMAIN t["offers"][f] /\ f <= offer_count
      /\ offers[f].status # "Absent" => t["offers"][f].milestone = offers[f].milestone_id
  <2>1. f \in Nat /\ offer_count \in Nat
    BY DEF OfferId, ContractInv, TypeOK
  <2>2. t["offers"][f] = NoRow <=> f > offer_count
    BY DEF Mirror, OffersMirrored, OffersPlaced
  <2>. QED BY <2>1, <2>2 DEF Mirror, OffersMirrored, OffersPlaced
<1>3. /\ "milestone" \in DOMAIN row /\ row.milestone = t["offers"][f].milestone
      /\ row.status = status /\ row # NoRow
  BY <1>1, <1>2, StatusRow
<1>4. v["offers"][f] = row /\ \A g \in OfferId : g # f => v["offers"][g] = t["offers"][g]
  BY <1>1, TableNames DEF Wrote
<1>5. ASSUME NEW g \in OfferId
      PROVE  /\ v["offers"][g] = NoRow <=> g > offer_count'
             /\ v["offers"][g] # NoRow => "milestone" \in DOMAIN v["offers"][g]
             /\ offers'[g].status # "Absent" => v["offers"][g].milestone = offers'[g].milestone_id
             /\ offers'[g].status = "Open" => v["offers"][g].status = "Open"
  <2>1. CASE g = f
    <3>1. t["offers"][f] = NoRow <=> f > offer_count
      BY DEF Mirror, OffersMirrored, OffersPlaced
    <3>. QED BY <1>2, <1>3, <1>4, <2>1, <3>1
  <2>2. CASE g # f
    BY <1>4, <2>2 DEF Mirror, OffersMirrored, OffersPlaced
  <2>. QED BY <2>1, <2>2
<1>6. ASSUME NEW j \in MilestoneId, accepted'[j].status # "Absent"
      PROVE  /\ accepted'[j].id \in OfferId /\ accepted'[j].id <= offer_count'
             /\ v["offers"][accepted'[j].id].milestone = j
             /\ v["offers"][accepted'[j].id].status = accepted'[j].status
  <2>1. CASE accepted'[j] = accepted[j] /\ accepted[j].id # f
    BY <1>4, <1>6, <2>1 DEF Mirror, OffersMirrored, OffersPlaced
  <2>2. CASE /\ accepted'[j].id = f /\ accepted'[j].status = status
             /\ t["offers"][f].milestone = j
    BY <1>2, <1>3, <1>4, <2>2
  <2>. QED BY <1>6, <2>1, <2>2
<1>. QED BY <1>5, <1>6 DEF OffersPlaced

LEMMA FollowAdvance ==
  ASSUME ContractInv, NEW u, Follows(u), Mirror(u), UNCHANGED tables, NEW m \in MilestoneId,
         invoke_fund_advance(m)
  PROVE  Followed'
<1>f. PICK f : f = accepted[m].id
  OBVIOUS
<1>. DEFINE offer == accepted[m]
            fields == [milestone |-> m, offer |-> offer.id, funder |-> offer.funder,
                       principal |-> offer.principal, repayment |-> offer.repayment]
            F == {"milestone", "offer", "funder", "principal", "repayment"}
            entry == [offer_id |-> offer.id, funder |-> offer.funder,
                      principal |-> offer.principal, repayment |-> offer.repayment,
                      status |-> "Active"]
<1>1. /\ fund_advance(m) /\ publish(<<event("advance_funded", 1, fields)>>)
  BY DEF invoke_fund_advance, AdvanceFunded
<1>2. /\ UNCHANGED <<tables, orders, requests, offers, offer_count, disputes, now>>
      /\ milestones[m].status = "FinanceRequested" /\ offer.status = "Accepted"
      /\ positions[m].status = "Absent"
  BY <1>1 DEF fund_advance, disputeVars, orderVars, in_active_order
<1>r. /\ f \in OfferId /\ f <= offer_count /\ u["offers"][f] # NoRow
      /\ u["offers"][f].milestone = m /\ offers[f].status # "Open"
      /\ \A j \in MilestoneId : j # m /\ accepted[j].status # "Absent" => accepted[j].id # f
      /\ u["positions"][f] = NoRow
  BY <1>2, <1>f, SelectedOffer
<1>3. milestones[m] \in MilestoneRecord /\ u["milestones"][m] # NoRow /\ Shaped(u)
  BY <1>2, UnderWay
<1>4. PICK later : later = [milestones[m] EXCEPT !.status = "Financed"]
  OBVIOUS
<1>5. milestones' = [milestones EXCEPT ![m] = later]
  BY <1>1, <1>4 DEF fund_advance, ContractInv, TypeOK
<1>s. /\ positions'[m] = entry /\ \A j \in MilestoneId : j # m => positions'[j] = positions[j]
      /\ accepted'[m].id = f /\ accepted'[m].status = "Funded"
      /\ \A x \in OfferFields : accepted'[m][x] = accepted[m][x]
      /\ \A j \in MilestoneId : j # m => accepted'[j] = accepted[j]
  BY <1>1, <1>f DEF fund_advance, ContractInv, TypeOK, AcceptedRecord, OfferFields
<1>6. /\ DOMAIN fields = F /\ fields.milestone = m /\ fields.offer = f
      /\ fields.funder = offer.funder /\ fields.principal = offer.principal
      /\ fields.repayment = offer.repayment
  BY <1>f
<1>e. /\ entry.offer_id = f /\ entry.funder = offer.funder /\ entry.principal = offer.principal
      /\ entry.repayment = offer.repayment /\ entry.status = "Active"
  BY <1>f
<1>. HIDE DEF fields, offer, entry
<1>7. PICK e, d : Announces(e, d, "advance_funded", 1, fields, 1)
  <2>1. Clean(fields)
    BY <1>6 DEF Clean
  <2>. QED BY <2>1, Announced
<1>8. /\ e = event("advance_funded", 1, fields) /\ Plain(e) /\ d = stamped(e, 1)
      /\ Carries(d, "advance_funded", F) /\ d.milestone = m /\ d.offer = f
      /\ d.funder = offer.funder /\ d.principal = offer.principal
      /\ d.repayment = offer.repayment
  BY <1>6, <1>7 DEF Announces, Carries
<1>9. PICK changes : changes = [status |-> "Financed"]
  OBVIOUS
<1>10. PICK row : row = [milestone |-> m, funder |-> d.funder, principal |-> d.principal,
                         repayment |-> d.repayment, status |-> "Active"]
  OBVIOUS
<1>x. PICK x : x = placed(u, "positions", f, row)
  OBVIOUS
<1>w. PICK w : w = changed(x, "offers", f, [status |-> "Funded"])
  OBVIOUS
<1>v. PICK v : v = changed(w, "milestones", m, changes)
  OBVIOUS
<1>11. Applies(u, d, v)
  BY <1>3, <1>8, <1>9, <1>10, <1>r, <1>x, <1>w, <1>v, AdvanceApplies
<1>12. Shaped(x) /\ Beside(u, x, {"positions"}) /\ Wrote(u, x, "positions", f, row)
  BY <1>3, <1>r, <1>x, PlacedRow, TableNames
<1>13. /\ Shaped(w) /\ Wrote(u, w, "offers", f, restated(u["offers"][f], "Funded"))
       /\ Beside(u, w, {"positions", "offers"}) /\ w["positions"] = x["positions"]
  BY <1>12, <1>r, <1>w, ThenChanged, TableNames DEF restated
<1>14. /\ Shaped(v) /\ Wrote(u, v, "milestones", m, joined(changes, u["milestones"][m]))
       /\ BesideThree(u, v, "positions", "offers", "milestones")
       /\ v["positions"] = w["positions"] /\ v["offers"] = w["offers"]
  <2>1. /\ "positions" \in DOMAIN Tables /\ "offers" \in DOMAIN Tables
        /\ "positions" # "milestones" /\ "offers" # "milestones"
        /\ Shaped(w) /\ BesideTwo(u, w, "positions", "offers")
    BY <1>13, TableNames DEF BesideTwo
  <2>. QED BY <1>v, <2>1, ThenMilestone
<1>15. \A table \in DOMAIN Tables \ {"positions", "offers", "milestones"} : v[table] = u[table]
  BY <1>14 DEF Beside, BesideThree
<1>16. Reworked(m, later, changes)
  BY <1>2, <1>3, <1>4, <1>5, <1>9 DEF Reworked, Terminal, MilestoneFields, MilestoneRecord
<1>17. /\ Same(v["orders"], orders', OrderFields, OrderId) /\ OrdersTimed(v)'
       /\ Same(v["milestones"], milestones', MilestoneFields, MilestoneId)
       /\ PayoutsMirrored(v)'
  BY <1>2, <1>14, <1>15, <1>16, TableNames, MilestoneStep
<1>18. OffersPlaced(v)'
  <2>1. Wrote(u, v, "offers", f, restated(u["offers"][f], "Funded"))
    BY <1>13, <1>14 DEF Wrote
  <2>2. \A j \in MilestoneId : accepted'[j].status # "Absent" =>
          \/ accepted'[j] = accepted[j] /\ accepted[j].id # f
          \/ /\ accepted'[j].id = f /\ accepted'[j].status = "Funded"
             /\ u["offers"][f].milestone = j
    BY <1>r, <1>s
  <2>. QED BY <1>2, <1>r, <2>1, <2>2, OfferRowMoved
<1>t. TermsMirrored(v)'
  <2>1. Wrote(u, v, "offers", f, restated(u["offers"][f], "Funded"))
    BY <1>13, <1>14 DEF Wrote
  <2>2. \A y \in OfferFields : u["offers"][f][y] = accepted[m][y]
    BY <1>2, <1>f DEF Mirror, OffersMirrored, TermsMirrored, offer
  <2>3. \A j \in MilestoneId : accepted'[j].status # "Absent" =>
          \/ accepted'[j] = accepted[j] /\ accepted[j].id # f
          \/ accepted'[j].id = f /\ \A y \in OfferFields : accepted'[j][y] = u["offers"][f][y]
    BY <1>r, <1>s, <2>2
  <2>4. \A j \in MilestoneId : accepted[j].status = "Accepted" /\ accepted[j].id # f =>
          accepted'[j] = accepted[j]
    BY <1>f, <1>s
  <2>. QED BY <1>2, <1>r, <2>1, <2>3, <2>4, TermsMoved
<1>19. PositionsMirrored(v)'
  <2>1. v["positions"][f] = row
        /\ \A g \in OfferId : g # f => v["positions"][g] = u["positions"][g]
    BY <1>12, <1>13, <1>14, TableNames DEF Wrote
  <2>2. "milestone" \in DOMAIN row /\ row.milestone = m /\ Says(row, entry, PositionFields)
    BY <1>8, <1>10, <1>e DEF Says, PositionFields
  <2>3. ASSUME NEW g \in OfferId, v["positions"][g] # NoRow
        PROVE  /\ v["positions"][g].milestone \in MilestoneId
               /\ positions'[v["positions"][g].milestone].status # "Absent"
               /\ positions'[v["positions"][g].milestone].offer_id = g
    <3>1. CASE g = f
      BY <1>e, <1>s, <2>1, <2>2, <3>1
    <3>2. CASE g # f
      BY <1>2, <1>s, <2>1, <2>3, <3>2 DEF Mirror, PositionsMirrored
    <3>. QED BY <3>1, <3>2
  <2>4. ASSUME NEW j \in MilestoneId, positions'[j].status # "Absent"
        PROVE  LET g == positions'[j].offer_id IN
               /\ g \in OfferId /\ "milestone" \in DOMAIN v["positions"][g]
               /\ v["positions"][g].milestone = j
               /\ Says(v["positions"][g], positions'[j], PositionFields)
    <3>1. CASE j = m
      BY <1>e, <1>r, <1>s, <2>1, <2>2, <3>1
    <3>2. CASE j # m
      <4>1. LET g == positions[j].offer_id IN
            /\ g \in OfferId /\ "milestone" \in DOMAIN u["positions"][g]
            /\ u["positions"][g].milestone = j
            /\ Says(u["positions"][g], positions[j], PositionFields)
        BY <1>s, <2>4, <3>2 DEF Mirror, PositionsMirrored
      <4>2. positions[j].offer_id # f
        BY <1>r, <4>1 DEF NoRow
      <4>. QED BY <1>s, <2>1, <3>2, <4>1, <4>2
    <3>. QED BY <3>1, <3>2
  <2>. HIDE DEF PositionFields
  <2>5. \A j \in MilestoneId : positions'[j].status # "Absent" =>
          Says(v["positions"][positions'[j].offer_id], positions'[j], PositionFields)
    BY <2>4
  <2>. QED BY <2>3, <2>4, <2>5 DEF PositionsMirrored, Says
<1>20. /\ Same(v["requests"], requests', RequestFields, MilestoneId) /\ DisputesMirrored(v)'
  BY <1>2, <1>15, TableNames, RequestRowsAside, DisputeRowsAside
<1>21. AnchorsMirrored(v)'
  <2>1. \A j \in MilestoneId : milestones'[j].evidence_hash = milestones[j].evidence_hash
    BY <1>3, <1>4, <1>5 DEF ContractInv, TypeOK, MilestoneRecord
  <2>. QED BY <1>15, <2>1, TableNames, AnchorRowsAside
<1>22. Mirror(v)'
  BY <1>14, <1>17, <1>18, <1>t, <1>19, <1>20, <1>21, MirrorParts DEF OffersMirrored
<1>. QED BY <1>1, <1>2, <1>8, <1>11, <1>22, OneEvent

LEMMA FollowRelease ==
  ASSUME ContractInv, NEW u, Follows(u), Mirror(u), UNCHANGED tables, NEW m \in MilestoneId,
         invoke_release_expired_acceptance(m)
  PROVE  Followed'
<1>f. PICK f : f = accepted[m].id
  OBVIOUS
<1>o. PICK reopened : reopened = is_live(requests[m].expires_at)
  OBVIOUS
<1>p. PICK status \in {"Open", "Cancelled"} : status = IF reopened THEN "Open" ELSE "Cancelled"
  OBVIOUS
<1>q. PICK stage \in {"FinanceRequested", "Funded"} :
        stage = IF reopened THEN "FinanceRequested" ELSE "Funded"
  OBVIOUS
<1>. DEFINE fields == [milestone |-> m, offer |-> accepted[m].id,
                       request_reopened |-> is_live(requests[m].expires_at)]
            F == {"milestone", "offer", "request_reopened"}
<1>1. /\ release_expired_acceptance(m)
      /\ publish(<<event("acceptance_released", 0, fields)>>)
  BY DEF invoke_release_expired_acceptance, AcceptanceReleased
<1>2. /\ UNCHANGED <<tables, orders, positions, offer_count, disputes, now>>
      /\ milestones[m].status = "FinanceRequested" /\ accepted[m].status = "Accepted"
      /\ requests' = [requests EXCEPT ![m].status = status]
  BY <1>1, <1>o, <1>p DEF release_expired_acceptance, disputeVars, orderVars, in_active_order
<1>r. /\ f \in OfferId /\ f <= offer_count /\ u["offers"][f] # NoRow
      /\ u["offers"][f].milestone = m /\ offers[f].status # "Open"
      /\ \A j \in MilestoneId : j # m /\ accepted[j].status # "Absent" => accepted[j].id # f
      /\ u["requests"][m] # NoRow /\ requests[m].status = "Accepted"
  BY <1>2, <1>f, SelectedOffer
<1>3. milestones[m] \in MilestoneRecord /\ u["milestones"][m] # NoRow /\ Shaped(u)
  BY <1>2, UnderWay
<1>4. PICK later : later = [milestones[m] EXCEPT !.status = stage]
  OBVIOUS
<1>5. milestones' = [milestones EXCEPT ![m] = later]
  BY <1>1, <1>4, <1>o, <1>q DEF release_expired_acceptance, ContractInv, TypeOK
<1>s. /\ accepted'[m].status = "Absent" /\ \A j \in MilestoneId : j # m => accepted'[j] = accepted[j]
  BY <1>1 DEF release_expired_acceptance, ContractInv, TypeOK, NoAccepted
<1>t. /\ \A g \in OfferId : g # f => offers'[g] = offers[g]
      /\ offers'[f].status # "Open"
      /\ offers'[f].status # "Absent" =>
           /\ offers[f].status # "Absent" /\ offers'[f].milestone_id = offers[f].milestone_id
           /\ \A x \in OfferFields : offers'[f][x] = offers[f][x]
  <2>1. offers' = [g \in OfferId |->
                     IF g = f /\ offers[g].status # "Absent" THEN with_status(offers[g], "Cancelled")
                     ELSE offers[g]]
    BY <1>1, <1>f DEF release_expired_acceptance
  <2>2. offers[f] \in OfferRecord
    BY <1>r DEF ContractInv, TypeOK
  <2>3. /\ with_status(offers[f], "Cancelled").status = "Cancelled"
        /\ with_status(offers[f], "Cancelled").milestone_id = offers[f].milestone_id
        /\ \A x \in OfferFields : with_status(offers[f], "Cancelled")[x] = offers[f][x]
    BY <2>2 DEF with_status, OfferRecord, OfferFields
  <2>. QED BY <1>r, <2>1, <2>3
<1>6. /\ DOMAIN fields = F /\ fields.milestone = m /\ fields.offer = f
      /\ fields.request_reopened = reopened
  BY <1>f, <1>o
<1>. HIDE DEF fields
<1>7. PICK e, d : Announces(e, d, "acceptance_released", 0, fields, 1)
  <2>1. Clean(fields)
    BY <1>6 DEF Clean
  <2>. QED BY <2>1, Announced
<1>8. /\ e = event("acceptance_released", 0, fields) /\ Plain(e) /\ d = stamped(e, 1)
      /\ Carries(d, "acceptance_released", F) /\ d.milestone = m /\ d.offer = f
      /\ d.request_reopened = reopened
  BY <1>6, <1>7 DEF Announces, Carries
<1>9. PICK changes : changes = [status |-> stage]
  OBVIOUS
<1>x. PICK x : x = changed(u, "offers", f, [status |-> "Cancelled"])
  OBVIOUS
<1>w. PICK w : w = changed(x, "requests", m, [status |-> status])
  OBVIOUS
<1>v. PICK v : v = changed(w, "milestones", m, changes)
  OBVIOUS
<1>11. Applies(u, d, v)
  BY <1>3, <1>8, <1>9, <1>p, <1>q, <1>r, <1>x, <1>w, <1>v, ReleaseApplies
<1>12. /\ Shaped(x) /\ Beside(u, x, {"offers"})
       /\ Wrote(u, x, "offers", f, restated(u["offers"][f], "Cancelled"))
  BY <1>3, <1>r, <1>x, ChangedRow, TableNames DEF restated
<1>13. /\ Shaped(w) /\ Wrote(u, w, "requests", m, joined([status |-> status], u["requests"][m]))
       /\ Beside(u, w, {"offers", "requests"}) /\ w["offers"] = x["offers"]
  BY <1>12, <1>w, ThenChanged, TableNames
<1>14. /\ Shaped(v) /\ Wrote(u, v, "milestones", m, joined(changes, u["milestones"][m]))
       /\ BesideThree(u, v, "offers", "requests", "milestones")
       /\ v["offers"] = w["offers"] /\ v["requests"] = w["requests"]
  <2>1. /\ "offers" \in DOMAIN Tables /\ "requests" \in DOMAIN Tables
        /\ "offers" # "milestones" /\ "requests" # "milestones"
        /\ Shaped(w) /\ BesideTwo(u, w, "offers", "requests")
    BY <1>13, TableNames DEF BesideTwo
  <2>. QED BY <1>v, <2>1, ThenMilestone
<1>15. \A table \in DOMAIN Tables \ {"offers", "requests", "milestones"} : v[table] = u[table]
  BY <1>14 DEF Beside, BesideThree
<1>16. Reworked(m, later, changes)
  BY <1>2, <1>3, <1>4, <1>5, <1>9 DEF Reworked, Terminal, MilestoneFields, MilestoneRecord
<1>17. /\ Same(v["orders"], orders', OrderFields, OrderId) /\ OrdersTimed(v)'
       /\ Same(v["milestones"], milestones', MilestoneFields, MilestoneId)
       /\ PayoutsMirrored(v)'
  BY <1>2, <1>14, <1>15, <1>16, TableNames, MilestoneStep
<1>18. OffersPlaced(v)'
  <2>1. Wrote(u, v, "offers", f, restated(u["offers"][f], "Cancelled"))
    BY <1>12, <1>13, <1>14 DEF Wrote
  <2>2. \A j \in MilestoneId : accepted'[j].status # "Absent" =>
          \/ accepted'[j] = accepted[j] /\ accepted[j].id # f
          \/ /\ accepted'[j].id = f /\ accepted'[j].status = "Cancelled"
             /\ u["offers"][f].milestone = j
    BY <1>r, <1>s
  <2>. QED BY <1>2, <1>r, <1>t, <2>1, <2>2, OfferRowMoved
<1>c. TermsMirrored(v)'
  <2>1. Wrote(u, v, "offers", f, restated(u["offers"][f], "Cancelled"))
    BY <1>12, <1>13, <1>14 DEF Wrote
  <2>2. \A j \in MilestoneId : accepted'[j].status # "Absent" =>
          accepted'[j] = accepted[j] /\ accepted[j].id # f
    BY <1>r, <1>s
  <2>3. \A j \in MilestoneId : accepted[j].status = "Accepted" /\ accepted[j].id # f =>
          accepted'[j] = accepted[j]
    BY <1>f, <1>s
  <2>. QED BY <1>r, <1>t, <2>1, <2>2, <2>3, TermsMoved
<1>19. Same(v["requests"], requests', RequestFields, MilestoneId)
  <2>1. Wrote(u, v, "requests", m, joined([status |-> status], u["requests"][m]))
    BY <1>13, <1>14 DEF Wrote
  <2>. QED BY <1>2, <1>r, <2>1, RequestRowMoved
<1>20. PositionsMirrored(v)' /\ DisputesMirrored(v)'
  BY <1>2, <1>15, TableNames, PositionRowsAside, DisputeRowsAside
<1>21. AnchorsMirrored(v)'
  <2>1. \A j \in MilestoneId : milestones'[j].evidence_hash = milestones[j].evidence_hash
    BY <1>3, <1>4, <1>5 DEF ContractInv, TypeOK, MilestoneRecord
  <2>. QED BY <1>15, <2>1, TableNames, AnchorRowsAside
<1>22. Mirror(v)'
  BY <1>14, <1>17, <1>18, <1>c, <1>19, <1>20, <1>21, MirrorParts DEF OffersMirrored
<1>. QED BY <1>1, <1>2, <1>8, <1>11, <1>22, OneEvent

\* A day passes: entries past their lifetime go, the rows stay.
LEMMA FollowLedger ==
  ASSUME ContractInv, NEW u, Follows(u), Mirror(u), UNCHANGED tables,
         advance_ledger, UNCHANGED published
  PROVE  Followed'
<1>1. /\ UNCHANGED <<orders, milestones, requests, accepted, positions, offer_count, disputes>>
      /\ now' = now + 1 /\ now \in Nat
  BY DEF advance_ledger, orderVars, disputeVars, ContractInv, TypeOK
<1>2. \A f \in OfferId : offers'[f] = offers[f] \/ offers'[f].status = "Absent"
  BY DEF advance_ledger, NoOffer
<1>3. Follows(u)'
  <2>1. /\ Leads(published, tables, u) /\ now + 1 \in Nat
        /\ \A i \in 1..Len(published) : published[i].ledger <= now
    BY <1>1 DEF Follows
  <2>2. \A i \in 1..Len(published) : published[i].ledger \in Nat
    BY <2>1 DEF Leads, Logged, InOrder, Numbered
  <2>3. \A i \in 1..Len(published) : published[i].ledger <= now + 1
    BY <1>1, <2>1, <2>2
  <2>. QED BY <1>1, <2>1, <2>3 DEF Follows
<1>4. OrdersTimed(u)'
  <2>1. \A o \in OrderId : u["orders"][o] # NoRow =>
          "at" \in DOMAIN u["orders"][o] /\ u["orders"][o].at \in 0..now
    BY DEF Mirror, OrdersTimed
  <2>2. \A o \in OrderId : u["orders"][o].at \in 0..now => u["orders"][o].at \in 0..(now + 1)
    BY <1>1
  <2>. QED BY <1>1, <2>1, <2>2 DEF OrdersTimed
<1>5. OffersMirrored(u)'
  BY <1>1, <1>2 DEF Mirror, OffersMirrored, OffersPlaced, TermsMirrored
<1>6. PayoutsMirrored(u)'
  <2>1. ASSUME NEW m \in MilestoneId, NEW table \in {"settlements", "refunds"},
               u[table][m] # NoRow
        PROVE  /\ u[table][m].order = milestones[m].order_id
               /\ u[table][m].at \in u["orders"][milestones[m].order_id].at .. (now + 1)
    <3>. DEFINE a == u[table][m].at
                b == u["orders"][milestones[m].order_id].at
    <3>1. u[table][m].order = milestones[m].order_id /\ a \in b .. now
      BY <2>1 DEF Mirror, PayoutsMirrored
    <3>2. milestones[m].status \in Terminal
      BY <2>1 DEF Mirror, PayoutsMirrored, Terminal
    <3>3. milestones[m].order_id \in OrderId /\ orders[milestones[m].order_id].status # "Absent"
      BY <3>2 DEF ContractInv, Registered, order_of, Terminal
    <3>4. b \in Nat
      BY <1>1, <3>3, RowsThere DEF Mirror, OrdersTimed
    <3>. HIDE DEF a, b
    <3>5. a \in b .. (now + 1)
      BY <1>1, <3>1, <3>4
    <3>. QED BY <3>1, <3>5 DEF a, b
  <2>2. \A m \in MilestoneId :
          /\ u["settlements"][m] # NoRow <=> milestones[m].status = "Settled"
          /\ u["refunds"][m] # NoRow <=> milestones[m].status = "Refunded"
    BY DEF Mirror, PayoutsMirrored
  <2>. QED BY <1>1, <2>1, <2>2 DEF PayoutsMirrored
<1>7. /\ Same(u["orders"], orders', OrderFields, OrderId)
      /\ Same(u["milestones"], milestones', MilestoneFields, MilestoneId)
      /\ Same(u["requests"], requests', RequestFields, MilestoneId) /\ Shaped(u)
      /\ PositionsMirrored(u)' /\ DisputesMirrored(u)' /\ AnchorsMirrored(u)'
  BY <1>1, MilestoneRowsAside, RequestRowsAside, PositionRowsAside, DisputeRowsAside,
     AnchorRowsAside DEF Mirror
<1>8. Mirror(u)'
  BY <1>4, <1>5, <1>6, <1>7, MirrorParts
<1>. QED BY <1>3, <1>8 DEF Followed

-----------------------------------------------------------------------------
(* Payouts                                                                  *)

\* The active row of a milestone is that of its active position.
LEMMA ActiveRowsAre ==
  ASSUME ContractInv, NEW t, Mirror(t), NEW m \in MilestoneId
  PROVE  /\ positions[m].status = "Active" =>
              /\ positions[m].offer_id \in OfferId
              /\ t["positions"][positions[m].offer_id] # NoRow
              /\ ActiveRows(t, m) = {positions[m].offer_id}
         /\ positions[m].status # "Active" => ActiveRows(t, m) = {}
<1>. DEFINE f == positions[m].offer_id
<1>1. ASSUME NEW g \in ActiveRows(t, m) PROVE g = f /\ positions[m].status = "Active"
  <2>1. /\ g \in OfferId /\ t["positions"][g] # NoRow /\ t["positions"][g].milestone = m
        /\ t["positions"][g].status = "Active"
    BY DEF ActiveRows
  <2>2. positions[m].status # "Absent" /\ f = g
    BY <2>1 DEF Mirror, PositionsMirrored
  <2>3. t["positions"][g].status = positions[m].status
    BY <2>2 DEF Mirror, PositionsMirrored, Says
  <2>. QED BY <2>1, <2>2, <2>3
<1>2. ASSUME positions[m].status = "Active"
      PROVE  f \in OfferId /\ t["positions"][f] # NoRow /\ f \in ActiveRows(t, m)
  <2>1. /\ f \in OfferId /\ "milestone" \in DOMAIN t["positions"][f]
        /\ t["positions"][f].milestone = m /\ t["positions"][f].status = "Active"
    BY <1>2 DEF Mirror, PositionsMirrored, Says
  <2>2. t["positions"][f] # NoRow
    BY <2>1 DEF NoRow
  <2>. QED BY <2>1, <2>2 DEF ActiveRows
<1>. HIDE DEF f
<1>. QED BY <1>1, <1>2 DEF f

\* The position of a milestone that ends, if it has one under way, ends with it.
PositionRowEnds(t, v, m, over) ==
  IF positions[m].status = "Active"
  THEN Wrote(t, v, "positions", positions[m].offer_id,
             restated(t["positions"][positions[m].offer_id], over))
  ELSE v["positions"] = t["positions"]

LEMMA PositionsEnd ==
  ASSUME ContractInv, NEW t, Mirror(t), NEW m \in MilestoneId,
         NEW over \in {"Repaid", "Closed"}, ended_position(m, over),
         NEW v, PositionRowEnds(t, v, m, over)
  PROVE  PositionsMirrored(v)'
<1>1. positions \in [MilestoneId -> PositionRecord]
  BY DEF ContractInv, TypeOK
<1>2. CASE positions[m].status # "Active"
  <2>1. positions' = positions
    BY <1>1, <1>2 DEF ended_position, PositionRecord
  <2>2. v["positions"] = t["positions"]
    BY <1>2 DEF PositionRowEnds
  <2>. QED BY <2>1, <2>2, PositionRowsAside
<1>3. CASE positions[m].status = "Active"
  <2>f. PICK f : f = positions[m].offer_id
    OBVIOUS
  <2>o. PICK old : old = t["positions"][f]
    OBVIOUS
  <2>r. PICK row : row = restated(old, over)
    OBVIOUS
  <2>1. /\ positions'[m].status = over /\ positions'[m].offer_id = f
        /\ \A x \in PositionFields : positions'[m][x] = positions[m][x]
        /\ \A j \in MilestoneId : j # m => positions'[j] = positions[j]
    BY <1>1, <1>3, <2>f DEF ended_position, PositionRecord, PositionFields
  <2>2. /\ f \in OfferId /\ "milestone" \in DOMAIN t["positions"][f]
        /\ t["positions"][f].milestone = m
        /\ Says(t["positions"][f], positions[m], PositionFields)
    BY <1>3, <2>f DEF Mirror, PositionsMirrored
  <2>3. /\ DOMAIN row = DOMAIN t["positions"][f] \cup {"status"} /\ row.status = over
        /\ \A x \in DOMAIN t["positions"][f] \ {"status"} : row[x] = t["positions"][f][x]
    <3>. DEFINE z == restated(old, over)
    <3>1. /\ DOMAIN z = DOMAIN old \cup {"status"} /\ z.status = over
          /\ \A x \in DOMAIN old \ {"status"} : z[x] = old[x]
      BY MovedFacts
    <3>2. row = z
      BY <2>r
    <3>. HIDE DEF z
    <3>. QED BY <2>o, <3>1, <3>2
  <2>4. "milestone" \in DOMAIN row /\ row.milestone = m
    BY <2>2, <2>3
  <2>5. Says(row, positions'[m], PositionFields)
    BY <2>1, <2>2, <2>3 DEF Says, PositionFields
  <2>6. v["positions"][f] = row /\ \A g \in OfferId : g # f => v["positions"][g] = t["positions"][g]
    BY <1>3, <2>f, <2>o, <2>r, TableNames DEF PositionRowEnds, Wrote
  <2>7. ASSUME NEW g \in OfferId, v["positions"][g] # NoRow
        PROVE  /\ v["positions"][g].milestone \in MilestoneId
               /\ positions'[v["positions"][g].milestone].status # "Absent"
               /\ positions'[v["positions"][g].milestone].offer_id = g
    <3>1. CASE g = f
      BY <2>1, <2>4, <2>6, <3>1
    <3>2. CASE g # f
      <4>. DEFINE j == t["positions"][g].milestone
      <4>1. j \in MilestoneId /\ positions[j].status # "Absent" /\ positions[j].offer_id = g
        BY <2>6, <2>7, <3>2 DEF Mirror, PositionsMirrored
      <4>2. j # m
        BY <2>f, <3>2, <4>1
      <4>3. v["positions"][g].milestone = j
        BY <2>6, <3>2
      <4>. HIDE DEF j
      <4>. QED BY <2>1, <4>1, <4>2, <4>3
    <3>. QED BY <3>1, <3>2
  <2>8. ASSUME NEW j \in MilestoneId, positions'[j].status # "Absent"
        PROVE  LET g == positions'[j].offer_id IN
               /\ g \in OfferId /\ "milestone" \in DOMAIN v["positions"][g]
               /\ v["positions"][g].milestone = j
               /\ Says(v["positions"][g], positions'[j], PositionFields)
    <3>1. CASE j = m
      BY <2>1, <2>2, <2>4, <2>5, <2>6, <3>1
    <3>2. CASE j # m
      <4>1. LET g == positions[j].offer_id IN
            /\ g \in OfferId /\ "milestone" \in DOMAIN t["positions"][g]
            /\ t["positions"][g].milestone = j
            /\ Says(t["positions"][g], positions[j], PositionFields)
        BY <2>1, <2>8, <3>2 DEF Mirror, PositionsMirrored
      <4>2. positions[j].offer_id # f
        BY <2>2, <3>2, <4>1
      <4>. QED BY <2>1, <2>6, <3>2, <4>1, <4>2
    <3>. QED BY <3>1, <3>2
  <2>. HIDE DEF PositionFields
  <2>. QED BY <2>7, <2>8 DEF PositionsMirrored, Says
<1>. QED BY <1>2, <1>3

\* A milestone under way ends: its row, the payout row, and the rest of the tables.
EndsMilestone(m, status) ==
  /\ milestones[m].status \in Protected
  /\ milestones' = [milestones EXCEPT ![m].funded_amount = 0, ![m].status = status]
PaidOutIn(status, table) == status = "Settled" <=> table = "settlements"

LEMMA MilestoneEndsRow ==
  ASSUME ContractInv, NEW t, Mirror(t), NEW m \in MilestoneId,
         NEW status \in {"Settled", "Refunded"}, EndsMilestone(m, status),
         NEW v, Wrote(t, v, "milestones", m,
                      joined([status |-> status, funded_amount |-> 0], t["milestones"][m]))
  PROVE  Same(v["milestones"], milestones', MilestoneFields, MilestoneId)
<1>1. PICK changes : changes = [status |-> status, funded_amount |-> 0]
  OBVIOUS
<1>2. milestones \in [MilestoneId -> MilestoneRecord]
  BY DEF ContractInv, TypeOK
<1>3. PICK later : later = [milestones[m] EXCEPT !.funded_amount = 0, !.status = status]
  OBVIOUS
<1>4. milestones' = [milestones EXCEPT ![m] = later]
  BY <1>2, <1>3 DEF EndsMilestone
<1>5. /\ later.status # "Absent" /\ milestones[m].status # "Absent"
      /\ \A x \in MilestoneFields \cup {"status"} :
           later[x] = IF x \in DOMAIN changes THEN changes[x] ELSE milestones[m][x]
  BY <1>1, <1>2, <1>3 DEF MilestoneFields, MilestoneRecord, EndsMilestone, Protected
<1>6. Wrote(t, v, "milestones", m, joined(changes, t["milestones"][m]))
  BY <1>1
<1>. QED BY <1>4, <1>5, <1>6, MilestoneRowChanged

LEMMA PayoutRowPlaced ==
  ASSUME ContractInv, NEW t, Mirror(t), NEW m \in MilestoneId,
         NEW status \in {"Settled", "Refunded"}, EndsMilestone(m, status),
         NEW table \in {"settlements", "refunds"}, PaidOutIn(status, table),
         NEW row, row # NoRow, row.order = milestones[m].order_id, row.at = now,
         NEW v, Wrote(t, v, table, m, row), OrdersKept(t, v), now' = now,
         \A other \in {"settlements", "refunds"} \ {table} : v[other] = t[other]
  PROVE  PayoutsMirrored(v)'
<1>1. milestones \in [MilestoneId -> MilestoneRecord] /\ now \in Nat
  BY DEF ContractInv, TypeOK
<1>2. /\ milestones'[m].status = status /\ milestones'[m].order_id = milestones[m].order_id
      /\ \A j \in MilestoneId : j # m => milestones'[j] = milestones[j]
  BY <1>1 DEF EndsMilestone, MilestoneRecord
<1>3. milestones[m].status \notin Terminal \cup {"Absent"}
  BY DEF EndsMilestone, Protected, Terminal
<1>t. /\ table \in DOMAIN Tables /\ Tables[table] = MilestoneId
      /\ status = "Settled" => table = "settlements"
      /\ status = "Refunded" => table = "refunds"
  BY TableNames DEF PaidOutIn
<1>4. v[table][m] = row /\ \A j \in MilestoneId : j # m => v[table][j] = t[table][j]
  <2>1. Wrote(t, v, table, m, row)
    OBVIOUS
  <2>2. /\ v[table][m] = row
        /\ \A j \in Tables[table] : j # m => v[table][j] = t[table][j]
    BY <2>1 DEF Wrote
  <2>3. Tables[table] = MilestoneId
    BY <1>t
  <2>. QED BY <2>2, <2>3
<1>5. t["settlements"][m] = NoRow /\ t["refunds"][m] = NoRow
  BY <1>3 DEF Mirror, PayoutsMirrored, Terminal
<1>6. ASSUME NEW j \in MilestoneId, milestones[j].status # "Absent"
      PROVE  LET o == milestones[j].order_id IN
             /\ v["orders"][o].at = t["orders"][o].at /\ t["orders"][o].at \in 0..now
  <2>1. milestones[j].order_id \in OrderId /\ orders[milestones[j].order_id].status # "Absent"
    BY <1>6 DEF ContractInv, Registered, order_of
  <2>2. t["orders"][milestones[j].order_id] # NoRow
    BY <2>1, RowsThere
  <2>. QED BY <2>1, <2>2 DEF OrdersKept, Mirror, OrdersTimed
<1>7. ASSUME NEW j \in MilestoneId
      PROVE  /\ v["settlements"][j] # NoRow <=> milestones'[j].status = "Settled"
             /\ v["refunds"][j] # NoRow <=> milestones'[j].status = "Refunded"
  <2>1. CASE j = m
    <3>1. v[table][m] = row /\ milestones'[m].status = status
      BY <1>2, <1>4
    <3>2. CASE status = "Settled"
      <4>1. table = "settlements" /\ v["refunds"] = t["refunds"]
        BY <1>t, <3>2
      <4>. QED BY <1>5, <2>1, <3>1, <3>2, <4>1
    <3>3. CASE status = "Refunded"
      <4>1. table = "refunds" /\ v["settlements"] = t["settlements"]
        BY <1>t, <3>3
      <4>. QED BY <1>5, <2>1, <3>1, <3>3, <4>1
    <3>. QED BY <3>2, <3>3
  <2>2. CASE j # m
    <3>1. v["settlements"][j] = t["settlements"][j] /\ v["refunds"][j] = t["refunds"][j]
      BY <1>t, <1>4, <2>2
    <3>. QED BY <1>2, <2>2, <3>1 DEF Mirror, PayoutsMirrored
  <2>. QED BY <2>1, <2>2
<1>8. ASSUME NEW j \in MilestoneId, NEW other \in {"settlements", "refunds"}, v[other][j] # NoRow
      PROVE  /\ v[other][j].order = milestones'[j].order_id
             /\ v[other][j].at \in v["orders"][milestones'[j].order_id].at .. now
  <2>1. CASE j = m
    <3>1. other = table
      BY <1>5, <1>8, <1>t, <2>1
    <3>2. v[other][j] = row
      BY <1>4, <2>1, <3>1
    <3>3. /\ v["orders"][milestones[m].order_id].at = t["orders"][milestones[m].order_id].at
          /\ t["orders"][milestones[m].order_id].at \in 0..now
      BY <1>3, <1>6
    <3>. QED BY <1>1, <1>2, <2>1, <3>2, <3>3
  <2>2. CASE j # m
    <3>1. v[other][j] = t[other][j] /\ milestones'[j] = milestones[j]
      BY <1>2, <1>t, <1>4, <2>2
    <3>2. /\ t[other][j].order = milestones[j].order_id
          /\ t[other][j].at \in t["orders"][milestones[j].order_id].at .. now
          /\ milestones[j].status \in Terminal
      BY <1>8, <3>1 DEF Mirror, PayoutsMirrored, Terminal
    <3>3. v["orders"][milestones[j].order_id].at = t["orders"][milestones[j].order_id].at
      BY <1>6, <3>2 DEF Terminal
    <3>. QED BY <3>1, <3>2, <3>3
  <2>. QED BY <2>1, <2>2
<1>. QED BY <1>7, <1>8 DEF PayoutsMirrored

\* The order that ends with its milestone, in the tables.
finished(v, o) ==
  IF orders'[o].status = "Completed" THEN changed(v, "orders", o, [status |-> "Completed"]) ELSE v

LEMMA OrderRowEnds ==
  ASSUME ContractInv, NEW t, Mirror(t), NEW o \in OrderId, orders[o].status = "Active",
         complete_order_if_finished(o), now' = now,
         NEW v, Shaped(v), v["orders"] = t["orders"], NEW x, x = finished(v, o)
  PROVE  /\ Shaped(x)
         /\ Same(x["orders"], orders', OrderFields, OrderId) /\ OrdersTimed(x)'
         /\ OrdersKept(t, x)
         /\ \A table \in DOMAIN Tables \ {"orders"} : x[table] = v[table]
<1>1. orders \in [OrderId -> OrderRecord]
  BY DEF ContractInv, TypeOK
<1>2. CASE orders'[o].status = "Completed"
  <2>1. orders' = [orders EXCEPT ![o].status = "Completed"]
    BY <1>2 DEF complete_order_if_finished
  <2>2. /\ Shaped(x) /\ Beside(v, x, {"orders"})
        /\ Wrote(v, x, "orders", o, joined([status |-> "Completed"], v["orders"][o]))
    BY <1>2, ChangedRow, TableNames DEF finished
  <2>3. Wrote(t, x, "orders", o, joined([status |-> "Completed"], t["orders"][o]))
    BY <2>2 DEF Wrote
  <2>4. /\ Same(x["orders"], orders', OrderFields, OrderId) /\ OrdersTimed(x)'
        /\ OrdersKept(t, x)
    BY <2>1, <2>3, OrderRowMoved
  <2>. QED BY <2>2, <2>4 DEF Beside
<1>3. CASE orders'[o].status # "Completed"
  <2>1. x = v
    BY <1>3 DEF finished
  <2>2. orders' = orders
    BY <1>1, <1>3 DEF complete_order_if_finished, OrderRecord
  <2>3. /\ Same(x["orders"], orders', OrderFields, OrderId) /\ OrdersTimed(x)'
        /\ OrdersKept(t, x)
    BY <2>1, <2>2, OrderRowsAside
  <2>. QED BY <2>1, <2>3
<1>. QED BY <1>2, <1>3

\* A step that ends a milestone under way, and perhaps its order.
EndsPayment(m, status, over) ==
  /\ EndsMilestone(m, status) /\ ended_position(m, over)
  /\ orders[milestones[m].order_id].status = "Active"
  /\ complete_order_if_finished(milestones[m].order_id)
  /\ UNCHANGED <<requests, offers, offer_count, accepted, now>>
\* The tables after the payout's own event.
EndingRows(t, v, m, table, row, status, over) ==
  /\ Shaped(v) /\ Wrote(t, v, table, m, row)
  /\ Wrote(t, v, "milestones", m,
           joined([status |-> status, funded_amount |-> 0], t["milestones"][m]))
  /\ PositionRowEnds(t, v, m, over)
  /\ \A other \in DOMAIN Tables : other \notin {table, "milestones", "positions"} =>
       v[other] = t[other]
\* What the payout's event leads to.
payout(t, m, table, row, status, over) ==
  IF positions[m].status = "Active"
  THEN changed(ended(t, table, m, row, status), "positions", positions[m].offer_id,
               [status |-> over])
  ELSE ended(t, table, m, row, status)

LEMMA PayoutEnds ==
  ASSUME ContractInv, NEW t, Mirror(t), NEW m \in MilestoneId,
         NEW table \in {"settlements", "refunds"}, NEW row, NEW status, NEW over,
         NEW v, v = payout(t, m, table, row, status, over)
  PROVE  EndingRows(t, v, m, table, row, status, over)
<1>. DEFINE a == placed(t, table, m, row)
            changes == [status |-> status, funded_amount |-> 0]
<1>0. /\ table \in DOMAIN Tables /\ table # "milestones" /\ table # "positions"
      /\ m \in Tables[table] /\ "milestones" \in DOMAIN Tables /\ m \in Tables["milestones"]
      /\ "positions" \in DOMAIN Tables /\ Tables["positions"] = OfferId
  BY TableNames
<1>1. Shaped(t)
  BY DEF Mirror
<1>2. Shaped(a) /\ Wrote(t, a, table, m, row) /\ Beside(t, a, {table})
  BY <1>0, <1>1, PlacedRow
<1>. HIDE DEF a
<1>b. PICK b : b = changed(a, "milestones", m, changes)
  OBVIOUS
<1>3. /\ Shaped(b) /\ Wrote(t, b, "milestones", m, joined(changes, t["milestones"][m]))
      /\ Beside(t, b, {table, "milestones"}) /\ b[table] = a[table]
  <2>1. /\ Shaped(b) /\ Wrote(a, b, "milestones", m, joined(changes, a["milestones"][m]))
        /\ Beside(a, b, {"milestones"})
    BY <1>0, <1>2, <1>b, ChangedRow
  <2>2. a["milestones"] = t["milestones"]
    BY <1>0, <1>2 DEF Beside
  <2>. HIDE DEF changes
  <2>. QED BY <1>0, <1>2, <2>1, <2>2 DEF Wrote, Beside
<1>4. b = ended(t, table, m, row, status)
  BY <1>b DEF ended, a
<1>5. Wrote(t, b, table, m, row) /\ b["positions"] = t["positions"]
  BY <1>0, <1>2, <1>3 DEF Wrote, Beside
<1>6. CASE positions[m].status # "Active"
  <2>1. v = b
    BY <1>4, <1>6 DEF payout
  <2>2. PositionRowEnds(t, v, m, over)
    BY <1>5, <1>6, <2>1 DEF PositionRowEnds
  <2>3. \A other \in DOMAIN Tables : other \notin {table, "milestones", "positions"} =>
          v[other] = t[other]
    BY <1>3, <2>1 DEF Beside
  <2>. QED BY <1>3, <1>5, <2>1, <2>2, <2>3 DEF EndingRows
<1>7. CASE positions[m].status = "Active"
  <2>f. PICK f : f = positions[m].offer_id
    OBVIOUS
  <2>1. f \in OfferId
    BY <1>7, <2>f, ActiveRowsAre
  <2>2. v = changed(b, "positions", f, [status |-> over])
    BY <1>4, <1>7, <2>f DEF payout
  <2>3. /\ Shaped(v) /\ Beside(b, v, {"positions"})
        /\ Wrote(b, v, "positions", f, joined([status |-> over], b["positions"][f]))
    BY <1>0, <1>3, <2>1, <2>2, ChangedRow
  <2>4. Wrote(t, v, "positions", f, restated(t["positions"][f], over))
    BY <1>5, <2>3 DEF Wrote, restated
  <2>5. PositionRowEnds(t, v, m, over)
    BY <1>7, <2>f, <2>4 DEF PositionRowEnds
  <2>6. v[table] = b[table] /\ v["milestones"] = b["milestones"]
    BY <1>0, <2>3 DEF Beside
  <2>7. /\ Wrote(t, v, table, m, row)
        /\ Wrote(t, v, "milestones", m, joined(changes, t["milestones"][m]))
    BY <1>3, <1>5, <2>6 DEF Wrote
  <2>8. \A other \in DOMAIN Tables : other \notin {table, "milestones", "positions"} =>
          v[other] = t[other]
    BY <1>3, <2>3 DEF Beside
  <2>. QED BY <2>3, <2>5, <2>7, <2>8 DEF EndingRows
<1>. QED BY <1>6, <1>7

LEMMA EndingMirror ==
  ASSUME ContractInv, NEW t, Mirror(t), NEW m \in MilestoneId,
         NEW status \in {"Settled", "Refunded"}, NEW over \in {"Repaid", "Closed"},
         EndsPayment(m, status, over),
         NEW table \in {"settlements", "refunds"}, PaidOutIn(status, table), NEW row, row # NoRow,
         row.order = milestones[m].order_id, row.at = now,
         NEW v, EndingRows(t, v, m, table, row, status, over),
         NEW y, Shaped(y), Beside(v, y, {"disputes"}), DisputesMirrored(y)',
         NEW x, x = finished(y, milestones[m].order_id)
  PROVE  Mirror(x)'
<1>o. PICK o : o = milestones[m].order_id
  OBVIOUS
<1>1. /\ EndsMilestone(m, status) /\ ended_position(m, over)
      /\ orders[o].status = "Active" /\ complete_order_if_finished(o)
      /\ UNCHANGED <<requests, offers, offer_count, accepted, now>>
  BY <1>o DEF EndsPayment
<1>2. o \in OrderId /\ milestones[m].status # "Absent"
  BY <1>o, <1>1 DEF EndsMilestone, Protected, ContractInv, Registered
<1>3. /\ Wrote(t, v, table, m, row) /\ PositionRowEnds(t, v, m, over)
      /\ Wrote(t, v, "milestones", m,
               joined([status |-> status, funded_amount |-> 0], t["milestones"][m]))
      /\ \A other \in DOMAIN Tables : other \notin {table, "milestones", "positions"} =>
           v[other] = t[other]
  BY DEF EndingRows
<1>4. \A other \in DOMAIN Tables : other # "disputes" => y[other] = v[other]
  BY DEF Beside
<1>5. y["orders"] = t["orders"]
  BY <1>3, <1>4, TableNames
<1>6. /\ Shaped(x) /\ Same(x["orders"], orders', OrderFields, OrderId) /\ OrdersTimed(x)'
      /\ OrdersKept(t, x) /\ \A other \in DOMAIN Tables \ {"orders"} : x[other] = y[other]
  BY <1>1, <1>2, <1>5, <1>o, OrderRowEnds
<1>7. \A other \in DOMAIN Tables \ {"orders", "disputes"} : x[other] = v[other]
  BY <1>4, <1>6
<1>8. Same(x["milestones"], milestones', MilestoneFields, MilestoneId)
  <2>1. Wrote(t, x, "milestones", m,
              joined([status |-> status, funded_amount |-> 0], t["milestones"][m]))
    BY <1>3, <1>7, TableNames DEF Wrote
  <2>. QED BY <1>1, <2>1, MilestoneEndsRow
<1>9. PayoutsMirrored(x)'
  <2>1. Wrote(t, x, table, m, row)
    BY <1>3, <1>7, TableNames DEF Wrote
  <2>2. \A other \in {"settlements", "refunds"} \ {table} : x[other] = t[other]
    BY <1>3, <1>7, TableNames
  <2>. QED BY <1>1, <1>6, <2>1, <2>2, PayoutRowPlaced
<1>10. PositionsMirrored(x)'
  <2>1. PositionRowEnds(t, x, m, over)
    BY <1>3, <1>7, TableNames DEF PositionRowEnds, Wrote
  <2>. QED BY <1>1, <2>1, PositionsEnd
<1>11. /\ x["requests"] = t["requests"] /\ x["offers"] = t["offers"]
       /\ x["anchors"] = t["anchors"] /\ x["disputes"] = y["disputes"]
  BY <1>3, <1>6, <1>7, TableNames
<1>12. Same(x["requests"], requests', RequestFields, MilestoneId) /\ OffersMirrored(x)'
  BY <1>1, <1>11, RequestRowsAside, OfferRowsAside
<1>13. DisputesMirrored(x)'
  BY <1>11 DEF DisputesMirrored
<1>14. AnchorsMirrored(x)'
  <2>1. \A j \in MilestoneId : milestones'[j].evidence_hash = milestones[j].evidence_hash
    BY <1>1 DEF EndsMilestone, ContractInv, TypeOK, MilestoneRecord
  <2>. QED BY <1>11, <2>1, AnchorRowsAside
<1>. QED BY <1>6, <1>8, <1>9, <1>10, <1>12, <1>13, <1>14, MirrorParts

\* The event of the order that ends, and what it does.
Completes(e, d, v, o, nth, k) ==
  /\ e = OrderMoved("order_completed", o, nth) /\ Plain(e) /\ e.index = nth
  /\ d = stamped(e, k) /\ Applies(v, d, changed(v, "orders", o, [status |-> "Completed"]))

LEMMA CompletionAnnounced ==
  ASSUME NEW u, Follows(u), NEW o \in OrderId, NEW v, v["orders"][o] # NoRow,
         NEW nth \in Nat, NEW k \in Nat
  PROVE  \E e, d : Completes(e, d, v, o, nth, k)
<1>. DEFINE fields == [order |-> o]
<1>1. DOMAIN fields = {"order"} /\ fields.order = o
  OBVIOUS
<1>2. OrderMoved("order_completed", o, nth) = event("order_completed", nth, fields)
  BY DEF OrderMoved
<1>. HIDE DEF fields
<1>3. PICK e, d : Announces(e, d, "order_completed", nth, fields, k)
  <2>1. Clean(fields)
    BY <1>1 DEF Clean
  <2>. QED BY <2>1, Announced
<1>4. /\ e = OrderMoved("order_completed", o, nth) /\ Plain(e) /\ e.index = nth
      /\ d = stamped(e, k) /\ Carries(d, "order_completed", {"order"}) /\ d.order = o
  BY <1>1, <1>2, <1>3 DEF Announces, Carries
<1>5. Applies(v, d, changed(v, "orders", o, [status |-> "Completed"]))
  BY <1>4, OrderCompletedApplies
<1>. QED BY <1>4, <1>5 DEF Completes

\* Events of one call, one after the other.
LEMMA OneThenMore ==
  ASSUME NEW a, NEW b
  PROVE  <<a>> \o <<b>> = <<a, b>> /\ <<a>> \o <<>> = <<a>>
<1>1. <<a>> \in Seq({a, b}) /\ b \in {a, b} /\ <<a, b>> \in Seq({a, b})
  OBVIOUS
<1>2. /\ Len(<<a>>) = 1 /\ <<a>>[1] = a
      /\ Len(<<a, b>>) = 2 /\ <<a, b>>[1] = a /\ <<a, b>>[2] = b
  OBVIOUS
<1>p. PICK p \in Seq({a, b}) : p = <<a>>
  BY <1>1
<1>q. PICK q \in Seq({a, b}) : q = <<a, b>>
  BY <1>1
<1>3. Len(p) = 1 /\ p[1] = a /\ Len(q) = 2 /\ q[1] = a /\ q[2] = b
  BY <1>2, <1>p, <1>q
<1>4. /\ Append(p, b) \in Seq({a, b}) /\ Len(Append(p, b)) = 2
      /\ Append(p, b)[1] = a /\ Append(p, b)[2] = b
  <2>1. /\ Append(p, b) \in Seq({a, b}) /\ Len(Append(p, b)) = Len(p) + 1
        /\ Append(p, b)[Len(p) + 1] = b /\ \A i \in 1..Len(p) : Append(p, b)[i] = p[i]
    BY <1>1, AppendProperties
  <2>. QED BY <1>3, <2>1
<1>5. Append(p, b) = q
  BY <1>3, <1>4, SeqEqual
<1>6. Append(p, b) = p \o <<b>> /\ p \o <<>> = p
  BY AppendIsConcat, ConcatEmptySeq
<1>. QED BY <1>5, <1>6, <1>p, <1>q

LEMMA TwoThenMore ==
  ASSUME NEW a, NEW b, NEW c
  PROVE  <<a, b>> \o <<c>> = <<a, b, c>> /\ <<a, b>> \o <<>> = <<a, b>>
<1>. DEFINE S == {a, b, c}
<1>1. <<a, b>> \in Seq(S) /\ c \in S /\ <<a, b, c>> \in Seq(S)
  OBVIOUS
<1>2. /\ Len(<<a, b>>) = 2 /\ <<a, b>>[1] = a /\ <<a, b>>[2] = b
      /\ Len(<<a, b, c>>) = 3 /\ <<a, b, c>>[1] = a /\ <<a, b, c>>[2] = b
      /\ <<a, b, c>>[3] = c
  OBVIOUS
<1>. HIDE DEF S
<1>p. PICK p \in Seq(S) : p = <<a, b>>
  BY <1>1
<1>q. PICK q \in Seq(S) : q = <<a, b, c>>
  BY <1>1
<1>3. Len(p) = 2 /\ p[1] = a /\ p[2] = b /\ Len(q) = 3 /\ q[1] = a /\ q[2] = b /\ q[3] = c
  BY <1>2, <1>p, <1>q
<1>4. /\ Append(p, c) \in Seq(S) /\ Len(Append(p, c)) = 3
      /\ Append(p, c)[1] = a /\ Append(p, c)[2] = b /\ Append(p, c)[3] = c
  <2>1. /\ Append(p, c) \in Seq(S) /\ Len(Append(p, c)) = Len(p) + 1
        /\ Append(p, c)[Len(p) + 1] = c /\ \A i \in 1..Len(p) : Append(p, c)[i] = p[i]
    BY <1>1, AppendProperties
  <2>. QED BY <1>3, <2>1
<1>5. Append(p, c) = q
  BY <1>3, <1>4, SeqEqual
<1>6. Append(p, c) = p \o <<c>> /\ p \o <<>> = p
  BY <1>1, AppendIsConcat, ConcatEmptySeq
<1>. QED BY <1>5, <1>6, <1>p, <1>q

LEMMA TransfersCounted ==
  ASSUME NEW m PROVE Transfers(m) \in Nat
<1>. DEFINE sums == compute(m)
<1>1. DOMAIN sums = {"funder_repayment", "supplier_payout"}
  BY DEF compute
<1>. HIDE DEF sums
<1>. DEFINE paid == {k \in DOMAIN sums : sums[k] > 0}
<1>2. IsFiniteSet({"funder_repayment", "supplier_payout"})
  <2>1. IsFiniteSet({"funder_repayment"})
    BY FS_Singleton
  <2>2. {"funder_repayment", "supplier_payout"} = {"funder_repayment"} \cup {"supplier_payout"}
    OBVIOUS
  <2>. QED BY <2>1, <2>2, FS_AddElement
<1>3. paid \subseteq {"funder_repayment", "supplier_payout"}
  BY <1>1
<1>4. Transfers(m) = Cardinality(paid)
  BY DEF Transfers, sums
<1>. HIDE DEF paid
<1>. QED BY <1>2, <1>3, <1>4, FS_Subset, FS_CardinalityType

LEMMA FollowSettle ==
  ASSUME ContractInv, NEW u, Follows(u), Mirror(u), UNCHANGED tables, NEW m \in MilestoneId,
         NEW caller \in Account, invoke_settle_milestone(m, caller)
  PROVE  Followed'
<1>k. PICK k \in Nat : k = Transfers(m)
  BY TransfersCounted
<1>o. PICK o : o = milestones[m].order_id
  OBVIOUS
<1>. DEFINE head == [milestone |-> m, order |-> milestones[m].order_id,
                     protected_amount |-> milestones[m].funded_amount]
            sums == compute(m)
            fields == joined(head, sums)
            F == {"milestone", "order", "protected_amount", "funder_repayment", "supplier_payout"}
<1>1. /\ settle_milestone(m, caller)
      /\ publish(<<event("milestone_settled", k, fields)>> \o Completion(m, k + 1))
  BY <1>k DEF invoke_settle_milestone, MilestoneSettled
<1>2. /\ UNCHANGED <<tables, requests, offers, offer_count, accepted, disputes, now>>
      /\ milestones[m].status = "Verified" /\ orders[o].status = "Active"
      /\ EndsPayment(m, "Settled", "Repaid")
  BY <1>1, <1>o DEF settle_milestone, disputeVars, in_active_order, order_of, EndsPayment,
     EndsMilestone, Protected
<1>3. /\ u["milestones"][m] # NoRow /\ Shaped(u) /\ u["settlements"][m] = NoRow
      /\ o \in OrderId /\ u["orders"][o] # NoRow
  <2>1. o \in OrderId
    BY <1>2, <1>o DEF ContractInv, Registered
  <2>2. u["orders"][o] # NoRow
    BY <1>2, <2>1, RowsThere
  <2>3. u["milestones"][m] # NoRow /\ Shaped(u)
    BY <1>2, UnderWay
  <2>. QED BY <1>2, <2>1, <2>2, <2>3 DEF Mirror, PayoutsMirrored
<1>4. /\ DOMAIN fields = F
      /\ fields.milestone = m /\ fields.order = o
      /\ fields.funder_repayment = IF positions[m].status = "Active" THEN positions[m].repayment ELSE 0
  <2>1. /\ DOMAIN head = {"milestone", "order", "protected_amount"}
        /\ head.milestone = m /\ head.order = o
    BY <1>o
  <2>2. /\ DOMAIN sums = {"funder_repayment", "supplier_payout"}
        /\ sums.funder_repayment = IF positions[m].status = "Active" THEN positions[m].repayment ELSE 0
    BY DEF compute
  <2>. HIDE DEF head, sums
  <2>3. /\ DOMAIN fields = DOMAIN head \cup DOMAIN sums
        /\ \A x \in DOMAIN head : fields[x] = head[x]
        /\ \A x \in DOMAIN sums \ DOMAIN head : fields[x] = sums[x]
    BY ONLY JoinedFacts
  <2>. HIDE DEF fields
  <2>. QED BY <2>1, <2>2, <2>3
<1>. HIDE DEF head, sums, fields
<1>5. PICK e, d : Announces(e, d, "milestone_settled", k, fields, 1)
  <2>1. Clean(fields)
    BY <1>4 DEF Clean
  <2>. QED BY <2>1, Announced
<1>6. /\ e = event("milestone_settled", k, fields) /\ Plain(e) /\ e.index = k
      /\ d = stamped(e, 1) /\ d.ledger = now
      /\ Carries(d, "milestone_settled", F \cup {"ledger"})
      /\ d.milestone = m /\ d.order = o /\ d.funder_repayment = fields.funder_repayment
  BY <1>4, <1>5 DEF Announces, Carries
<1>7. Carries(d, "milestone_settled", {"milestone", "order", "protected_amount",
                                       "funder_repayment", "supplier_payout", "ledger"})
  BY <1>6 DEF Carries
<1>r. PICK row : row = [protected_amount |-> d.protected_amount,
                        funder_repayment |-> d.funder_repayment,
                        supplier_payout |-> d.supplier_payout, order |-> d.order,
                        at |-> d.ledger]
  OBVIOUS
<1>8. row # NoRow /\ row.order = milestones[m].order_id /\ row.at = now
  <2>1. "at" \in DOMAIN row /\ row.order = d.order /\ row.at = d.ledger
    BY <1>r
  <2>2. "at" \notin DOMAIN NoRow
    BY DEF NoRow
  <2>. QED BY <1>6, <1>o, <2>1, <2>2
<1>v. PICK v : v = payout(u, m, "settlements", row, "Settled", "Repaid")
  OBVIOUS
<1>9. Applies(u, d, v)
  <2>1. CASE positions[m].status # "Active"
    <3>1. v = ended(u, "settlements", m, row, "Settled") /\ d.funder_repayment = 0
      BY <1>4, <1>6, <1>v, <2>1 DEF payout
    <3>. QED BY <1>3, <1>6, <1>7, <1>r, <3>1, SettledApplies
  <2>2. CASE positions[m].status = "Active"
    <3>f. PICK f : f = positions[m].offer_id
      OBVIOUS
    <3>1. f \in OfferId /\ ActiveRows(u, m) = {f}
      BY <2>2, <3>f, ActiveRowsAre
    <3>2. /\ v = changed(ended(u, "settlements", m, row, "Settled"), "positions", f,
                         [status |-> "Repaid"])
          /\ d.funder_repayment = positions[m].repayment
      BY <1>4, <1>6, <1>v, <2>2, <3>f DEF payout
    <3>3. positions[m].repayment # 0
      <4>1. 0 < positions[m].principal /\ positions[m].principal <= positions[m].repayment
        BY <2>2 DEF ContractInv, FinancingSound, RepaymentCovered
      <4>2. positions[m].principal \in Int /\ positions[m].repayment \in Int
        BY DEF ContractInv, TypeOK, PositionRecord, Sum
      <4>. QED BY <4>1, <4>2
    <3>. QED BY <1>3, <1>6, <1>7, <1>r, <3>1, <3>2, <3>3, SettledApplies
  <2>. QED BY <2>1, <2>2
<1>10. EndingRows(u, v, m, "settlements", row, "Settled", "Repaid")
  BY <1>v, PayoutEnds
<1>11. Shaped(v) /\ v["orders"] = u["orders"] /\ v["disputes"] = u["disputes"]
  BY <1>10, TableNames DEF EndingRows
<1>x. PICK x : x = finished(v, o)
  OBVIOUS
<1>12. Mirror(x)'
  <2>1. DisputesMirrored(v)'
    BY <1>2, <1>11, DisputeRowsAside
  <2>2. Beside(v, v, {"disputes"}) /\ PaidOutIn("Settled", "settlements")
    BY DEF Beside, PaidOutIn
  <2>3. x = finished(v, milestones[m].order_id)
    BY <1>x, <1>o
  <2>. QED BY <1>2, <1>8, <1>10, <1>11, <2>1, <2>2, <2>3, EndingMirror
<1>13. CASE orders'[o].status = "Completed"
  <2>1. k + 1 \in Nat /\ v["orders"][o] # NoRow
    BY <1>3, <1>11
  <2>2. PICK b, c : Completes(b, c, v, o, k + 1, 2)
    BY <1>3, <2>1, CompletionAnnounced
  <2>3. /\ b = OrderMoved("order_completed", o, k + 1) /\ Plain(b) /\ e.index < b.index
        /\ c = stamped(b, 2) /\ Applies(v, c, x)
    BY <1>6, <1>13, <1>x, <2>2 DEF Completes, finished
  <2>4. publish(<<e, b>>)
    <3>1. Completion(m, k + 1) = <<b>>
      BY <1>13, <1>o, <2>3 DEF Completion
    <3>2. <<e>> \o <<b>> = <<e, b>>
      BY OneThenMore
    <3>. QED BY <1>1, <1>6, <3>1, <3>2
  <2>5. Follows(x)'
    BY <1>2, <1>6, <1>9, <2>3, <2>4, PublishTwo
  <2>. QED BY <1>12, <2>5 DEF Followed
<1>14. CASE orders'[o].status # "Completed"
  <2>1. x = v
    BY <1>14, <1>x DEF finished
  <2>2. publish(<<e>>)
    <3>1. Completion(m, k + 1) = <<>>
      BY <1>14, <1>o DEF Completion
    <3>2. <<e>> \o <<>> = <<e>>
      BY OneThenMore
    <3>. QED BY <1>1, <1>6, <3>1, <3>2
  <2>3. Follows(x)'
    BY <1>2, <1>6, <1>9, <2>1, <2>2, PublishOne
  <2>. QED BY <1>12, <2>3 DEF Followed
<1>. QED BY <1>13, <1>14

LEMMA FollowRefund ==
  ASSUME ContractInv, NEW u, Follows(u), Mirror(u), UNCHANGED tables, NEW m \in MilestoneId,
         invoke_resolve_refund(m)
  PROVE  Followed'
<1>o. PICK o : o = milestones[m].order_id
  OBVIOUS
<1>q. PICK dispute : dispute = milestone_dispute[m]
  OBVIOUS
<1>. DEFINE fields == [milestone |-> m, order |-> milestones[m].order_id,
                       refunded_amount |-> milestones[m].funded_amount,
                       funder_advance_outstanding |->
                         IF positions[m].status = "Active" THEN positions[m].principal ELSE 0]
            F == {"milestone", "order", "refunded_amount", "funder_advance_outstanding"}
            verdict == [milestone |-> m, dispute |-> milestone_dispute[m], settled |-> FALSE]
<1>1. /\ resolve_refund(m)
      /\ publish(<<event("milestone_refunded", 1, fields), event("dispute_resolved", 2, verdict)>>
                   \o Completion(m, 3))
  BY DEF invoke_resolve_refund, MilestoneRefunded, DisputeResolved
<1>r. /\ dispute \in DisputeId /\ disputes[dispute].status = "Open"
      /\ u["disputes"][dispute] # NoRow /\ u["disputes"][dispute].milestone = m
      /\ milestones[m].status = "Disputed"
  BY <1>1, <1>q, Resolvable DEF resolve_refund
<1>2. /\ UNCHANGED <<tables, requests, offers, offer_count, accepted, now>>
      /\ disputes' = [disputes EXCEPT ![dispute].status = "ResolvedRefund"]
      /\ orders[o].status = "Active" /\ EndsPayment(m, "Refunded", "Closed")
  BY <1>1, <1>o, <1>q, <1>r DEF resolve_refund, resolved, resolvable, in_active_order, order_of,
     EndsPayment, EndsMilestone, Protected
<1>3. /\ u["milestones"][m] # NoRow /\ Shaped(u) /\ u["refunds"][m] = NoRow
      /\ o \in OrderId /\ u["orders"][o] # NoRow
  <2>1. o \in OrderId
    BY <1>r, <1>o DEF ContractInv, Registered
  <2>2. u["orders"][o] # NoRow
    BY <1>2, <2>1, RowsThere
  <2>3. u["milestones"][m] # NoRow /\ Shaped(u)
    BY <1>r, UnderWay
  <2>. QED BY <1>r, <2>1, <2>2, <2>3 DEF Mirror, PayoutsMirrored
<1>4. /\ DOMAIN fields = F
      /\ fields.milestone = m /\ fields.order = o
      /\ fields.funder_advance_outstanding =
           IF positions[m].status = "Active" THEN positions[m].principal ELSE 0
  BY <1>o
<1>5. /\ DOMAIN verdict = {"milestone", "dispute", "settled"}
      /\ verdict.dispute = dispute /\ verdict.settled = FALSE
  BY <1>q
<1>. HIDE DEF fields, verdict
<1>6. PICK e, d : Announces(e, d, "milestone_refunded", 1, fields, 1)
  <2>1. Clean(fields)
    BY <1>4 DEF Clean
  <2>. QED BY <2>1, Announced
<1>7. /\ e = event("milestone_refunded", 1, fields) /\ Plain(e) /\ e.index = 1
      /\ d = stamped(e, 1) /\ d.ledger = now
      /\ Carries(d, "milestone_refunded", {"milestone", "order", "refunded_amount",
                                           "funder_advance_outstanding", "ledger"})
      /\ d.milestone = m /\ d.order = o
      /\ d.funder_advance_outstanding = fields.funder_advance_outstanding
  BY <1>4, <1>6 DEF Announces, Carries
<1>8. PICK b, c : Announces(b, c, "dispute_resolved", 2, verdict, 2)
  <2>1. Clean(verdict)
    BY <1>5 DEF Clean
  <2>. QED BY <2>1, Announced
<1>9. /\ b = event("dispute_resolved", 2, verdict) /\ Plain(b) /\ b.index = 2
      /\ c = stamped(b, 2) /\ Carries(c, "dispute_resolved", {"dispute", "settled"})
      /\ c.dispute = dispute /\ c.settled = FALSE
  BY <1>5, <1>8 DEF Announces, Carries
<1>w. PICK row : row = [refunded_amount |-> d.refunded_amount, order |-> d.order,
                        at |-> d.ledger]
  OBVIOUS
<1>10. row # NoRow /\ row.order = milestones[m].order_id /\ row.at = now
  <2>1. "at" \in DOMAIN row /\ row.order = d.order /\ row.at = d.ledger
    BY <1>w
  <2>2. "at" \notin DOMAIN NoRow
    BY DEF NoRow
  <2>. QED BY <1>7, <1>o, <2>1, <2>2
<1>v. PICK v : v = payout(u, m, "refunds", row, "Refunded", "Closed")
  OBVIOUS
<1>11. Applies(u, d, v)
  <2>1. CASE positions[m].status # "Active"
    <3>1. /\ v = ended(u, "refunds", m, row, "Refunded") /\ d.funder_advance_outstanding = 0
          /\ ActiveRows(u, m) = {}
      BY <1>4, <1>7, <1>v, <2>1, ActiveRowsAre DEF payout
    <3>2. ~(d.funder_advance_outstanding > 0)
      BY <3>1
    <3>. QED BY <1>3, <1>7, <1>w, <3>1, <3>2, RefundedApplies
  <2>2. CASE positions[m].status = "Active"
    <3>f. PICK f : f = positions[m].offer_id
      OBVIOUS
    <3>1. f \in OfferId /\ ActiveRows(u, m) = {f}
      BY <2>2, <3>f, ActiveRowsAre
    <3>2. /\ v = changed(ended(u, "refunds", m, row, "Refunded"), "positions", f,
                         [status |-> "Closed"])
          /\ d.funder_advance_outstanding = positions[m].principal
      BY <1>4, <1>7, <1>v, <2>2, <3>f DEF payout
    <3>3. d.funder_advance_outstanding > 0
      <4>1. 0 < positions[m].principal
        BY <2>2 DEF ContractInv, FinancingSound, RepaymentCovered
      <4>2. positions[m].principal \in Int
        BY DEF ContractInv, TypeOK, PositionRecord, Sum
      <4>. QED BY <3>2, <4>1, <4>2
    <3>. QED BY <1>3, <1>7, <1>w, <3>1, <3>2, <3>3, RefundedApplies
  <2>. QED BY <2>1, <2>2
<1>12. EndingRows(u, v, m, "refunds", row, "Refunded", "Closed")
  BY <1>v, PayoutEnds
<1>13. /\ Shaped(v) /\ v["orders"] = u["orders"] /\ v["disputes"] = u["disputes"]
       /\ v["milestones"][m] = joined([status |-> "Refunded", funded_amount |-> 0],
                                      u["milestones"][m])
  BY <1>12, TableNames DEF EndingRows, Wrote
<1>14. v["milestones"][m] # NoRow
  <2>. DEFINE changes == [status |-> "Refunded", funded_amount |-> 0]
              j == joined(changes, u["milestones"][m])
  <2>1. DOMAIN changes = {"status", "funded_amount"}
    OBVIOUS
  <2>. HIDE DEF changes
  <2>2. DOMAIN j = DOMAIN changes \cup DOMAIN u["milestones"][m]
    BY ONLY JoinedFacts
  <2>3. v["milestones"][m] = j
    BY <1>13 DEF changes
  <2>. HIDE DEF j
  <2>4. "funded_amount" \in DOMAIN j /\ "funded_amount" \notin DOMAIN NoRow
    BY <2>1, <2>2 DEF NoRow
  <2>. QED BY <2>3, <2>4
<1>y. PICK y : y = changed(v, "disputes", dispute, [status |-> "ResolvedRefund"])
  OBVIOUS
<1>15. Applies(v, c, y)
  BY <1>9, <1>13, <1>14, <1>r, <1>y, RefundDecidedApplies
<1>16. /\ Shaped(y) /\ Beside(v, y, {"disputes"})
       /\ Wrote(v, y, "disputes", dispute,
                joined([status |-> "ResolvedRefund"], v["disputes"][dispute]))
  BY <1>13, <1>r, <1>y, ChangedRow, TableNames
<1>17. DisputesMirrored(y)'
  <2>1. Wrote(u, y, "disputes", dispute,
              joined([status |-> "ResolvedRefund"], u["disputes"][dispute]))
    BY <1>13, <1>16 DEF Wrote
  <2>. QED BY <1>2, <1>r, <2>1, DisputeRowMoved
<1>x. PICK x : x = finished(y, o)
  OBVIOUS
<1>18. Mirror(x)'
  <2>1. PaidOutIn("Refunded", "refunds") /\ x = finished(y, milestones[m].order_id)
    BY <1>x, <1>o DEF PaidOutIn
  <2>. QED BY <1>2, <1>10, <1>12, <1>16, <1>17, <2>1, EndingMirror
<1>19. e.index < b.index
  BY <1>7, <1>9
<1>20. CASE orders'[o].status = "Completed"
  <2>1. y["orders"][o] # NoRow
    BY <1>3, <1>13, <1>16, TableNames DEF Beside
  <2>2. PICK g, h : Completes(g, h, y, o, 3, 3)
    BY <1>3, <2>1, CompletionAnnounced
  <2>3. /\ g = OrderMoved("order_completed", o, 3) /\ Plain(g) /\ b.index < g.index
        /\ h = stamped(g, 3) /\ Applies(y, h, x)
    BY <1>9, <1>20, <1>x, <2>2 DEF Completes, finished
  <2>4. publish(<<e, b, g>>)
    <3>1. Completion(m, 3) = <<g>>
      BY <1>20, <1>o, <2>3 DEF Completion
    <3>2. <<e, b>> \o <<g>> = <<e, b, g>>
      BY TwoThenMore
    <3>. QED BY <1>1, <1>7, <1>9, <3>1, <3>2
  <2>5. Follows(x)'
    BY <1>2, <1>7, <1>9, <1>11, <1>15, <1>19, <2>3, <2>4, PublishThree
  <2>. QED BY <1>18, <2>5 DEF Followed
<1>21. CASE orders'[o].status # "Completed"
  <2>1. x = y
    BY <1>21, <1>x DEF finished
  <2>2. publish(<<e, b>>)
    <3>1. Completion(m, 3) = <<>>
      BY <1>21, <1>o DEF Completion
    <3>2. <<e, b>> \o <<>> = <<e, b>>
      BY TwoThenMore
    <3>. QED BY <1>1, <1>7, <1>9, <3>1, <3>2
  <2>3. Follows(x)'
    BY <1>2, <1>7, <1>9, <1>11, <1>15, <1>19, <2>1, <2>2, PublishTwo
  <2>. QED BY <1>18, <2>3 DEF Followed
<1>. QED BY <1>20, <1>21

=============================================================================
