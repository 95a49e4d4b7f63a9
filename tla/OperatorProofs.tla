--------------------------- MODULE OperatorProofs ---------------------------
(***************************************************************************)
(* The operators several components share: what the first rows of a sorted    *)
(* list are, for every list of rows, and how balls in a graph grow with their *)
(* radius and with the edges, for every graph.                               *)
(***************************************************************************)
EXTENDS Ranking, GraphOps, FiniteSetTheorems, WellFoundedInduction, TLAPS

-----------------------------------------------------------------------------
(* Sorted lists *)

\* Rows with scores.
IsRows(rows, R) ==
  /\ rows \in Seq(R)
  /\ \A r \in R : r.score \in Nat

\* The rows that come before row i.
Leading(rows, i) == {j \in DOMAIN rows : Ahead(rows, j, i)}

\* Rows are strictly and totally ordered.
LEMMA AheadIsAnOrder ==
  ASSUME NEW R, NEW rows, IsRows(rows, R), NEW i \in DOMAIN rows, NEW j \in DOMAIN rows
  PROVE  /\ ~ Ahead(rows, i, i)
         /\ i # j => Ahead(rows, i, j) \/ Ahead(rows, j, i)
         /\ Ahead(rows, i, j) => rows[i].score >= rows[j].score
         /\ \A k \in DOMAIN rows : Ahead(rows, k, i) /\ Ahead(rows, i, j) => Ahead(rows, k, j)
<1>1. DOMAIN rows \subseteq Nat
  BY DEF IsRows
<1>2. \A k \in DOMAIN rows : rows[k].score \in Nat
  BY DEF IsRows
<1> QED
  BY <1>1, <1>2 DEF Ahead

\* The places are those of the list, and follow the order.
LEMMA PlaceProperties ==
  ASSUME NEW R, NEW rows, IsRows(rows, R), NEW i \in DOMAIN rows
  PROVE  /\ Place(rows, i) \in DOMAIN rows
         /\ \A j \in DOMAIN rows : Ahead(rows, i, j) => Place(rows, i) < Place(rows, j)
<1>1. Len(rows) \in Nat /\ DOMAIN rows = 1..Len(rows)
  BY DEF IsRows
<1>2. IsFiniteSet(DOMAIN rows) /\ Cardinality(DOMAIN rows) = Len(rows)
  <2>1. 1 \in Int /\ Len(rows) \in Int
    BY <1>1
  <2>2. /\ IsFiniteSet(1..Len(rows))
        /\ Cardinality(1..Len(rows)) = IF 1 > Len(rows) THEN 0 ELSE Len(rows) - 1 + 1
    BY <2>1, FS_Interval
  <2> QED
    BY <1>1, <2>2
<1>3. \A j \in DOMAIN rows : /\ IsFiniteSet(Leading(rows, j)) /\ Cardinality(Leading(rows, j)) \in Nat
                              /\ Place(rows, j) = Cardinality(Leading(rows, j)) + 1
  <2> SUFFICES ASSUME NEW j \in DOMAIN rows
               PROVE  /\ IsFiniteSet(Leading(rows, j)) /\ Cardinality(Leading(rows, j)) \in Nat
                      /\ Place(rows, j) = Cardinality(Leading(rows, j)) + 1
    OBVIOUS
  <2>1. Leading(rows, j) \in SUBSET DOMAIN rows
    BY DEF Leading
  <2>2. IsFiniteSet(Leading(rows, j))
    BY <1>2, <2>1, FS_Subset
  <2>3. Cardinality(Leading(rows, j)) \in Nat
    BY <2>2, FS_CardinalityType
  <2> QED
    BY <2>2, <2>3 DEF Place, Leading
<1>4. Place(rows, i) \in DOMAIN rows
  <2>1. Leading(rows, i) \in SUBSET DOMAIN rows /\ i \notin Leading(rows, i)
    BY AheadIsAnOrder DEF Leading
  <2>2. /\ Cardinality(Leading(rows, i)) <= Cardinality(DOMAIN rows)
        /\ Cardinality(DOMAIN rows) = Cardinality(Leading(rows, i)) => DOMAIN rows = Leading(rows, i)
    BY <1>2, <2>1, FS_Subset
  <2>3. Cardinality(Leading(rows, i)) # Len(rows)
    BY <1>2, <2>1, <2>2
  <2> QED
    BY <1>1, <1>2, <1>3, <2>2, <2>3
<1>5. ASSUME NEW j \in DOMAIN rows, Ahead(rows, i, j) PROVE Place(rows, i) < Place(rows, j)
  <2>1. Leading(rows, i) \in SUBSET Leading(rows, j)
    BY <1>5, AheadIsAnOrder DEF Leading
  <2>2. i \in Leading(rows, j) /\ i \notin Leading(rows, i)
    BY <1>5, AheadIsAnOrder DEF Leading
  <2>3. /\ Cardinality(Leading(rows, i)) <= Cardinality(Leading(rows, j))
        /\ Cardinality(Leading(rows, j)) = Cardinality(Leading(rows, i)) => Leading(rows, j) = Leading(rows, i)
    BY <1>3, <2>1, FS_Subset
  <2>4. Cardinality(Leading(rows, i)) # Cardinality(Leading(rows, j))
    BY <2>2, <2>3
  <2> QED
    BY <1>3, <2>3, <2>4
<1> QED
  BY <1>4, <1>5

\* Every place is taken by exactly one row.
LEMMA PlacesAreTaken ==
  ASSUME NEW R, NEW rows, IsRows(rows, R)
  PROVE  /\ \A i, j \in DOMAIN rows : Place(rows, i) = Place(rows, j) => i = j
         /\ \A p \in DOMAIN rows : \E i \in DOMAIN rows : Place(rows, i) = p
<1> DEFINE D == DOMAIN rows
           f == [i \in D |-> Place(rows, i)]
<1>1. \A i \in D : Place(rows, i) \in D /\ Place(rows, i) \in Nat
  <2>1. D \subseteq Nat
    BY DEF IsRows
  <2> QED
    BY <2>1, PlaceProperties
<1>2. ASSUME NEW i \in D, NEW j \in D, Place(rows, i) = Place(rows, j) PROVE i = j
  <2>1. CASE Ahead(rows, i, j)
    <3>1. Place(rows, i) < Place(rows, j)
      BY <2>1, PlaceProperties
    <3> QED
      BY <1>1, <1>2, <3>1
  <2>2. CASE Ahead(rows, j, i)
    <3>1. Place(rows, j) < Place(rows, i)
      BY <2>2, PlaceProperties
    <3> QED
      BY <1>1, <1>2, <3>1
  <2> QED
    BY <2>1, <2>2, AheadIsAnOrder
<1>3. IsFiniteSet(D)
  <2>1. Len(rows) \in Nat /\ D = 1..Len(rows)
    BY DEF IsRows
  <2>2. 1 \in Int /\ Len(rows) \in Int
    BY <2>1
  <2> QED
    BY <2>1, <2>2, FS_Interval
<1>4. f \in Injection(D, D)
  BY <1>1, <1>2 DEF Injection, IsInjective
<1> HIDE DEF f
<1>5. f \in Surjection(D, D)
  BY <1>3, <1>4, FS_Injection
<1>6. \A p \in D : \E i \in D : f[i] = p
  BY <1>5 DEF Surjection
<1> QED
  BY <1>2, <1>6 DEF f

\* The sorted list has the rows, each at its place.
LEMMA RankedProperties ==
  ASSUME NEW R, NEW rows, IsRows(rows, R)
  PROVE  /\ Ranked(rows) \in Seq(R) /\ Len(Ranked(rows)) = Len(rows)
         /\ \A i \in DOMAIN rows : Ranked(rows)[Place(rows, i)] = rows[i]
<1> DEFINE at(p) == CHOOSE i \in DOMAIN rows : Place(rows, i) = p
<1>1. Len(rows) \in Nat /\ DOMAIN rows = 1..Len(rows)
  BY DEF IsRows
<1>2. ASSUME NEW p \in DOMAIN rows PROVE at(p) \in DOMAIN rows /\ Place(rows, at(p)) = p
  <2>1. \E i \in DOMAIN rows : Place(rows, i) = p
    BY PlacesAreTaken
  <2> QED
    BY <2>1
<1>3. Ranked(rows) = [p \in DOMAIN rows |-> rows[at(p)]]
  BY DEF Ranked
<1> HIDE DEF at
<1>4. ASSUME NEW p \in DOMAIN rows PROVE rows[at(p)] \in R
  <2>1. at(p) \in DOMAIN rows
    BY <1>2
  <2> QED
    BY <2>1 DEF IsRows
<1>5. Ranked(rows) \in Seq(R) /\ Len(Ranked(rows)) = Len(rows)
  BY <1>1, <1>3, <1>4
<1>6. ASSUME NEW i \in DOMAIN rows PROVE Ranked(rows)[Place(rows, i)] = rows[i]
  <2>1. Place(rows, i) \in DOMAIN rows
    BY PlaceProperties
  <2>2. at(Place(rows, i)) \in DOMAIN rows /\ Place(rows, at(Place(rows, i))) = Place(rows, i)
    BY <1>2, <2>1
  <2>3. at(Place(rows, i)) = i
    BY <2>2, PlacesAreTaken
  <2> QED
    BY <1>3, <2>1, <2>3
<1> QED
  BY <1>5, <1>6

\* top is what sorting rows and keeping limit of them may leave: rows of the list, as
\* many as asked for if there are, and every other row is no better than any of them.
IsTop(top, rows, limit) ==
  /\ \A p \in DOMAIN top : \E i \in DOMAIN rows : top[p] = rows[i]
  /\ \A i \in DOMAIN rows :
        \/ \E p \in DOMAIN top : top[p] = rows[i]
        \/ Len(top) = limit /\ \A p \in DOMAIN top : top[p].score >= rows[i].score

\* What semantic_search and search_catalog return of the rows they have found.
THEOREM TopRowsAreTheBest ==
  ASSUME NEW R, NEW rows, IsRows(rows, R), NEW limit \in Nat
  PROVE  /\ TopRows(rows, limit) \in Seq(R)
         /\ IsTop(TopRows(rows, limit), rows, limit)
<1> DEFINE r == Ranked(rows)
           n == Shorter(limit, rows)
           top == TopRows(rows, limit)
<1>1. /\ Len(rows) \in Nat /\ DOMAIN rows = 1..Len(rows)
      /\ \A i \in DOMAIN rows : rows[i].score \in Nat
  BY DEF IsRows
<1>2. /\ r \in Seq(R) /\ Len(r) = Len(rows) /\ DOMAIN r = 1..Len(rows)
      /\ \A i \in DOMAIN rows : r[Place(rows, i)] = rows[i]
  BY <1>1, RankedProperties
<1>3. n \in Nat /\ n <= Len(rows) /\ (n < Len(rows) => n = limit)
  BY <1>1 DEF Shorter
<1>4. top = SubSeq(r, 1, n)
  BY DEF TopRows
<1> HIDE DEF r, n, top
<1>5. top \in Seq(R) /\ Len(top) = n /\ DOMAIN top = 1..n /\ \A p \in 1..n : top[p] = r[p]
  BY <1>1, <1>2, <1>3, <1>4
<1>6. ASSUME NEW p \in DOMAIN top
      PROVE  \E i \in DOMAIN rows : Place(rows, i) = p /\ top[p] = rows[i]
  <2>1. p \in DOMAIN rows
    BY <1>1, <1>3, <1>5
  <2>2. PICK i \in DOMAIN rows : Place(rows, i) = p
    BY <2>1, PlacesAreTaken
  <2> QED
    BY <1>2, <1>5, <2>2
<1>7. ASSUME NEW i \in DOMAIN rows
      PROVE  \/ \E p \in DOMAIN top : top[p] = rows[i]
             \/ Len(top) = limit /\ \A p \in DOMAIN top : top[p].score >= rows[i].score
  <2>1. Place(rows, i) \in 1..Len(rows)
    BY <1>1, PlaceProperties
  <2>2. CASE Place(rows, i) <= n
    <3>1. Place(rows, i) \in DOMAIN top
      BY <1>3, <1>5, <2>1, <2>2
    <3> QED
      BY <1>2, <1>5, <3>1
  <2>3. CASE ~ (Place(rows, i) <= n)
    <3>1. n < Len(rows) /\ n < Place(rows, i)
      BY <1>1, <1>3, <2>1, <2>3
    <3>2. ASSUME NEW p \in DOMAIN top PROVE top[p].score >= rows[i].score
      <4>1. PICK j \in DOMAIN rows : Place(rows, j) = p /\ top[p] = rows[j]
        BY <1>6
      <4>2. Place(rows, j) \in Nat /\ Place(rows, i) \in Nat /\ Place(rows, j) < Place(rows, i)
        BY <1>3, <1>5, <2>1, <3>1, <4>1
      <4>3. ~ Ahead(rows, i, j)
        <5> SUFFICES ASSUME Ahead(rows, i, j) PROVE FALSE
          OBVIOUS
        <5>1. Place(rows, i) < Place(rows, j)
          BY PlaceProperties
        <5> QED
          BY <4>2, <5>1
      <4>4. i # j
        BY <4>2
      <4>5. rows[j].score >= rows[i].score
        BY <4>3, <4>4, AheadIsAnOrder
      <4> QED
        BY <4>1, <4>5
    <3> QED
      BY <1>3, <1>5, <3>1, <3>2
  <2> QED
    BY <2>2, <2>3
<1> QED
  BY <1>5, <1>6, <1>7 DEF IsTop, top

-----------------------------------------------------------------------------
(* Balls *)

\* Induction: a set of naturals with 0 and every successor is all of them.  It follows
\* from the well-foundedness of <, and needs no operator as a parameter.
LEMMA Induction ==
  ASSUME NEW T \in SUBSET Nat, 0 \in T, \A n \in T : n + 1 \in T
  PROVE  T = Nat
<1> DEFINE R == OpToRel(<, Nat)
           B == Nat \ T
<1> SUFFICES ASSUME B # {} PROVE FALSE
  OBVIOUS
<1>1. IsWellFoundedOn(R, Nat)
  BY NatLessThanWellFounded
<1>2. B \subseteq Nat
  OBVIOUS
<1> HIDE DEF R
<1>3. PICK x \in B : \A y \in B : ~ (<<y, x>> \in R)
  BY <1>1, <1>2, WFMin
<1>4. \A y \in B : ~ (y < x)
  BY <1>3 DEF R, OpToRel
<1>5. x \in Nat /\ x # 0 /\ x - 1 \in Nat /\ x - 1 < x
  OBVIOUS
<1>6. x - 1 \in T
  BY <1>4, <1>5
<1> QED
  BY <1>5, <1>6

\* f is the table of balls up to radius k.
IsTable(f, es, types, dir, start, k) ==
  f = [i \in 0..k |-> IF i = 0 THEN {start} ELSE Reach(es, types, dir, f[i - 1])]

\* What a table says of each radius.
Rows(f, es, types, dir, start, k) ==
  /\ f[0] = {start}
  /\ \A i \in 0..k : i # 0 => f[i] = Reach(es, types, dir, f[i - 1])

\* A table has these rows.
LEMMA TableRows ==
  ASSUME NEW es, NEW types, NEW dir, NEW start, NEW k \in Nat, NEW f,
         IsTable(f, es, types, dir, start, k)
  PROVE  Rows(f, es, types, dir, start, k)
<1> QED
  BY DEF IsTable, Rows

\* There is a table for every radius.
LEMMA TableExists ==
  ASSUME NEW es, NEW types, NEW dir, NEW start
  PROVE  \A k \in Nat : \E f : IsTable(f, es, types, dir, start, k)
<1> DEFINE T == {k \in Nat : \E f : IsTable(f, es, types, dir, start, k)}
<1>1. 0 \in T
  <2> DEFINE g == [i \in 0..0 |-> {start}]
  <2>1. IsTable(g, es, types, dir, start, 0)
    BY DEF IsTable
  <2> QED
    BY <2>1
<1>2. ASSUME NEW k \in T PROVE k + 1 \in T
  <2>1. k \in Nat /\ k + 1 \in Nat
    OBVIOUS
  <2>2. PICK f : IsTable(f, es, types, dir, start, k)
    OBVIOUS
  <2> DEFINE g == [i \in 0..(k + 1) |-> IF i = k + 1 THEN Reach(es, types, dir, f[k]) ELSE f[i]]
  <2>3. Rows(f, es, types, dir, start, k)
    BY <2>1, <2>2, TableRows
  <2>4. ASSUME NEW i \in 0..(k + 1)
        PROVE  g[i] = IF i = 0 THEN {start} ELSE Reach(es, types, dir, g[i - 1])
    <3>1. CASE i = 0
      BY <2>1, <2>3, <3>1 DEF Rows
    <3>2. CASE i # 0 /\ i # k + 1
      <4>1. i \in 0..k /\ i - 1 \in 0..k /\ i - 1 \in 0..(k + 1) /\ i - 1 # k + 1
        BY <2>1, <3>2
      <4>2. g[i] = f[i] /\ g[i - 1] = f[i - 1]
        BY <3>2, <4>1
      <4> QED
        BY <2>3, <3>2, <4>1, <4>2 DEF Rows
    <3>3. CASE i = k + 1
      <4>1. i - 1 = k /\ k \in 0..(k + 1) /\ k # k + 1 /\ i # 0
        BY <2>1, <3>3
      <4>2. g[i - 1] = f[k] /\ g[i] = Reach(es, types, dir, f[k])
        BY <3>3, <4>1
      <4> QED
        BY <4>1, <4>2
    <3> QED
      BY <3>1, <3>2, <3>3
  <2>5. IsTable(g, es, types, dir, start, k + 1)
    <3>1. g = [i \in 0..(k + 1) |-> g[i]]
      OBVIOUS
    <3> HIDE DEF g
    <3>2. g = [i \in 0..(k + 1) |-> IF i = 0 THEN {start} ELSE Reach(es, types, dir, g[i - 1])]
      BY <2>4, <3>1
    <3> QED
      BY <3>2 DEF IsTable
  <2> QED
    BY <2>1, <2>5
<1>3. T = Nat
  <2> HIDE DEF T
  <2>1. T \in SUBSET Nat
    BY DEF T
  <2> QED
    BY <1>1, <1>2, <2>1, Induction
<1> QED
  BY <1>3

\* The ball of radius k is the last row of the table that TLA+ chooses.
LEMMA BallIsRow ==
  ASSUME NEW es, NEW types, NEW dir, NEW start, NEW k \in Nat
  PROVE  \E f : IsTable(f, es, types, dir, start, k) /\ BallOf(es, types, dir, start, k) = f[k]
<1> DEFINE f == CHOOSE g : g = [i \in 0..k |-> IF i = 0 THEN {start} ELSE Reach(es, types, dir, g[i - 1])]
<1>1. BallOf(es, types, dir, start, k) = f[k]
  BY DEF BallOf
<1>2. \E g : g = [i \in 0..k |-> IF i = 0 THEN {start} ELSE Reach(es, types, dir, g[i - 1])]
  <2>1. PICK g : IsTable(g, es, types, dir, start, k)
    BY TableExists
  <2>2. g = [i \in 0..k |-> IF i = 0 THEN {start} ELSE Reach(es, types, dir, g[i - 1])]
    BY <2>1, Zenon DEF IsTable
  <2> QED
    BY <2>2, Zenon
<1>3. f = [i \in 0..k |-> IF i = 0 THEN {start} ELSE Reach(es, types, dir, f[i - 1])]
  BY <1>2
<1> QED
  BY <1>1, <1>3 DEF IsTable

\* Two tables agree where both have a row.
LEMMA TablesAgree ==
  ASSUME NEW es, NEW types, NEW dir, NEW start, NEW k \in Nat, NEW l \in Nat, k <= l,
         NEW f, IsTable(f, es, types, dir, start, k),
         NEW g, IsTable(g, es, types, dir, start, l)
  PROVE  \A i \in 0..k : f[i] = g[i]
<1> DEFINE T == {i \in Nat : i <= k => f[i] = g[i]}
<1>1. Rows(f, es, types, dir, start, k)
  BY TableRows
<1>2. Rows(g, es, types, dir, start, l)
  BY TableRows
<1>3. 0 \in T
  BY <1>1, <1>2 DEF Rows
<1>4. ASSUME NEW i \in T PROVE i + 1 \in T
  <2> SUFFICES ASSUME i + 1 <= k PROVE f[i + 1] = g[i + 1]
    OBVIOUS
  <2>1. i + 1 \in 0..k /\ i + 1 \in 0..l /\ i + 1 # 0 /\ (i + 1) - 1 = i /\ f[i] = g[i]
    OBVIOUS
  <2> QED
    BY <1>1, <1>2, <2>1 DEF Rows
<1>5. T = Nat
  <2>1. T \in SUBSET Nat
    OBVIOUS
  <2> HIDE DEF T
  <2> QED
    BY <1>3, <1>4, <2>1, Induction
<1>6. \A i \in 0..k : i \in T
  BY <1>5
<1> QED
  BY <1>6

\* The ball of radius 0.
LEMMA BallZero ==
  ASSUME NEW es, NEW types, NEW dir, NEW start
  PROVE  BallOf(es, types, dir, start, 0) = {start}
<1>1. PICK f : IsTable(f, es, types, dir, start, 0) /\ BallOf(es, types, dir, start, 0) = f[0]
  BY BallIsRow
<1>2. Rows(f, es, types, dir, start, 0)
  BY <1>1, TableRows
<1> QED
  BY <1>1, <1>2 DEF Rows

\* The next ball is one step further.
LEMMA BallNext ==
  ASSUME NEW es, NEW types, NEW dir, NEW start, NEW k \in Nat
  PROVE  BallOf(es, types, dir, start, k + 1) = Reach(es, types, dir, BallOf(es, types, dir, start, k))
<1>1. PICK f : IsTable(f, es, types, dir, start, k) /\ BallOf(es, types, dir, start, k) = f[k]
  BY BallIsRow
<1>2. k + 1 \in Nat /\ k <= k + 1 /\ k \in 0..k /\ k + 1 \in 0..(k + 1) /\ k + 1 # 0 /\ (k + 1) - 1 = k
  OBVIOUS
<1>3. PICK g : IsTable(g, es, types, dir, start, k + 1) /\ BallOf(es, types, dir, start, k + 1) = g[k + 1]
  BY <1>2, BallIsRow
<1>4. f[k] = g[k]
  BY <1>1, <1>2, <1>3, TablesAgree
<1>5. Rows(g, es, types, dir, start, k + 1)
  BY <1>2, <1>3, TableRows
<1>6. g[k + 1] = Reach(es, types, dir, g[k])
  BY <1>2, <1>5 DEF Rows
<1> QED
  BY <1>1, <1>3, <1>4, <1>6

\* One step from a node of the ball over an edge that may be followed.
LEMMA BallStep ==
  ASSUME NEW es, NEW types, NEW dir, NEW start, NEW k \in Nat,
         NEW n \in BallOf(es, types, dir, start, k),
         NEW e \in es, Allows(types, e), NEW m \in Neighbor(e, n, dir)
  PROVE  m \in BallOf(es, types, dir, start, k + 1)
<1> DEFINE b == BallOf(es, types, dir, start, k)
<1>1. BallOf(es, types, dir, start, k + 1) = Reach(es, types, dir, b)
  BY BallNext
<1> HIDE DEF b
<1>2. n \in b
  BY DEF b
<1> QED
  BY <1>1, <1>2 DEF Reach

\* A node of the next ball is in this one, or one step from a node of it.
LEMMA BallStepBack ==
  ASSUME NEW es, NEW types, NEW dir, NEW start, NEW k \in Nat,
         NEW m \in BallOf(es, types, dir, start, k + 1)
  PROVE  \/ m \in BallOf(es, types, dir, start, k)
         \/ \E n \in BallOf(es, types, dir, start, k) : \E e \in es :
               Allows(types, e) /\ m \in Neighbor(e, n, dir)
<1> DEFINE b == BallOf(es, types, dir, start, k)
<1>1. m \in Reach(es, types, dir, b)
  BY BallNext
<1> HIDE DEF b
<1>2. m \in b \/ \E n \in b : \E e \in es : Allows(types, e) /\ m \in Neighbor(e, n, dir)
  BY <1>1 DEF Reach
<1> QED
  BY <1>2 DEF b

\* A larger radius, a larger ball.
LEMMA BallGrows ==
  ASSUME NEW es, NEW types, NEW dir, NEW start, NEW k \in Nat, NEW l \in Nat, k <= l
  PROVE  BallOf(es, types, dir, start, k) \subseteq BallOf(es, types, dir, start, l)
<1> DEFINE Ball_(i) == BallOf(es, types, dir, start, i)
           T == {d \in Nat : Ball_(k) \subseteq Ball_(k + d)}
<1>1. 0 \in T
  <2>1. k + 0 = k
    OBVIOUS
  <2> QED
    BY <2>1
<1>2. ASSUME NEW d \in T PROVE d + 1 \in T
  <2>1. k + d \in Nat /\ k + (d + 1) = (k + d) + 1
    OBVIOUS
  <2>2. Ball_((k + d) + 1) = Reach(es, types, dir, Ball_(k + d))
    BY <2>1, BallNext
  <2>3. Ball_(k + d) \subseteq Ball_(k + (d + 1))
    BY <2>1, <2>2 DEF Reach
  <2>4. Ball_(k) \subseteq Ball_(k + d)
    OBVIOUS
  <2> QED
    BY <2>3, <2>4
<1>3. T = Nat
  <2>1. T \in SUBSET Nat
    OBVIOUS
  <2> HIDE DEF T
  <2> QED
    BY <1>1, <1>2, <2>1, Induction
<1>4. l - k \in T /\ k + (l - k) = l
  <2>1. l - k \in Nat /\ k + (l - k) = l
    OBVIOUS
  <2> HIDE DEF T
  <2> QED
    BY <1>3, <2>1
<1> QED
  BY <1>4

\* More edges, a larger ball.
LEMMA BallFollowsEdges ==
  ASSUME NEW es, NEW fs, es \subseteq fs, NEW types, NEW dir, NEW start
  PROVE  \A k \in Nat : BallOf(es, types, dir, start, k) \subseteq BallOf(fs, types, dir, start, k)
<1> DEFINE T == {k \in Nat : BallOf(es, types, dir, start, k) \subseteq BallOf(fs, types, dir, start, k)}
<1>1. 0 \in T
  BY BallZero
<1>2. ASSUME NEW k \in T PROVE k + 1 \in T
  <2> SUFFICES ASSUME NEW m \in BallOf(es, types, dir, start, k + 1)
               PROVE  m \in BallOf(fs, types, dir, start, k + 1)
    OBVIOUS
  <2>1. k \in Nat /\ BallOf(es, types, dir, start, k) \subseteq BallOf(fs, types, dir, start, k)
    OBVIOUS
  <2>2. CASE m \in BallOf(es, types, dir, start, k)
    <3>1. BallOf(fs, types, dir, start, k) \subseteq BallOf(fs, types, dir, start, k + 1)
      BY <2>1, BallGrows
    <3> QED
      BY <2>1, <2>2, <3>1
  <2>3. CASE \E n \in BallOf(es, types, dir, start, k) : \E e \in es :
               Allows(types, e) /\ m \in Neighbor(e, n, dir)
    <3>1. PICK n \in BallOf(es, types, dir, start, k) : \E e \in es :
               Allows(types, e) /\ m \in Neighbor(e, n, dir)
      BY <2>3
    <3>2. PICK e \in es : Allows(types, e) /\ m \in Neighbor(e, n, dir)
      BY <3>1
    <3>3. n \in BallOf(fs, types, dir, start, k) /\ e \in fs
      BY <2>1
    <3> QED
      BY <2>1, <3>2, <3>3, BallStep
  <2> QED
    BY <2>1, <2>2, <2>3, BallStepBack
<1>3. T = Nat
  <2>1. T \in SUBSET Nat
    OBVIOUS
  <2> HIDE DEF T
  <2> QED
    BY <1>1, <1>2, <2>1, Induction
<1> QED
  BY <1>3
=============================================================================
