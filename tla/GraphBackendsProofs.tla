------------------------ MODULE GraphBackendsProofs ------------------------
(***************************************************************************)
(* The two graph stores say the same, for any requests, in any order, and    *)
(* wherever the transactions of Postgres fail and are sent again.            *)
(***************************************************************************)
EXTENDS GraphBackends, OperatorProofs, SequenceTheorems

-----------------------------------------------------------------------------
(* Dictionaries *)

\* d.update(e): what a key has, and which keys there are.
LEMMA MergeProperties ==
  ASSUME NEW a, NEW b
  PROVE  /\ DOMAIN Merge(a, b) = DOMAIN a \cup DOMAIN b
         /\ \A x \in DOMAIN b : Merge(a, b)[x] = b[x]
         /\ \A x \in DOMAIN a \ DOMAIN b : Merge(a, b)[x] = a[x]
         /\ IsMap(Merge(a, b))
BY DEF Merge, IsMap

\* Maps with the same keys and values are the same.
LEMMA SameMap ==
  ASSUME NEW a, NEW b, IsMap(a), IsMap(b), DOMAIN a = DOMAIN b, \A x \in DOMAIN a : a[x] = b[x]
  PROVE  a = b
<1>1. a = [x \in DOMAIN a |-> a[x]] /\ b = [x \in DOMAIN b |-> b[x]]
  BY DEF IsMap
<1> QED
  BY <1>1

\* Two updates are one update by what the second makes of the first.
LEMMA MergeAssociates ==
  ASSUME NEW a, NEW b, NEW c
  PROVE  Merge(Merge(a, b), c) = Merge(a, Merge(b, c))
BY DEF Merge

\* An update by nothing.
LEMMA MergeEmpty ==
  ASSUME NEW a, IsMap(a)
  PROVE  Merge(a, Empty) = a /\ Merge(Empty, a) = a
<1>1. DOMAIN Empty = {}
  BY DEF Empty
<1>2. a = [x \in DOMAIN a |-> a[x]]
  BY DEF IsMap
<1> HIDE DEF Empty
<1>3. Merge(a, Empty) = [x \in DOMAIN a |-> a[x]]
  BY <1>1 DEF Merge
<1>4. Merge(Empty, a) = [x \in DOMAIN a |-> a[x]]
  BY <1>1 DEF Merge
<1> QED
  BY <1>2, <1>3, <1>4

\* An update that another one covers leaves no trace.
LEMMA MergeCovered ==
  ASSUME NEW a, NEW b, NEW c, DOMAIN b \subseteq DOMAIN c
  PROVE  Merge(Merge(a, b), c) = Merge(a, c)
BY DEF Merge

\* a has everything that b has.
Absorbs(a, b) == \A key \in DOMAIN b : key \in DOMAIN a /\ a[key] = b[key]

LEMMA MergeAbsorbed ==
  ASSUME NEW a, NEW b, IsMap(a), Absorbs(a, b)
  PROVE  Merge(a, b) = a
<1>1. IsMap(Merge(a, b)) /\ DOMAIN Merge(a, b) = DOMAIN a
  BY MergeProperties DEF Absorbs
<1>2. \A x \in DOMAIN a : Merge(a, b)[x] = a[x]
  BY MergeProperties DEF Absorbs
<1> QED
  BY <1>1, <1>2, SameMap

LEMMA MergeAbsorbs ==
  ASSUME NEW a, NEW b, NEW c
  PROVE  /\ Absorbs(Merge(a, c), c)
         /\ Absorbs(a, b) => Absorbs(Merge(a, c), Merge(b, c))
BY DEF Absorbs, Merge

-----------------------------------------------------------------------------
(* A sequence of transactions *)

\* p has the tables and the graph of Postgres.
IsPostgres(p) ==
  /\ p = [rows |-> p.rows, vectors |-> p.vectors, edges |-> p.edges, concepts |-> p.concepts,
          vertices |-> p.vertices, rels |-> p.rels]
  /\ IsMap(p.rows) /\ IsMap(p.vectors) /\ IsMap(p.edges) /\ IsMap(p.concepts)

\* What p has keys for is among what q has keys for.
Within(p, q) ==
  /\ DOMAIN p.rows \subseteq DOMAIN q.rows
  /\ DOMAIN p.vectors \subseteq DOMAIN q.vectors
  /\ DOMAIN p.edges \subseteq DOMAIN q.edges
  /\ DOMAIN p.concepts \subseteq DOMAIN q.concepts
  /\ p.vertices \subseteq q.vertices
  /\ p.rels \subseteq q.rels

LEMMA CommitFields ==
  ASSUME NEW p, NEW tx
  PROVE  /\ commit(p, tx).rows = Merge(p.rows, tx.rows)
         /\ commit(p, tx).vectors = Merge(p.vectors, tx.vectors)
         /\ commit(p, tx).edges = Merge(p.edges, tx.edges)
         /\ commit(p, tx).concepts = Merge(p.concepts, tx.concepts)
         /\ commit(p, tx).vertices = p.vertices \cup tx.vertices
         /\ commit(p, tx).rels = p.rels \cup tx.rels
         /\ IsPostgres(commit(p, tx))
<1>1. /\ commit(p, tx).rows = Merge(p.rows, tx.rows)
      /\ commit(p, tx).vectors = Merge(p.vectors, tx.vectors)
      /\ commit(p, tx).edges = Merge(p.edges, tx.edges)
      /\ commit(p, tx).concepts = Merge(p.concepts, tx.concepts)
      /\ commit(p, tx).vertices = p.vertices \cup tx.vertices
      /\ commit(p, tx).rels = p.rels \cup tx.rels
  BY DEF commit
<1>2. commit(p, tx) = [rows |-> Merge(p.rows, tx.rows), vectors |-> Merge(p.vectors, tx.vectors),
        edges |-> Merge(p.edges, tx.edges), concepts |-> Merge(p.concepts, tx.concepts),
        vertices |-> p.vertices \cup tx.vertices, rels |-> p.rels \cup tx.rels]
  BY DEF commit
<1>3. IsMap(commit(p, tx).rows) /\ IsMap(commit(p, tx).vectors) /\ IsMap(commit(p, tx).edges)
        /\ IsMap(commit(p, tx).concepts)
  <2>1. \A a, b : IsMap(Merge(a, b))
    BY MergeProperties
  <2> QED
    BY <1>1, <2>1
<1> HIDE DEF commit
<1>4. IsPostgres(commit(p, tx))
  BY <1>1, <1>2, <1>3 DEF IsPostgres
<1> QED
  BY <1>1, <1>4

LEMMA CommitGrows ==
  ASSUME NEW p, NEW tx
  PROVE  Within(p, commit(p, tx)) /\ Within(tx, commit(p, tx))
<1>1. \A a, b : DOMAIN a \subseteq DOMAIN Merge(a, b) /\ DOMAIN b \subseteq DOMAIN Merge(a, b)
  BY DEF Merge
<1> QED
  BY <1>1, CommitFields DEF Within

\* Transactions associate, and one whose keys a later one writes again leaves no trace.
LEMMA CommitAssociates ==
  ASSUME NEW p, NEW q, NEW tx
  PROVE  commit(commit(p, q), tx) = commit(p, commit(q, tx))
<1>1. /\ Merge(Merge(p.rows, q.rows), tx.rows) = Merge(p.rows, Merge(q.rows, tx.rows))
      /\ Merge(Merge(p.vectors, q.vectors), tx.vectors) = Merge(p.vectors, Merge(q.vectors, tx.vectors))
      /\ Merge(Merge(p.edges, q.edges), tx.edges) = Merge(p.edges, Merge(q.edges, tx.edges))
      /\ Merge(Merge(p.concepts, q.concepts), tx.concepts) = Merge(p.concepts, Merge(q.concepts, tx.concepts))
  BY MergeAssociates
<1> QED
  BY <1>1 DEF commit

LEMMA CommitCovered ==
  ASSUME NEW p, NEW q, NEW tx, Within(q, tx)
  PROVE  commit(commit(p, q), tx) = commit(p, tx)
<1>1. /\ Merge(Merge(p.rows, q.rows), tx.rows) = Merge(p.rows, tx.rows)
      /\ Merge(Merge(p.vectors, q.vectors), tx.vectors) = Merge(p.vectors, tx.vectors)
      /\ Merge(Merge(p.edges, q.edges), tx.edges) = Merge(p.edges, tx.edges)
      /\ Merge(Merge(p.concepts, q.concepts), tx.concepts) = Merge(p.concepts, tx.concepts)
  BY MergeCovered DEF Within
<1>2. /\ (p.vertices \cup q.vertices) \cup tx.vertices = p.vertices \cup tx.vertices
      /\ (p.rels \cup q.rels) \cup tx.rels = p.rels \cup tx.rels
  BY DEF Within
<1> QED
  BY <1>1, <1>2 DEF commit

\* f is the table of the database after each upsert up to k.
IsPgTable(f, s, us, k) == f = [i \in 0..k |-> IF i = 0 THEN s ELSE commit(f[i - 1], pg_upsert(us[i]))]

\* What it says of each.
PgRows(f, s, us, k) ==
  /\ f[0] = s
  /\ \A i \in 0..k : i # 0 => f[i] = commit(f[i - 1], pg_upsert(us[i]))

LEMMA PgTableRows ==
  ASSUME NEW s, NEW us, NEW k \in Nat, NEW f, IsPgTable(f, s, us, k)
  PROVE  PgRows(f, s, us, k)
BY DEF IsPgTable, PgRows

\* There is a table for every number of upserts.
LEMMA PgTableExists ==
  ASSUME NEW s, NEW us
  PROVE  \A k \in Nat : \E f : IsPgTable(f, s, us, k)
<1> DEFINE T == {k \in Nat : \E f : IsPgTable(f, s, us, k)}
<1>1. 0 \in T
  <2> DEFINE g == [i \in 0..0 |-> s]
  <2>1. IsPgTable(g, s, us, 0)
    BY DEF IsPgTable
  <2> QED
    BY <2>1
<1>2. ASSUME NEW k \in T PROVE k + 1 \in T
  <2>1. k \in Nat /\ k + 1 \in Nat
    OBVIOUS
  <2>2. PICK f : IsPgTable(f, s, us, k)
    OBVIOUS
  <2> DEFINE g == [i \in 0..(k + 1) |-> IF i = k + 1 THEN commit(f[k], pg_upsert(us[k + 1])) ELSE f[i]]
  <2>3. PgRows(f, s, us, k)
    BY <2>1, <2>2, PgTableRows
  <2>4. ASSUME NEW i \in 0..(k + 1)
        PROVE  g[i] = IF i = 0 THEN s ELSE commit(g[i - 1], pg_upsert(us[i]))
    <3>1. CASE i = 0
      BY <2>1, <2>3, <3>1 DEF PgRows
    <3>2. CASE i # 0 /\ i # k + 1
      <4>1. i \in 0..k /\ i - 1 \in 0..k /\ i - 1 \in 0..(k + 1) /\ i - 1 # k + 1
        BY <2>1, <3>2
      <4>2. g[i] = f[i] /\ g[i - 1] = f[i - 1]
        BY <3>2, <4>1
      <4> QED
        BY <2>3, <3>2, <4>1, <4>2 DEF PgRows
    <3>3. CASE i = k + 1
      <4>1. i - 1 = k /\ k \in 0..(k + 1) /\ k # k + 1 /\ i # 0
        BY <2>1, <3>3
      <4>2. g[i - 1] = f[k] /\ g[i] = commit(f[k], pg_upsert(us[k + 1]))
        BY <3>3, <4>1
      <4> QED
        BY <3>3, <4>1, <4>2
    <3> QED
      BY <3>1, <3>2, <3>3
  <2>5. IsPgTable(g, s, us, k + 1)
    <3>1. g = [i \in 0..(k + 1) |-> g[i]]
      OBVIOUS
    <3> HIDE DEF g
    <3>2. g = [i \in 0..(k + 1) |-> IF i = 0 THEN s ELSE commit(g[i - 1], pg_upsert(us[i]))]
      BY <2>4, <3>1
    <3> QED
      BY <3>2 DEF IsPgTable
  <2> QED
    BY <2>1, <2>5
<1>3. T = Nat
  <2> HIDE DEF T
  <2>1. T \in SUBSET Nat
    BY DEF T
  <2> QED
    BY <1>1, <1>2, <2>1, Induction
<1> QED
  BY <1>3

\* pg_after is the last row of the table that TLA+ chooses.
LEMMA PgAfterIsRow ==
  ASSUME NEW s, NEW us, NEW k \in Nat
  PROVE  \E f : IsPgTable(f, s, us, k) /\ pg_after(s, us, k) = f[k]
<1> DEFINE f == CHOOSE g : g = [i \in 0..k |-> IF i = 0 THEN s ELSE commit(g[i - 1], pg_upsert(us[i]))]
<1>1. pg_after(s, us, k) = f[k]
  BY DEF pg_after
<1>2. \E g : g = [i \in 0..k |-> IF i = 0 THEN s ELSE commit(g[i - 1], pg_upsert(us[i]))]
  <2>1. PICK g : IsPgTable(g, s, us, k)
    BY PgTableExists
  <2>2. g = [i \in 0..k |-> IF i = 0 THEN s ELSE commit(g[i - 1], pg_upsert(us[i]))]
    BY <2>1, Zenon DEF IsPgTable
  <2> QED
    BY <2>2, Zenon
<1>3. f = [i \in 0..k |-> IF i = 0 THEN s ELSE commit(f[i - 1], pg_upsert(us[i]))]
  BY <1>2
<1> QED
  BY <1>1, <1>3 DEF IsPgTable

\* Two tables agree where both have a row.
LEMMA PgTablesAgree ==
  ASSUME NEW s, NEW us, NEW k \in Nat, NEW l \in Nat, k <= l,
         NEW f, IsPgTable(f, s, us, k), NEW g, IsPgTable(g, s, us, l)
  PROVE  \A i \in 0..k : f[i] = g[i]
<1> DEFINE T == {i \in Nat : i <= k => f[i] = g[i]}
<1>1. PgRows(f, s, us, k)
  BY PgTableRows
<1>2. PgRows(g, s, us, l)
  BY PgTableRows
<1>3. 0 \in T
  BY <1>1, <1>2 DEF PgRows
<1>4. ASSUME NEW i \in T PROVE i + 1 \in T
  <2> SUFFICES ASSUME i + 1 <= k PROVE f[i + 1] = g[i + 1]
    OBVIOUS
  <2>1. i + 1 \in 0..k /\ i + 1 \in 0..l /\ i + 1 # 0 /\ (i + 1) - 1 = i /\ f[i] = g[i]
    OBVIOUS
  <2> QED
    BY <1>1, <1>2, <2>1 DEF PgRows
<1>5. T = Nat
  <2>1. T \in SUBSET Nat
    OBVIOUS
  <2> HIDE DEF T
  <2> QED
    BY <1>3, <1>4, <2>1, Induction
<1>6. \A i \in 0..k : i \in T
  BY <1>5
<1> QED
  BY <1>6

\* Before the first upsert.
LEMMA PgAfterNone ==
  ASSUME NEW s, NEW us
  PROVE  pg_after(s, us, 0) = s
<1>1. PICK f : IsPgTable(f, s, us, 0) /\ pg_after(s, us, 0) = f[0]
  BY PgAfterIsRow
<1>2. PgRows(f, s, us, 0)
  BY <1>1, PgTableRows
<1> QED
  BY <1>1, <1>2 DEF PgRows

\* After the next one.
LEMMA PgAfterNext ==
  ASSUME NEW s, NEW us, NEW k \in Nat
  PROVE  pg_after(s, us, k + 1) = commit(pg_after(s, us, k), pg_upsert(us[k + 1]))
<1>1. PICK f : IsPgTable(f, s, us, k) /\ pg_after(s, us, k) = f[k]
  BY PgAfterIsRow
<1>2. k + 1 \in Nat /\ k <= k + 1 /\ k \in 0..k /\ k + 1 \in 0..(k + 1) /\ k + 1 # 0 /\ (k + 1) - 1 = k
  OBVIOUS
<1>3. PICK g : IsPgTable(g, s, us, k + 1) /\ pg_after(s, us, k + 1) = g[k + 1]
  BY <1>2, PgAfterIsRow
<1>4. f[k] = g[k]
  BY <1>1, <1>2, <1>3, PgTablesAgree
<1>5. PgRows(g, s, us, k + 1)
  BY <1>2, <1>3, PgTableRows
<1>6. g[k + 1] = commit(g[k], pg_upsert(us[k + 1]))
  BY <1>2, <1>5 DEF PgRows
<1> QED
  BY <1>1, <1>3, <1>4, <1>6

-----------------------------------------------------------------------------
(* The same for the memory *)

\* f is the table of the memory after each upsert up to k.
IsMemTable(f, s, us, k) == f = [i \in 0..k |-> IF i = 0 THEN s ELSE mem_upsert(f[i - 1], us[i])]

\* What it says of each.
MemRows(f, s, us, k) ==
  /\ f[0] = s
  /\ \A i \in 0..k : i # 0 => f[i] = mem_upsert(f[i - 1], us[i])

LEMMA MemTableRows ==
  ASSUME NEW s, NEW us, NEW k \in Nat, NEW f, IsMemTable(f, s, us, k)
  PROVE  MemRows(f, s, us, k)
BY DEF IsMemTable, MemRows

\* There is a table for every number of upserts.
LEMMA MemTableExists ==
  ASSUME NEW s, NEW us
  PROVE  \A k \in Nat : \E f : IsMemTable(f, s, us, k)
<1> DEFINE T == {k \in Nat : \E f : IsMemTable(f, s, us, k)}
<1>1. 0 \in T
  <2> DEFINE g == [i \in 0..0 |-> s]
  <2>1. IsMemTable(g, s, us, 0)
    BY DEF IsMemTable
  <2> QED
    BY <2>1
<1>2. ASSUME NEW k \in T PROVE k + 1 \in T
  <2>1. k \in Nat /\ k + 1 \in Nat
    OBVIOUS
  <2>2. PICK f : IsMemTable(f, s, us, k)
    OBVIOUS
  <2> DEFINE g == [i \in 0..(k + 1) |-> IF i = k + 1 THEN mem_upsert(f[k], us[k + 1]) ELSE f[i]]
  <2>3. MemRows(f, s, us, k)
    BY <2>1, <2>2, MemTableRows
  <2>4. ASSUME NEW i \in 0..(k + 1)
        PROVE  g[i] = IF i = 0 THEN s ELSE mem_upsert(g[i - 1], us[i])
    <3>1. CASE i = 0
      BY <2>1, <2>3, <3>1 DEF MemRows
    <3>2. CASE i # 0 /\ i # k + 1
      <4>1. i \in 0..k /\ i - 1 \in 0..k /\ i - 1 \in 0..(k + 1) /\ i - 1 # k + 1
        BY <2>1, <3>2
      <4>2. g[i] = f[i] /\ g[i - 1] = f[i - 1]
        BY <3>2, <4>1
      <4> QED
        BY <2>3, <3>2, <4>1, <4>2 DEF MemRows
    <3>3. CASE i = k + 1
      <4>1. i - 1 = k /\ k \in 0..(k + 1) /\ k # k + 1 /\ i # 0
        BY <2>1, <3>3
      <4>2. g[i - 1] = f[k] /\ g[i] = mem_upsert(f[k], us[k + 1])
        BY <3>3, <4>1
      <4> QED
        BY <3>3, <4>1, <4>2
    <3> QED
      BY <3>1, <3>2, <3>3
  <2>5. IsMemTable(g, s, us, k + 1)
    <3>1. g = [i \in 0..(k + 1) |-> g[i]]
      OBVIOUS
    <3> HIDE DEF g
    <3>2. g = [i \in 0..(k + 1) |-> IF i = 0 THEN s ELSE mem_upsert(g[i - 1], us[i])]
      BY <2>4, <3>1
    <3> QED
      BY <3>2 DEF IsMemTable
  <2> QED
    BY <2>1, <2>5
<1>3. T = Nat
  <2> HIDE DEF T
  <2>1. T \in SUBSET Nat
    BY DEF T
  <2> QED
    BY <1>1, <1>2, <2>1, Induction
<1> QED
  BY <1>3

\* mem_after is the last row of the table that TLA+ chooses.
LEMMA MemAfterIsRow ==
  ASSUME NEW s, NEW us, NEW k \in Nat
  PROVE  \E f : IsMemTable(f, s, us, k) /\ mem_after(s, us, k) = f[k]
<1> DEFINE f == CHOOSE g : g = [i \in 0..k |-> IF i = 0 THEN s ELSE mem_upsert(g[i - 1], us[i])]
<1>1. mem_after(s, us, k) = f[k]
  BY DEF mem_after
<1>2. \E g : g = [i \in 0..k |-> IF i = 0 THEN s ELSE mem_upsert(g[i - 1], us[i])]
  <2>1. PICK g : IsMemTable(g, s, us, k)
    BY MemTableExists
  <2>2. g = [i \in 0..k |-> IF i = 0 THEN s ELSE mem_upsert(g[i - 1], us[i])]
    BY <2>1, Zenon DEF IsMemTable
  <2> QED
    BY <2>2, Zenon
<1>3. f = [i \in 0..k |-> IF i = 0 THEN s ELSE mem_upsert(f[i - 1], us[i])]
  BY <1>2
<1> QED
  BY <1>1, <1>3 DEF IsMemTable

\* Two tables agree where both have a row.
LEMMA MemTablesAgree ==
  ASSUME NEW s, NEW us, NEW k \in Nat, NEW l \in Nat, k <= l,
         NEW f, IsMemTable(f, s, us, k), NEW g, IsMemTable(g, s, us, l)
  PROVE  \A i \in 0..k : f[i] = g[i]
<1> DEFINE T == {i \in Nat : i <= k => f[i] = g[i]}
<1>1. MemRows(f, s, us, k)
  BY MemTableRows
<1>2. MemRows(g, s, us, l)
  BY MemTableRows
<1>3. 0 \in T
  BY <1>1, <1>2 DEF MemRows
<1>4. ASSUME NEW i \in T PROVE i + 1 \in T
  <2> SUFFICES ASSUME i + 1 <= k PROVE f[i + 1] = g[i + 1]
    OBVIOUS
  <2>1. i + 1 \in 0..k /\ i + 1 \in 0..l /\ i + 1 # 0 /\ (i + 1) - 1 = i /\ f[i] = g[i]
    OBVIOUS
  <2> QED
    BY <1>1, <1>2, <2>1 DEF MemRows
<1>5. T = Nat
  <2>1. T \in SUBSET Nat
    OBVIOUS
  <2> HIDE DEF T
  <2> QED
    BY <1>3, <1>4, <2>1, Induction
<1>6. \A i \in 0..k : i \in T
  BY <1>5
<1> QED
  BY <1>6

\* Before the first upsert.
LEMMA MemAfterNone ==
  ASSUME NEW s, NEW us
  PROVE  mem_after(s, us, 0) = s
<1>1. PICK f : IsMemTable(f, s, us, 0) /\ mem_after(s, us, 0) = f[0]
  BY MemAfterIsRow
<1>2. MemRows(f, s, us, 0)
  BY <1>1, MemTableRows
<1> QED
  BY <1>1, <1>2 DEF MemRows

\* After the next one.
LEMMA MemAfterNext ==
  ASSUME NEW s, NEW us, NEW k \in Nat
  PROVE  mem_after(s, us, k + 1) = mem_upsert(mem_after(s, us, k), us[k + 1])
<1>1. PICK f : IsMemTable(f, s, us, k) /\ mem_after(s, us, k) = f[k]
  BY MemAfterIsRow
<1>2. k + 1 \in Nat /\ k <= k + 1 /\ k \in 0..k /\ k + 1 \in 0..(k + 1) /\ k + 1 # 0 /\ (k + 1) - 1 = k
  OBVIOUS
<1>3. PICK g : IsMemTable(g, s, us, k + 1) /\ mem_after(s, us, k + 1) = g[k + 1]
  BY <1>2, MemAfterIsRow
<1>4. f[k] = g[k]
  BY <1>1, <1>2, <1>3, MemTablesAgree
<1>5. MemRows(g, s, us, k + 1)
  BY <1>2, <1>3, MemTableRows
<1>6. g[k + 1] = mem_upsert(g[k], us[k + 1])
  BY <1>2, <1>5 DEF MemRows
<1> QED
  BY <1>1, <1>3, <1>4, <1>6

-----------------------------------------------------------------------------
(* Requests that are sent again *)

LEMMA EmptyIsMap == IsMap(Empty) /\ DOMAIN Empty = {}
<1>1. DOMAIN Empty = {}
  BY DEF Empty
<1>2. Empty = [x \in {} |-> Empty[x]]
  BY DEF Empty
<1> HIDE DEF Empty
<1> QED
  BY <1>1, <1>2 DEF IsMap

LEMMA EmptyFields ==
  /\ EmptyPostgres.rows = Empty /\ EmptyPostgres.vectors = Empty /\ EmptyPostgres.edges = Empty
  /\ EmptyPostgres.concepts = Empty /\ EmptyPostgres.vertices = {} /\ EmptyPostgres.rels = {}
  /\ IsPostgres(EmptyPostgres)
<1>1. /\ EmptyPostgres.rows = Empty /\ EmptyPostgres.vectors = Empty /\ EmptyPostgres.edges = Empty
      /\ EmptyPostgres.concepts = Empty /\ EmptyPostgres.vertices = {} /\ EmptyPostgres.rels = {}
  BY DEF EmptyPostgres
<1>2. EmptyPostgres = [rows |-> Empty, vectors |-> Empty, edges |-> Empty, concepts |-> Empty,
                       vertices |-> {}, rels |-> {}]
  BY DEF EmptyPostgres
<1> HIDE DEF Empty
<1> QED
  BY <1>1, <1>2, EmptyIsMap DEF IsPostgres

\* A transaction that writes nothing.
LEMMA CommitNothing ==
  ASSUME NEW p, IsPostgres(p)
  PROVE  commit(p, EmptyPostgres) = p
<1> HIDE DEF Empty
<1>1. /\ Merge(p.rows, Empty) = p.rows /\ Merge(p.vectors, Empty) = p.vectors
      /\ Merge(p.edges, Empty) = p.edges /\ Merge(p.concepts, Empty) = p.concepts
  BY MergeEmpty DEF IsPostgres
<1>2. commit(p, EmptyPostgres) =
        [rows |-> p.rows, vectors |-> p.vectors, edges |-> p.edges, concepts |-> p.concepts,
         vertices |-> p.vertices, rels |-> p.rels]
  BY <1>1, EmptyFields DEF commit
<1> QED
  BY <1>2 DEF IsPostgres

\* A sequence of transactions is one transaction, the sum of what they write.
LEMMA PgAfterIsCommit ==
  ASSUME NEW p, IsPostgres(p), NEW us
  PROVE  \A k \in Nat : pg_after(p, us, k) = commit(p, pg_after(EmptyPostgres, us, k))
<1> DEFINE T == {k \in Nat : pg_after(p, us, k) = commit(p, pg_after(EmptyPostgres, us, k))}
<1>1. 0 \in T
  <2>1. pg_after(p, us, 0) = p /\ pg_after(EmptyPostgres, us, 0) = EmptyPostgres
    BY PgAfterNone
  <2> QED
    BY <2>1, CommitNothing
<1>2. ASSUME NEW k \in T PROVE k + 1 \in T
  <2>1. PICK q : q = pg_after(EmptyPostgres, us, k)
    OBVIOUS
  <2>2. PICK tx : tx = pg_upsert(us[k + 1])
    OBVIOUS
  <2>3. pg_after(p, us, k) = commit(p, q)
    BY <2>1
  <2>4. pg_after(EmptyPostgres, us, k + 1) = commit(q, tx)
    BY <2>1, <2>2, PgAfterNext
  <2>5. pg_after(p, us, k + 1) = commit(commit(p, q), tx)
    BY <2>2, <2>3, PgAfterNext
  <2>6. pg_after(p, us, k + 1) = commit(p, commit(q, tx))
    BY <2>5, CommitAssociates
  <2> QED
    BY <2>4, <2>6
<1>3. T = Nat
  <2>1. T \in SUBSET Nat
    OBVIOUS
  <2> HIDE DEF T
  <2> QED
    BY <1>1, <1>2, <2>1, Induction
<1> QED
  BY <1>3

\* It writes more with every one of them.
LEMMA PgAfterGrows ==
  ASSUME NEW us, NEW j \in Nat, NEW p
  PROVE  \A k \in Nat : j <= k => Within(pg_after(p, us, j), pg_after(p, us, k))
<1> DEFINE T == {d \in Nat : Within(pg_after(p, us, j), pg_after(p, us, j + d))}
<1>1. 0 \in T
  <2>1. j + 0 = j
    OBVIOUS
  <2> QED
    BY <2>1 DEF Within
<1>2. ASSUME NEW d \in T PROVE d + 1 \in T
  <2>1. j + d \in Nat /\ j + (d + 1) = (j + d) + 1
    OBVIOUS
  <2>2. PICK q : q = pg_after(p, us, j + d)
    OBVIOUS
  <2>3. PICK r : r = pg_after(p, us, j)
    OBVIOUS
  <2>4. PICK tx : tx = pg_upsert(us[(j + d) + 1])
    OBVIOUS
  <2>5. Within(r, q)
    BY <2>2, <2>3
  <2>6. pg_after(p, us, j + (d + 1)) = commit(q, tx)
    BY <2>1, <2>2, <2>4, PgAfterNext
  <2>7. Within(r, commit(q, tx))
    BY <2>5, CommitGrows DEF Within
  <2> QED
    BY <2>3, <2>6, <2>7
<1>3. T = Nat
  <2>1. T \in SUBSET Nat
    OBVIOUS
  <2> HIDE DEF T
  <2> QED
    BY <1>1, <1>2, <2>1, Induction
<1>4. ASSUME NEW k \in Nat, j <= k PROVE Within(pg_after(p, us, j), pg_after(p, us, k))
  <2>1. k - j \in Nat /\ j + (k - j) = k
    BY <1>4
  <2>2. k - j \in T
    BY <1>3, <2>1
  <2> QED
    BY <2>1, <2>2
<1> QED
  BY <1>4

\* PostgresGraphStore: upserts that were begun and are sent again in full leave what they
\* would have left at once.
LEMMA PgResent ==
  ASSUME NEW p, IsPostgres(p), NEW us, NEW k \in Nat, NEW n \in Nat, k <= n
  PROVE  pg_after(pg_after(p, us, k), us, n) = pg_after(p, us, n)
<1>1. PICK q : q = pg_after(EmptyPostgres, us, k)
  OBVIOUS
<1>2. PICK r : r = pg_after(EmptyPostgres, us, n)
  OBVIOUS
<1>3. pg_after(p, us, k) = commit(p, q) /\ pg_after(p, us, n) = commit(p, r)
  BY <1>1, <1>2, PgAfterIsCommit
<1>4. IsPostgres(commit(p, q))
  BY CommitFields
<1>5. pg_after(commit(p, q), us, n) = commit(commit(p, q), r)
  BY <1>2, <1>4, PgAfterIsCommit
<1>6. Within(q, r)
  BY <1>1, <1>2, PgAfterGrows
<1>7. commit(commit(p, q), r) = commit(p, r)
  BY <1>6, CommitCovered
<1> QED
  BY <1>3, <1>5, <1>7

\* The tables and the graph stay what they are, whatever is written.
LEMMA PgAfterIsPostgres ==
  ASSUME NEW p, IsPostgres(p), NEW us, NEW k \in Nat
  PROVE  IsPostgres(pg_after(p, us, k))
<1>1. PICK q : q = pg_after(EmptyPostgres, us, k)
  OBVIOUS
<1>2. pg_after(p, us, k) = commit(p, q)
  BY <1>1, PgAfterIsCommit
<1> QED
  BY <1>2, CommitFields

-----------------------------------------------------------------------------
(* Upserts *)

IsUpsert(u) ==
  \/ \E c : u = [op |-> "record", concept |-> c]
  \/ \E c : u = [op |-> "mirror", concept |-> c]
  \/ \E e, props : u = [op |-> "edge", edge |-> e, props |-> props] /\ IsMap(props)
  \/ \E id, kind, props : u = [op |-> "node", id |-> id, kind |-> kind, props |-> props]

IsUpserts(us) == IsList(us) /\ \A i \in DOMAIN us : IsUpsert(us[i])

\* A list, whatever is in it.
LEMMA ListIsSeq ==
  ASSUME NEW S, NEW s \in Seq(S)
  PROVE  IsList(s)
<1>1. Len(s) \in Nat /\ DOMAIN s = 1..Len(s) /\ s = [i \in 1..Len(s) |-> s[i]]
  OBVIOUS
<1>2. \A i \in 1..Len(s) : s[i] \in ToSet(s)
  BY <1>1 DEF ToSet
<1> HIDE DEF ToSet
<1> QED
  BY <1>1, <1>2 DEF IsList

LEMMA UpsertsFrom ==
  ASSUME NEW S, \A u \in S : IsUpsert(u), NEW s \in Seq(S)
  PROVE  IsUpserts(s)
<1>1. \A i \in DOMAIN s : s[i] \in S
  OBVIOUS
<1> QED
  BY <1>1, ListIsSeq DEF IsUpserts

\* The upserts of a request, in order.
LEMMA RequestUpserts ==
  ASSUME NEW r \in Requests
  PROVE  IsUpserts(Upserts(r))
<1>1. CASE r.upsert = "concept"
  <2>1. PICK c : c = r.concept
    OBVIOUS
  <2> DEFINE first == [op |-> "record", concept |-> c]
             second == [op |-> "mirror", concept |-> c]
             link(i) == [op |-> "edge", edge |-> c.links[i], props |-> Empty]
             links == [i \in DOMAIN c.links |-> link(i)]
             S == {first, second} \cup {link(i) : i \in DOMAIN c.links}
  <2>2. IsList(c.links)
    BY <1>1, <2>1, BackendsAssumption
  <2>3. DOMAIN c.links = 1..Len(c.links) /\ Len(c.links) \in Nat
    BY <2>2 DEF IsList
  <2>4. links \in Seq(S)
    BY <2>3
  <2>5. <<first, second>> \in Seq(S)
    OBVIOUS
  <2>6. IsUpsert(first) /\ IsUpsert(second)
    BY DEF IsUpsert
  <2>7. \A i \in DOMAIN c.links : IsUpsert(link(i))
    BY EmptyIsMap DEF IsUpsert
  <2>8. \A u \in S : IsUpsert(u)
    <3> HIDE DEF first, second, link
    <3> QED
      BY <2>6, <2>7
  <2>9. Upserts(r) = <<first, second>> \o links
    BY <1>1, <2>1 DEF Upserts
  <2> HIDE DEF first, second, links, S
  <2>10. <<first, second>> \o links \in Seq(S)
    BY <2>4, <2>5
  <2> QED
    BY <2>8, <2>9, <2>10, UpsertsFrom
<1>2. CASE r.upsert = "edge"
  <2> DEFINE u == [op |-> "edge", edge |-> r.edge, props |-> r.props]
  <2>1. IsUpsert(u)
    BY <1>2, BackendsAssumption DEF IsUpsert
  <2>2. Upserts(r) = <<u>> \/ Upserts(r) = <<>>
    BY <1>2 DEF Upserts
  <2> HIDE DEF u
  <2>3. <<u>> \in Seq({u}) /\ <<>> \in Seq({u})
    OBVIOUS
  <2> QED
    BY <2>1, <2>2, <2>3, UpsertsFrom
<1>3. CASE r.upsert \notin {"concept", "edge"}
  <2> DEFINE u == [op |-> "node", id |-> r.id, kind |-> r.kind, props |-> r.props]
  <2>1. IsUpsert(u)
    BY DEF IsUpsert
  <2>2. Upserts(r) = <<u>>
    BY <1>3 DEF Upserts
  <2> HIDE DEF u
  <2>3. <<u>> \in Seq({u})
    OBVIOUS
  <2> QED
    BY <2>1, <2>2, <2>3, UpsertsFrom
<1> QED
  BY <1>1, <1>2, <1>3

-----------------------------------------------------------------------------
(* The tables and the graph *)

Follows(p) ==
  /\ DOMAIN p.rows \subseteq p.vertices
  /\ p.vectors = [id \in DOMAIN p.rows |-> p.rows[id].kind]
  /\ p.rels = {Rel(e) : e \in DOMAIN p.edges}

LEMMA EmptyFollows == Follows(EmptyPostgres)
<1>1. [id \in {} |-> Empty[id].kind] = Empty
  BY DEF Empty
<1> HIDE DEF Empty
<1> QED
  BY <1>1, EmptyFields, EmptyIsMap DEF Follows

\* Each transaction keeps tables and graph in step.
LEMMA CommitFollows ==
  ASSUME NEW p, Follows(p), NEW tx, Follows(tx)
  PROVE  Follows(commit(p, tx))
<1>1. DOMAIN Merge(p.rows, tx.rows) \subseteq p.vertices \cup tx.vertices
  BY DEF Follows, Merge
<1>2. Merge(p.vectors, tx.vectors) =
        [id \in DOMAIN Merge(p.rows, tx.rows) |-> Merge(p.rows, tx.rows)[id].kind]
  BY DEF Follows, Merge
<1>3. p.rels \cup tx.rels = {Rel(e) : e \in DOMAIN Merge(p.edges, tx.edges)}
  <2>1. DOMAIN Merge(p.edges, tx.edges) = DOMAIN p.edges \cup DOMAIN tx.edges
    BY DEF Merge
  <2> QED
    BY <2>1 DEF Follows
<1>4. PICK q : q = commit(p, tx)
  OBVIOUS
<1>5. /\ q.rows = Merge(p.rows, tx.rows) /\ q.vectors = Merge(p.vectors, tx.vectors)
      /\ q.edges = Merge(p.edges, tx.edges)
      /\ q.vertices = p.vertices \cup tx.vertices /\ q.rels = p.rels \cup tx.rels
  BY <1>4, CommitFields
<1>6. Follows(q)
  BY <1>1, <1>2, <1>3, <1>5 DEF Follows
<1> QED
  BY <1>4, <1>6

\* {k: v}
LEMMA EntryProperties ==
  ASSUME NEW k, NEW v
  PROVE  DOMAIN Entry(k, v) = {k} /\ Entry(k, v)[k] = v /\ IsMap(Entry(k, v))
BY DEF IsMap, Entry

\* What a transaction writes: MERGE of vertex, row and vector; MERGE of ends and relationship, and
\* the row; the record of a concept.
LEMMA NodeWrites ==
  ASSUME NEW id, NEW kind, NEW props, NEW tx, tx = pg_upsert_node(id, kind, props)
  PROVE  /\ tx.rows = Entry(id, [kind |-> kind, props |-> props]) /\ tx.vectors = Entry(id, kind)
         /\ tx.vertices = {id} /\ tx.edges = Empty /\ tx.rels = {} /\ tx.concepts = Empty
<1> HIDE DEF Empty
<1> QED
  BY DEF pg_upsert_node, NoWrites, EmptyPostgres

LEMMA EdgeWrites ==
  ASSUME NEW e, NEW props, NEW tx, tx = pg_upsert_edge(e, props)
  PROVE  /\ tx.rows = Empty /\ tx.vectors = Empty /\ tx.concepts = Empty
         /\ tx.vertices = {e.source_id, e.target_id} /\ tx.edges = Entry(e, props) /\ tx.rels = {Rel(e)}
<1> HIDE DEF Empty
<1> QED
  BY DEF pg_upsert_edge, MergedRels, NoWrites, EmptyPostgres

LEMMA RecordWrites ==
  ASSUME NEW c, NEW tx, tx = pg_record(c)
  PROVE  /\ tx.rows = Empty /\ tx.vectors = Empty /\ tx.concepts = Entry(c.concept, c)
         /\ tx.vertices = {} /\ tx.edges = Empty /\ tx.rels = {}
<1> HIDE DEF Empty
<1> QED
  BY DEF pg_record, NoWrites, EmptyPostgres

\* Each upsert is one transaction that keeps tables and graph in step.
LEMMA UpsertFollows ==
  ASSUME NEW u, IsUpsert(u)
  PROVE  Follows(pg_upsert(u))
<1>1. PICK tx : tx = pg_upsert(u)
  OBVIOUS
<1>2. [id \in {} |-> Empty[id].kind] = Empty
  BY DEF Empty
<1> HIDE DEF Empty
<1>3. ASSUME NEW id, NEW kind, NEW props, tx = pg_upsert_node(id, kind, props)
      PROVE  Follows(tx)
  <2>1. /\ tx.rows = Entry(id, [kind |-> kind, props |-> props]) /\ tx.vectors = Entry(id, kind)
        /\ tx.vertices = {id} /\ tx.edges = Empty /\ tx.rels = {}
    BY <1>3, NodeWrites
  <2>2. DOMAIN tx.rows = {id} /\ tx.rows[id].kind = kind
    <3>1. PICK row : row = [kind |-> kind, props |-> props]
      OBVIOUS
    <3>2. row.kind = kind
      BY <3>1
    <3>3. DOMAIN tx.rows = {id} /\ tx.rows[id] = row
      BY <2>1, <3>1, EntryProperties
    <3> QED
      BY <3>2, <3>3
  <2>3. tx.vectors = [i \in {id} |-> kind]
    BY <2>1 DEF Entry
  <2>4. tx.vectors = [i \in DOMAIN tx.rows |-> tx.rows[i].kind]
    BY <2>2, <2>3
  <2> QED
    BY <2>1, <2>2, <2>4, EmptyIsMap DEF Follows
<1>4. CASE \E c : u = [op |-> "record", concept |-> c]
  <2>1. PICK c : u = [op |-> "record", concept |-> c]
    BY <1>4
  <2>2. tx = pg_record(c)
    BY <1>1, <2>1 DEF pg_upsert
  <2>3. tx.rows = Empty /\ tx.vectors = Empty /\ tx.vertices = {} /\ tx.edges = Empty /\ tx.rels = {}
    BY <2>2, RecordWrites
  <2> QED
    BY <1>1, <1>2, <2>3, EmptyIsMap DEF Follows
<1>5. CASE \E c : u = [op |-> "mirror", concept |-> c]
  <2>1. PICK c : u = [op |-> "mirror", concept |-> c]
    BY <1>5
  <2>2. tx = pg_mirror(c)
    BY <1>1, <2>1 DEF pg_upsert
  <2> QED
    BY <1>1, <1>3, <2>2 DEF pg_mirror
<1>6. CASE \E e, props : u = [op |-> "edge", edge |-> e, props |-> props] /\ IsMap(props)
  <2>1. PICK e, props : u = [op |-> "edge", edge |-> e, props |-> props]
    BY <1>6
  <2>2. tx = pg_upsert_edge(e, props)
    BY <1>1, <2>1 DEF pg_upsert
  <2>3. tx.rows = Empty /\ tx.vectors = Empty /\ tx.edges = Entry(e, props) /\ tx.rels = {Rel(e)}
    BY <2>2, EdgeWrites
  <2>4. DOMAIN tx.edges = {e}
    BY <2>3, EntryProperties
  <2> QED
    BY <1>1, <1>2, <2>3, <2>4, EmptyIsMap DEF Follows
<1>7. CASE \E id, kind, props : u = [op |-> "node", id |-> id, kind |-> kind, props |-> props]
  <2>1. PICK id, kind, props : u = [op |-> "node", id |-> id, kind |-> kind, props |-> props]
    BY <1>7
  <2>2. tx = pg_upsert_node(id, kind, props)
    BY <1>1, <2>1 DEF pg_upsert
  <2> QED
    BY <1>1, <1>3, <2>2
<1> QED
  BY <1>4, <1>5, <1>6, <1>7 DEF IsUpsert

-----------------------------------------------------------------------------
(* The upserts of the seed *)

\* What FlattenSeq makes of the first k lists.
IsFlat(f, seqs, n) == f = [i \in 1..n |-> IF i = 1 THEN seqs[i] ELSE f[i - 1] \o seqs[i]]

\* Such a table exists and has lists of the same things.
LEMMA FlatTable ==
  ASSUME NEW S, NEW seqs, NEW m \in Nat, \A i \in 1..m : seqs[i] \in Seq(S)
  PROVE  \A n \in 1..m : \E f : IsFlat(f, seqs, n) /\ \A i \in 1..n : f[i] \in Seq(S)
<1> DEFINE Good(n) == \E f : IsFlat(f, seqs, n) /\ \A i \in 1..n : f[i] \in Seq(S)
           T == {n \in Nat : n \in 1..m => Good(n)}
<1>1. 0 \in T
  OBVIOUS
<1>2. ASSUME NEW n \in T PROVE n + 1 \in T
  <2> SUFFICES ASSUME n + 1 \in 1..m PROVE Good(n + 1)
    OBVIOUS
  <2>1. n \in Nat
    OBVIOUS
  <2>2. CASE n = 0
    <3> DEFINE g == [i \in 1..1 |-> seqs[i]]
    <3>1. IsFlat(g, seqs, 1) /\ \A i \in 1..1 : g[i] \in Seq(S)
      BY <2>2 DEF IsFlat
    <3> QED
      BY <2>2, <3>1
  <2>3. CASE n # 0
    <3>1. n \in 1..m
      BY <2>1, <2>3
    <3>2. PICK f : IsFlat(f, seqs, n) /\ \A i \in 1..n : f[i] \in Seq(S)
      BY <3>1
    <3> DEFINE g == [i \in 1..(n + 1) |-> IF i = n + 1 THEN f[n] \o seqs[n + 1] ELSE f[i]]
    <3>3. ASSUME NEW i \in 1..(n + 1)
          PROVE  /\ g[i] = IF i = 1 THEN seqs[i] ELSE g[i - 1] \o seqs[i]
                 /\ g[i] \in Seq(S)
      <4>1. CASE i = n + 1
        <5>1. i # 1 /\ i - 1 = n /\ n \in 1..(n + 1) /\ n \in 1..n /\ n # n + 1
          BY <2>1, <2>3, <4>1
        <5>2. g[i] = f[n] \o seqs[n + 1] /\ g[i - 1] = f[n]
          BY <4>1, <5>1
        <5>3. f[n] \in Seq(S) /\ seqs[n + 1] \in Seq(S)
          BY <3>2, <5>1
        <5>4. f[n] \o seqs[n + 1] \in Seq(S)
          BY <5>3
        <5> QED
          BY <4>1, <5>1, <5>2, <5>4
      <4>2. CASE i # n + 1
        <5>1. i \in 1..n /\ (i # 1 => i - 1 \in 1..n /\ i - 1 \in 1..(n + 1) /\ i - 1 # n + 1)
          BY <2>1, <4>2
        <5>2. g[i] = f[i] /\ (i # 1 => g[i - 1] = f[i - 1])
          BY <4>2, <5>1
        <5>3. f[i] = IF i = 1 THEN seqs[i] ELSE f[i - 1] \o seqs[i]
          BY <3>2, <5>1 DEF IsFlat
        <5> QED
          BY <3>2, <5>1, <5>2, <5>3
      <4> QED
        BY <4>1, <4>2
    <3>4. g = [i \in 1..(n + 1) |-> g[i]]
      OBVIOUS
    <3> HIDE DEF g
    <3>5. g = [i \in 1..(n + 1) |-> IF i = 1 THEN seqs[i] ELSE g[i - 1] \o seqs[i]]
      BY <3>3, <3>4
    <3>6. IsFlat(g, seqs, n + 1)
      BY <3>5 DEF IsFlat
    <3> QED
      BY <3>3, <3>6
  <2> QED
    BY <2>2, <2>3
<1>3. T = Nat
  <2>1. T \in SUBSET Nat
    OBVIOUS
  <2> HIDE DEF T
  <2> QED
    BY <1>1, <1>2, <2>1, Induction
<1>4. ASSUME NEW n \in 1..m PROVE Good(n)
  <2>1. n \in T
    <3> HIDE DEF T
    <3> QED
      BY <1>3
  <2> QED
    BY <2>1
<1> QED
  BY <1>4

\* Lists put together are a list.
LEMMA FlattenLists ==
  ASSUME NEW S, NEW seqs \in Seq(Seq(S))
  PROVE  FlattenSeq(seqs) \in Seq(S)
<1>1. Len(seqs) \in Nat /\ \A i \in 1..Len(seqs) : seqs[i] \in Seq(S)
  OBVIOUS
<1>2. PICK n : n = Len(seqs)
  OBVIOUS
<1>3. CASE n = 0
  <2>1. seqs = <<>>
    BY <1>2, <1>3, EmptySeq
  <2>2. FlattenSeq(seqs) = seqs
    BY <1>2, <1>3 DEF FlattenSeq
  <2>3. <<>> \in Seq(S)
    OBVIOUS
  <2> QED
    BY <2>1, <2>2, <2>3
<1>4. CASE n # 0
  <2> DEFINE f == CHOOSE g : g = [i \in 1..n |-> IF i = 1 THEN seqs[i] ELSE g[i - 1] \o seqs[i]]
  <2>1. FlattenSeq(seqs) = f[n]
    BY <1>2, <1>4 DEF FlattenSeq
  <2>2. n \in 1..n /\ n \in Nat
    BY <1>1, <1>2, <1>4
  <2>3. \E g : g = [i \in 1..n |-> IF i = 1 THEN seqs[i] ELSE g[i - 1] \o seqs[i]]
    <3>1. PICK g : IsFlat(g, seqs, n)
      BY <1>1, <1>2, <2>2, FlatTable
    <3>2. g = [i \in 1..n |-> IF i = 1 THEN seqs[i] ELSE g[i - 1] \o seqs[i]]
      BY <3>1, Zenon DEF IsFlat
    <3> QED
      BY <3>2, Zenon
  <2>4. f = [i \in 1..n |-> IF i = 1 THEN seqs[i] ELSE f[i - 1] \o seqs[i]]
    BY <2>3
  <2> HIDE DEF f
  <2> DEFINE T == {i \in Nat : i \in 1..n => f[i] \in Seq(S)}
  <2>5. 0 \in T
    OBVIOUS
  <2>6. ASSUME NEW i \in T PROVE i + 1 \in T
    <3> SUFFICES ASSUME i + 1 \in 1..n PROVE f[i + 1] \in Seq(S)
      OBVIOUS
    <3>1. i \in Nat /\ seqs[i + 1] \in Seq(S)
      BY <1>1, <1>2
    <3>2. CASE i = 0
      <4>1. f[1] = seqs[1]
        BY <2>2, <2>4, <3>2
      <4> QED
        BY <3>1, <3>2, <4>1
    <3>3. CASE i # 0
      <4>1. i \in 1..n /\ i + 1 # 1 /\ (i + 1) - 1 = i
        BY <2>2, <3>1, <3>3
      <4>2. f[i] \in Seq(S)
        BY <4>1
      <4>3. f[i + 1] = f[i] \o seqs[i + 1]
        BY <2>4, <4>1
      <4>4. f[i] \o seqs[i + 1] \in Seq(S)
        BY <3>1, <4>2
      <4> QED
        BY <4>3, <4>4
    <3> QED
      BY <3>2, <3>3
  <2>7. T = Nat
    <3>1. T \in SUBSET Nat
      OBVIOUS
    <3> HIDE DEF T
    <3> QED
      BY <2>5, <2>6, <3>1, Induction
  <2>8. n \in T
    BY <2>2, <2>7
  <2> QED
    BY <2>1, <2>2, <2>8
<1> QED
  BY <1>3, <1>4

LEMMA SeedUpsertsList == IsUpserts(SeedUpserts)
<1> DEFINE seqs == [i \in DOMAIN SeedRequests |-> Upserts(SeedRequests[i])]
           S == UNION {ToSet(Upserts(r)) : r \in Requests}
<1>1. ASSUME NEW r \in Requests PROVE Upserts(r) \in Seq(S) /\ \A u \in ToSet(Upserts(r)) : IsUpsert(u)
  <2>1. PICK us : us = Upserts(r)
    OBVIOUS
  <2>2. IsUpserts(us)
    BY <2>1, RequestUpserts
  <2>3. us \in Seq(ToSet(us)) /\ ToSet(us) \subseteq S
    BY <2>1, <2>2 DEF IsUpserts, IsList
  <2>4. \A u \in ToSet(us) : IsUpsert(u)
    BY <2>2 DEF IsUpserts, ToSet
  <2> HIDE DEF S
  <2>5. us \in Seq(S)
    BY <2>3
  <2> QED
    BY <2>1, <2>4, <2>5
<1>2. \A u \in S : IsUpsert(u)
  BY <1>1
<1>3. SeedRequests \in Seq(ToSet(SeedRequests)) /\ ToSet(SeedRequests) \subseteq Requests
  BY BackendsAssumption DEF IsList, Requests
<1>4. Len(SeedRequests) \in Nat /\ DOMAIN SeedRequests = 1..Len(SeedRequests)
      /\ \A i \in DOMAIN SeedRequests : SeedRequests[i] \in Requests
  BY <1>3
<1> HIDE DEF S
<1>5. seqs \in Seq(Seq(S))
  BY <1>1, <1>4
<1>6. SeedUpserts \in Seq(S)
  BY <1>5, FlattenLists DEF SeedUpserts
<1> QED
  BY <1>2, <1>6, UpsertsFrom

-----------------------------------------------------------------------------
(* The memory *)

\* An entry of the list of edges.
IsEdgeEntry(x) == x = [edge |-> x.edge, props |-> x.props] /\ IsMap(x.props)

IsMemory(m) ==
  /\ m = [nodes |-> m.nodes, edges |-> m.edges, concepts |-> m.concepts, alias |-> m.alias]
  /\ IsMap(m.nodes) /\ IsMap(m.concepts) /\ IsMap(m.alias)
  /\ IsList(m.edges) /\ \A i \in DOMAIN m.edges : IsEdgeEntry(m.edges[i])

\* What a concept lists is in the index, and the index leads to concepts.
Findable(m) ==
  /\ \A c \in DOMAIN m.concepts : \A t \in ListedBy(m.concepts[c]) : normalize(t) \in DOMAIN m.alias
  /\ \A k \in DOMAIN m.alias : m.alias[k] \in DOMAIN m.concepts

LEMMA EmptyMemoryFits ==
  /\ IsMemory(EmptyMemory) /\ Findable(EmptyMemory)
  /\ EmptyMemory.nodes = Empty /\ EmptyMemory.edges = Empty
  /\ EmptyMemory.concepts = Empty /\ EmptyMemory.alias = Empty
<1>1. /\ EmptyMemory.nodes = Empty /\ EmptyMemory.edges = Empty
      /\ EmptyMemory.concepts = Empty /\ EmptyMemory.alias = Empty
  BY DEF EmptyMemory
<1>2. EmptyMemory = [nodes |-> Empty, edges |-> Empty, concepts |-> Empty, alias |-> Empty]
  BY DEF EmptyMemory
<1>3. IsList(Empty)
  BY ListIsSeq, EmptySeq DEF Empty
<1> HIDE DEF Empty
<1> QED
  BY <1>1, <1>2, <1>3, EmptyIsMap DEF IsMemory, Findable

\* list.append, without a set the list is over.
LEMMA ListAppend ==
  ASSUME NEW s, IsList(s), NEW x
  PROVE  /\ IsList(Append(s, x))
         /\ Len(s) \in Nat /\ DOMAIN s = 1..Len(s)
         /\ DOMAIN Append(s, x) = 1..(Len(s) + 1)
         /\ \A i \in DOMAIN s : Append(s, x)[i] = s[i]
         /\ Append(s, x)[Len(s) + 1] = x
<1> DEFINE S == ToSet(s) \cup {x}
<1>1. s \in Seq(ToSet(s))
  BY DEF IsList
<1>2. s \in Seq(S) /\ x \in S
  <2> HIDE DEF ToSet
  <2> QED
    BY <1>1
<1> HIDE DEF S
<1>3. Append(s, x) \in Seq(S)
  BY <1>2
<1>4. IsList(Append(s, x))
  BY <1>3, ListIsSeq
<1>5. Len(s) \in Nat /\ DOMAIN s = 1..Len(s)
  BY <1>2
<1>6. /\ DOMAIN Append(s, x) = 1..(Len(s) + 1)
      /\ \A i \in DOMAIN s : Append(s, x)[i] = s[i]
      /\ Append(s, x)[Len(s) + 1] = x
  BY <1>2, <1>5
<1> QED
  BY <1>4, <1>5, <1>6

\* InMemoryGraphStore.upsert_node
LEMMA NodeStep ==
  ASSUME NEW m, IsMemory(m), NEW id, NEW kind, NEW props, NEW q, q = mem_upsert_node(m, id, kind, props)
  PROVE  /\ IsMemory(q)
         /\ q.nodes = Merge(m.nodes, Entry(id, [kind |-> kind, props |-> props]))
         /\ q.edges = m.edges /\ q.concepts = m.concepts /\ q.alias = m.alias
<1>1. PICK nodes : nodes = Merge(m.nodes, Entry(id, [kind |-> kind, props |-> props]))
  OBVIOUS
<1>2. IsMap(nodes)
  BY <1>1, MergeProperties
<1>3. q = [m EXCEPT !.nodes = nodes]
  BY <1>1 DEF mem_upsert_node, Put
<1>4. q = [nodes |-> nodes, edges |-> m.edges, concepts |-> m.concepts, alias |-> m.alias]
  BY <1>3 DEF IsMemory
<1>5. q.nodes = nodes /\ q.edges = m.edges /\ q.concepts = m.concepts /\ q.alias = m.alias
  BY <1>4
<1> QED
  BY <1>1, <1>2, <1>4, <1>5 DEF IsMemory

\* InMemoryGraphStore.upsert_concept: the record and the index of aliases.
LEMMA RecordStep ==
  ASSUME NEW m, IsMemory(m), NEW c, NEW q, q = mem_record(m, c)
  PROVE  /\ IsMemory(q)
         /\ q.nodes = m.nodes /\ q.edges = m.edges
         /\ q.concepts = Merge(m.concepts, Entry(c.concept, c))
         /\ q.alias = Indexed(m.alias, c)
<1>1. PICK concepts : concepts = Merge(m.concepts, Entry(c.concept, c))
  OBVIOUS
<1>2. PICK alias : alias = Indexed(m.alias, c)
  OBVIOUS
<1>3. IsMap(concepts) /\ IsMap(alias)
  <2>1. IsMap(concepts)
    BY <1>1, MergeProperties
  <2>2. IsMap(alias)
    BY <1>2 DEF Indexed, IsMap
  <2> QED
    BY <2>1, <2>2
<1>4. q = [m EXCEPT !.concepts = concepts, !.alias = alias]
  BY <1>1, <1>2 DEF mem_record, Put
<1>5. q = [nodes |-> m.nodes, edges |-> m.edges, concepts |-> concepts, alias |-> alias]
  BY <1>4 DEF IsMemory
<1>6. q.nodes = m.nodes /\ q.edges = m.edges /\ q.concepts = concepts /\ q.alias = alias
  BY <1>5
<1> QED
  BY <1>1, <1>2, <1>3, <1>5, <1>6 DEF IsMemory

\* InMemoryGraphStore.upsert_edge: an edge of the list is updated where it is, another one
\* is appended.
EdgesUpdated(old, new, e, props) ==
  /\ DOMAIN old \subseteq DOMAIN new
  /\ \A i \in DOMAIN old :
        /\ new[i].edge = old[i].edge
        /\ old[i].edge = e => new[i].props = Merge(old[i].props, props)
        /\ old[i].edge # e => new[i] = old[i]
  /\ \A i \in DOMAIN new \ DOMAIN old :
        new[i].edge = e /\ new[i].props = props /\ \A j \in DOMAIN old : old[j].edge # e
  /\ \E i \in DOMAIN new : new[i].edge = e
  /\ (\E j \in DOMAIN old : old[j].edge = e) => DOMAIN new = DOMAIN old

LEMMA EdgeStep ==
  ASSUME NEW m, IsMemory(m), NEW e, NEW props, IsMap(props), NEW q, q = mem_upsert_edge(m, e, props)
  PROVE  /\ IsMemory(q)
         /\ q.nodes = m.nodes /\ q.concepts = m.concepts /\ q.alias = m.alias
         /\ EdgesUpdated(m.edges, q.edges, e, props)
<1>1. PICK old : old = m.edges
  OBVIOUS
<1>2. IsList(old) /\ \A i \in DOMAIN old : IsEdgeEntry(old[i])
  BY <1>1 DEF IsMemory
<1>3. e \in MemEdges(m) <=> \E j \in DOMAIN old : old[j].edge = e
  BY <1>1 DEF MemEdges
<1>4. ASSUME NEW new, q = [m EXCEPT !.edges = new], IsList(new), \A i \in DOMAIN new : IsEdgeEntry(new[i])
      PROVE  /\ IsMemory(q) /\ q.edges = new
             /\ q.nodes = m.nodes /\ q.concepts = m.concepts /\ q.alias = m.alias
  <2>1. q = [nodes |-> m.nodes, edges |-> new, concepts |-> m.concepts, alias |-> m.alias]
    BY <1>4 DEF IsMemory
  <2>2. q.edges = new /\ q.nodes = m.nodes /\ q.concepts = m.concepts /\ q.alias = m.alias
    BY <2>1
  <2> QED
    BY <1>4, <2>1, <2>2 DEF IsMemory
<1>5. CASE e \in MemEdges(m)
  <2> DEFINE new == [i \in DOMAIN old |->
                       IF old[i].edge = e THEN [old[i] EXCEPT !.props = Merge(@, props)] ELSE old[i]]
  <2>1. q = [m EXCEPT !.edges = new]
    BY <1>1, <1>5 DEF mem_upsert_edge, IsMemory
  <2>2. ASSUME NEW i \in DOMAIN old
        PROVE  /\ IsEdgeEntry(new[i]) /\ new[i].edge = old[i].edge
               /\ old[i].edge = e => new[i].props = Merge(old[i].props, props)
               /\ old[i].edge # e => new[i] = old[i]
    <3>1. CASE old[i].edge = e
      <4>1. PICK x : x = old[i]
        OBVIOUS
      <4>2. PICK d : d = Merge(x.props, props)
        OBVIOUS
      <4>3. x = [edge |-> x.edge, props |-> x.props]
        BY <1>2, <4>1 DEF IsEdgeEntry
      <4>4. new[i] = [x EXCEPT !.props = d]
        BY <3>1, <4>1, <4>2
      <4>5. new[i] = [edge |-> x.edge, props |-> d]
        BY <4>3, <4>4
      <4>6. IsMap(d)
        BY <4>2, MergeProperties
      <4> HIDE DEF new
      <4>7. new[i].edge = x.edge /\ new[i].props = d
        BY <4>5
      <4> QED
        BY <3>1, <4>1, <4>2, <4>5, <4>6, <4>7 DEF IsEdgeEntry
    <3>2. CASE old[i].edge # e
      BY <1>2, <3>2
    <3> QED
      BY <3>1, <3>2
  <2>3. DOMAIN new = DOMAIN old
    OBVIOUS
  <2>4. IsList(new)
    <3>1. Len(old) \in Nat /\ DOMAIN old = 1..Len(old)
      BY <1>2, ListAppend
    <3> DEFINE S == {new[i] : i \in DOMAIN old}
    <3>2. new = [i \in 1..Len(old) |-> new[i]] /\ \A i \in 1..Len(old) : new[i] \in S
      BY <3>1
    <3> HIDE DEF new, S
    <3>3. new \in Seq(S)
      BY <3>1, <3>2
    <3> QED
      BY <3>3, ListIsSeq
  <2> HIDE DEF new
  <2>5. EdgesUpdated(old, new, e, props)
    BY <1>3, <1>5, <2>2, <2>3 DEF EdgesUpdated
  <2>6. /\ IsMemory(q) /\ q.edges = new
        /\ q.nodes = m.nodes /\ q.concepts = m.concepts /\ q.alias = m.alias
    BY <1>4, <2>1, <2>2, <2>3, <2>4
  <2> QED
    BY <1>1, <2>5, <2>6
<1>6. CASE e \notin MemEdges(m)
  <2>1. PICK x : x = [edge |-> e, props |-> props]
    OBVIOUS
  <2>2. x.edge = e /\ x.props = props /\ IsEdgeEntry(x)
    BY <2>1 DEF IsEdgeEntry
  <2>3. PICK new : new = Append(old, x)
    OBVIOUS
  <2>4. q = [m EXCEPT !.edges = new]
    BY <1>1, <1>6, <2>1, <2>3 DEF mem_upsert_edge
  <2>5. /\ IsList(new) /\ Len(old) \in Nat /\ DOMAIN old = 1..Len(old)
        /\ DOMAIN new = 1..(Len(old) + 1)
        /\ \A i \in DOMAIN old : new[i] = old[i]
        /\ new[Len(old) + 1] = x
    BY <1>2, <2>3, ListAppend
  <2>6. DOMAIN old \subseteq DOMAIN new /\ DOMAIN new \ DOMAIN old = {Len(old) + 1}
        /\ \A i \in DOMAIN new : i \in DOMAIN old \/ i = Len(old) + 1
    BY <2>5
  <2>7. \A i \in DOMAIN new : IsEdgeEntry(new[i])
    BY <1>2, <2>2, <2>5, <2>6
  <2>8. EdgesUpdated(old, new, e, props)
    BY <1>3, <1>6, <2>2, <2>5, <2>6 DEF EdgesUpdated
  <2>9. /\ IsMemory(q) /\ q.edges = new
        /\ q.nodes = m.nodes /\ q.concepts = m.concepts /\ q.alias = m.alias
    BY <1>4, <2>4, <2>5, <2>7
  <2> QED
    BY <1>1, <2>8, <2>9
<1> QED
  BY <1>5, <1>6

-----------------------------------------------------------------------------
(* The two stores *)

\* What both stores have in common when no request is under way.
Agree(m, p) ==
  /\ DOMAIN m.nodes = DOMAIN p.rows
  /\ \A n \in DOMAIN m.nodes : m.nodes[n].kind = p.rows[n].kind
  /\ MemEdges(m) = DOMAIN p.edges
  /\ \A i \in DOMAIN m.edges : Absorbs(m.edges[i].props, p.edges[m.edges[i].edge])
  /\ m.concepts = p.concepts

\* A node in both stores.
LEMMA NodeAgrees ==
  ASSUME NEW m, IsMemory(m), NEW p, IsPostgres(p), Agree(m, p),
         NEW id, NEW kind, NEW mine, NEW theirs,
         NEW q, q = mem_upsert_node(m, id, kind, mine),
         NEW tx, tx = pg_upsert_node(id, kind, theirs)
  PROVE  IsMemory(q) /\ (Findable(m) => Findable(q)) /\ Agree(q, commit(p, tx))
<1> HIDE DEF Empty
<1>1. PICK a : a = [kind |-> kind, props |-> mine]
  OBVIOUS
<1>2. PICK b : b = [kind |-> kind, props |-> theirs]
  OBVIOUS
<1>3. a.kind = b.kind
  BY <1>1, <1>2
<1>4. /\ IsMemory(q) /\ q.nodes = Merge(m.nodes, Entry(id, a))
      /\ q.edges = m.edges /\ q.concepts = m.concepts /\ q.alias = m.alias
  BY <1>1, NodeStep
<1>5. PICK r : r = commit(p, tx)
  OBVIOUS
<1>6. tx.rows = Entry(id, b) /\ tx.edges = Empty /\ tx.concepts = Empty
  BY <1>2, NodeWrites
<1>7. r.rows = Merge(p.rows, Entry(id, b)) /\ r.edges = p.edges /\ r.concepts = p.concepts
  <2>1. Merge(p.edges, Empty) = p.edges /\ Merge(p.concepts, Empty) = p.concepts
    BY MergeEmpty DEF IsPostgres
  <2> QED
    BY <1>5, <1>6, <2>1, CommitFields
<1>8. /\ DOMAIN q.nodes = DOMAIN m.nodes \cup {id} /\ q.nodes[id] = a
      /\ \A n \in DOMAIN m.nodes \ {id} : q.nodes[n] = m.nodes[n]
  BY <1>4 DEF Merge, Entry
<1>9. /\ DOMAIN r.rows = DOMAIN p.rows \cup {id} /\ r.rows[id] = b
      /\ \A n \in DOMAIN p.rows \ {id} : r.rows[n] = p.rows[n]
  BY <1>7 DEF Merge, Entry
<1>10. DOMAIN q.nodes = DOMAIN r.rows
  BY <1>8, <1>9 DEF Agree
<1>11. ASSUME NEW n \in DOMAIN q.nodes PROVE q.nodes[n].kind = r.rows[n].kind
  <2>1. CASE n = id
    BY <1>3, <1>8, <1>9, <2>1
  <2>2. CASE n # id
    BY <1>8, <1>9, <2>2 DEF Agree
  <2> QED
    BY <2>1, <2>2
<1>12. MemEdges(q) = MemEdges(m)
  BY <1>4 DEF MemEdges
<1>13. Agree(q, r)
  BY <1>4, <1>7, <1>10, <1>11, <1>12 DEF Agree
<1>14. Findable(m) => Findable(q)
  BY <1>4 DEF Findable
<1> QED
  BY <1>4, <1>5, <1>13, <1>14

\* The record of a concept, and the terms it is found by.
LEMMA RecordAgrees ==
  ASSUME NEW m, IsMemory(m), NEW p, IsPostgres(p), Agree(m, p), NEW c,
         NEW q, q = mem_record(m, c), NEW tx, tx = pg_record(c)
  PROVE  IsMemory(q) /\ (Findable(m) => Findable(q)) /\ Agree(q, commit(p, tx))
<1> HIDE DEF Empty
<1>1. /\ IsMemory(q) /\ q.nodes = m.nodes /\ q.edges = m.edges
      /\ q.concepts = Merge(m.concepts, Entry(c.concept, c)) /\ q.alias = Indexed(m.alias, c)
  BY RecordStep
<1>2. PICK r : r = commit(p, tx)
  OBVIOUS
<1>3. tx.rows = Empty /\ tx.edges = Empty /\ tx.concepts = Entry(c.concept, c)
  BY RecordWrites
<1>4. r.rows = p.rows /\ r.edges = p.edges /\ r.concepts = Merge(p.concepts, Entry(c.concept, c))
  <2>1. Merge(p.edges, Empty) = p.edges /\ Merge(p.rows, Empty) = p.rows
    BY MergeEmpty DEF IsPostgres
  <2> QED
    BY <1>2, <1>3, <2>1, CommitFields
<1>5. MemEdges(q) = MemEdges(m)
  BY <1>1 DEF MemEdges
<1>6. Agree(q, r)
  BY <1>1, <1>4, <1>5 DEF Agree
<1>7. ASSUME Findable(m) PROVE Findable(q)
  <2> DEFINE keys == {normalize(t) : t \in ListedBy(c)}
  <2>1. /\ DOMAIN q.concepts = DOMAIN m.concepts \cup {c.concept} /\ q.concepts[c.concept] = c
        /\ \A k \in DOMAIN m.concepts \ {c.concept} : q.concepts[k] = m.concepts[k]
    BY <1>1 DEF Merge, Entry
  <2>2. /\ DOMAIN q.alias = DOMAIN m.alias \cup keys
        /\ \A k \in keys : q.alias[k] = c.concept
        /\ \A k \in DOMAIN m.alias \ keys : q.alias[k] = m.alias[k]
    BY <1>1 DEF Indexed
  <2>3. \A t \in ListedBy(c) : normalize(t) \in keys
    OBVIOUS
  <2> HIDE DEF keys
  <2>4. ASSUME NEW k \in DOMAIN q.concepts, NEW t \in ListedBy(q.concepts[k])
        PROVE  normalize(t) \in DOMAIN q.alias
    <3>1. CASE k = c.concept
      BY <2>1, <2>2, <2>3, <3>1
    <3>2. CASE k # c.concept
      BY <1>7, <2>1, <2>2, <3>2 DEF Findable
    <3> QED
      BY <3>1, <3>2
  <2>5. ASSUME NEW k \in DOMAIN q.alias PROVE q.alias[k] \in DOMAIN q.concepts
    BY <1>7, <2>1, <2>2 DEF Findable
  <2> QED
    BY <2>4, <2>5 DEF Findable
<1> QED
  BY <1>1, <1>2, <1>6, <1>7

\* An edge in both stores: merged here, replaced there.
LEMMA EdgeAgrees ==
  ASSUME NEW m, IsMemory(m), NEW p, IsPostgres(p), Agree(m, p),
         NEW e, NEW props, IsMap(props),
         NEW q, q = mem_upsert_edge(m, e, props), NEW tx, tx = pg_upsert_edge(e, props)
  PROVE  IsMemory(q) /\ (Findable(m) => Findable(q)) /\ Agree(q, commit(p, tx))
<1> HIDE DEF Empty
<1>1. /\ IsMemory(q) /\ q.nodes = m.nodes /\ q.concepts = m.concepts /\ q.alias = m.alias
      /\ EdgesUpdated(m.edges, q.edges, e, props)
  BY EdgeStep
<1>2. PICK r : r = commit(p, tx)
  OBVIOUS
<1>3. tx.rows = Empty /\ tx.edges = Entry(e, props) /\ tx.concepts = Empty
  BY EdgeWrites
<1>4. r.rows = p.rows /\ r.edges = Merge(p.edges, Entry(e, props)) /\ r.concepts = p.concepts
  <2>1. Merge(p.concepts, Empty) = p.concepts /\ Merge(p.rows, Empty) = p.rows
    BY MergeEmpty DEF IsPostgres
  <2> QED
    BY <1>2, <1>3, <2>1, CommitFields
<1>5. /\ DOMAIN r.edges = DOMAIN p.edges \cup {e} /\ r.edges[e] = props
      /\ \A f \in DOMAIN p.edges \ {e} : r.edges[f] = p.edges[f]
  BY <1>4 DEF Merge, Entry
<1>6. PICK old : old = m.edges
  OBVIOUS
<1>7. PICK new : new = q.edges
  OBVIOUS
<1>8. EdgesUpdated(old, new, e, props)
  BY <1>1, <1>6, <1>7
<1>9. DOMAIN r.edges = {new[i].edge : i \in DOMAIN new}
  <2>1. DOMAIN p.edges = {old[i].edge : i \in DOMAIN old}
    BY <1>6 DEF Agree, MemEdges
  <2>2. {new[i].edge : i \in DOMAIN new} = {old[i].edge : i \in DOMAIN old} \cup {e}
    BY <1>8 DEF EdgesUpdated
  <2> QED
    BY <1>5, <2>1, <2>2
<1>10. ASSUME NEW i \in DOMAIN new PROVE Absorbs(new[i].props, r.edges[new[i].edge])
  <2>1. CASE i \in DOMAIN old /\ old[i].edge = e
    <3>1. new[i].edge = e /\ new[i].props = Merge(old[i].props, props)
      BY <1>8, <2>1 DEF EdgesUpdated
    <3> QED
      BY <1>5, <3>1, MergeAbsorbs
  <2>2. CASE i \in DOMAIN old /\ old[i].edge # e
    <3>1. new[i] = old[i]
      BY <1>8, <2>2 DEF EdgesUpdated
    <3>2. old[i].edge \in DOMAIN p.edges /\ Absorbs(old[i].props, p.edges[old[i].edge])
      BY <1>6, <2>2 DEF Agree, MemEdges
    <3> QED
      BY <1>5, <2>2, <3>1, <3>2
  <2>3. CASE i \notin DOMAIN old
    <3>1. new[i].edge = e /\ new[i].props = props
      BY <1>8, <2>3 DEF EdgesUpdated
    <3> QED
      BY <1>5, <3>1 DEF Absorbs
  <2> QED
    BY <2>1, <2>2, <2>3
<1>11. Agree(q, r)
  <2>1. MemEdges(q) = DOMAIN r.edges
    BY <1>7, <1>9 DEF MemEdges
  <2> QED
    BY <1>1, <1>4, <1>7, <1>10, <2>1 DEF Agree
<1>12. Findable(m) => Findable(q)
  BY <1>1 DEF Findable
<1> QED
  BY <1>1, <1>2, <1>11, <1>12

\* An upsert keeps the stores in agreement.
LEMMA UpsertAgrees ==
  ASSUME NEW m, IsMemory(m), NEW p, IsPostgres(p), Agree(m, p), NEW u, IsUpsert(u)
  PROVE  /\ IsMemory(mem_upsert(m, u)) /\ (Findable(m) => Findable(mem_upsert(m, u)))
         /\ Agree(mem_upsert(m, u), commit(p, pg_upsert(u)))
<1>1. PICK q : q = mem_upsert(m, u)
  OBVIOUS
<1>2. PICK tx : tx = pg_upsert(u)
  OBVIOUS
<1>3. CASE \E c : u = [op |-> "record", concept |-> c]
  <2>1. PICK c : u = [op |-> "record", concept |-> c]
    BY <1>3
  <2>2. q = mem_record(m, c) /\ tx = pg_record(c)
    BY <1>1, <1>2, <2>1 DEF mem_upsert, pg_upsert
  <2> QED
    BY <1>1, <1>2, <2>2, RecordAgrees
<1>4. CASE \E c : u = [op |-> "mirror", concept |-> c]
  <2>1. PICK c : u = [op |-> "mirror", concept |-> c]
    BY <1>4
  <2>2. q = mem_mirror(m, c) /\ tx = pg_mirror(c)
    BY <1>1, <1>2, <2>1 DEF mem_upsert, pg_upsert
  <2> QED
    BY <1>1, <1>2, <2>2, NodeAgrees DEF mem_mirror, pg_mirror
<1>5. CASE \E e, props : u = [op |-> "edge", edge |-> e, props |-> props] /\ IsMap(props)
  <2>1. PICK e, props : u = [op |-> "edge", edge |-> e, props |-> props] /\ IsMap(props)
    BY <1>5
  <2>2. q = mem_upsert_edge(m, e, props) /\ tx = pg_upsert_edge(e, props)
    BY <1>1, <1>2, <2>1 DEF mem_upsert, pg_upsert
  <2> QED
    BY <1>1, <1>2, <2>1, <2>2, EdgeAgrees
<1>6. CASE \E id, kind, props : u = [op |-> "node", id |-> id, kind |-> kind, props |-> props]
  <2>1. PICK id, kind, props : u = [op |-> "node", id |-> id, kind |-> kind, props |-> props]
    BY <1>6
  <2>2. q = mem_upsert_node(m, id, kind, props) /\ tx = pg_upsert_node(id, kind, props)
    BY <1>1, <1>2, <2>1 DEF mem_upsert, pg_upsert
  <2> QED
    BY <1>1, <1>2, <2>2, NodeAgrees
<1> QED
  BY <1>3, <1>4, <1>5, <1>6 DEF IsUpsert

\* And so does a sequence of them.
LEMMA AfterAgrees ==
  ASSUME NEW m, IsMemory(m), Findable(m), NEW p, IsPostgres(p), Agree(m, p), NEW us, IsUpserts(us)
  PROVE  /\ IsMemory(mem_after(m, us, Len(us))) /\ Findable(mem_after(m, us, Len(us)))
         /\ Agree(mem_after(m, us, Len(us)), pg_after(p, us, Len(us)))
<1> DEFINE Good(k) == /\ IsMemory(mem_after(m, us, k)) /\ Findable(mem_after(m, us, k))
                      /\ Agree(mem_after(m, us, k), pg_after(p, us, k))
           T == {k \in Nat : k <= Len(us) => Good(k)}
<1>1. Len(us) \in Nat /\ DOMAIN us = 1..Len(us)
  BY DEF IsUpserts, IsList
<1>2. 0 \in T
  BY MemAfterNone, PgAfterNone
<1>3. ASSUME NEW k \in T PROVE k + 1 \in T
  <2> SUFFICES ASSUME k + 1 <= Len(us) PROVE Good(k + 1)
    OBVIOUS
  <2>1. k \in Nat /\ k <= Len(us) /\ k + 1 \in DOMAIN us
    BY <1>1
  <2>2. PICK a : a = mem_after(m, us, k)
    OBVIOUS
  <2>3. PICK b : b = pg_after(p, us, k)
    OBVIOUS
  <2>4. IsMemory(a) /\ Findable(a) /\ Agree(a, b)
    BY <2>1, <2>2, <2>3
  <2>5. IsPostgres(b)
    BY <2>1, <2>3, PgAfterIsPostgres
  <2>6. PICK u : u = us[k + 1]
    OBVIOUS
  <2>7. IsUpsert(u)
    BY <2>1, <2>6 DEF IsUpserts
  <2>8. mem_after(m, us, k + 1) = mem_upsert(a, u)
    BY <2>1, <2>2, <2>6, MemAfterNext
  <2>9. pg_after(p, us, k + 1) = commit(b, pg_upsert(u))
    BY <2>1, <2>3, <2>6, PgAfterNext
  <2>10. /\ IsMemory(mem_upsert(a, u)) /\ Findable(mem_upsert(a, u))
         /\ Agree(mem_upsert(a, u), commit(b, pg_upsert(u)))
    BY <2>4, <2>5, <2>7, UpsertAgrees
  <2> QED
    BY <2>8, <2>9, <2>10
<1>4. T = Nat
  <2>1. T \in SUBSET Nat
    OBVIOUS
  <2> HIDE DEF T
  <2> QED
    BY <1>2, <1>3, <2>1, Induction
<1>5. Len(us) \in T
  <2> HIDE DEF T
  <2> QED
    BY <1>1, <1>4
<1> QED
  BY <1>1, <1>5

-----------------------------------------------------------------------------
(* The inductive invariant *)

\* A call under way has done some of its upserts, of a database from which all of
\* them would lead to agreement.  base is that database: the one the request, or the
\* retry, has found.
CallFrom(base) ==
  /\ IsPostgres(base)
  /\ postgres = pg_after(base, call.upserts, call.done)
  /\ Agree(memory, pg_after(base, call.upserts, Len(call.upserts)))

CallInv ==
  /\ call = [upserts |-> call.upserts, done |-> call.done, failed |-> call.failed]
  /\ call.failed \in BOOLEAN
  /\ IsUpserts(call.upserts)
  /\ Len(call.upserts) \in Nat \ {0}
  /\ call.done \in 0..(Len(call.upserts) - 1)
  /\ call.failed => call.done = 0
  /\ \E base : CallFrom(base)

StoresInv ==
  /\ IsMemory(memory) /\ Findable(memory)
  /\ IsPostgres(postgres) /\ Follows(postgres)
  /\ call = NoCall => Agree(memory, postgres)
  /\ call # NoCall => CallInv

LEMMA StoresInit == Init => StoresInv
<1> HIDE DEF Empty
<1> SUFFICES ASSUME Init PROVE StoresInv
  OBVIOUS
<1>1. memory = EmptyMemory /\ postgres = EmptyPostgres /\ call = NoCall
  BY DEF Init
<1>2. MemEdges(EmptyMemory) = {}
  BY EmptyMemoryFits, EmptyIsMap DEF MemEdges
<1>3. Agree(EmptyMemory, EmptyPostgres)
  BY <1>2, EmptyMemoryFits, EmptyFields, EmptyIsMap DEF Agree
<1> QED
  BY <1>1, <1>3, EmptyMemoryFits, EmptyFields, EmptyFollows DEF StoresInv

\* NoCall has no upserts.
LEMMA NoCallFields == NoCall.upserts = <<>> /\ NoCall.done = 0 /\ NoCall.failed = FALSE
BY DEF NoCall

\* A request comes.
LEMMA SendStep ==
  ASSUME StoresInv, NEW us, IsUpserts(us), Send(us)
  PROVE  StoresInv'
<1>1. /\ call = NoCall /\ memory' = mem_after(memory, us, Len(us)) /\ postgres' = postgres
      /\ call' = [NoCall EXCEPT !.upserts = us]
  BY DEF Send
<1>2. PICK m : m = mem_after(memory, us, Len(us))
  OBVIOUS
<1>3. /\ IsMemory(memory) /\ Findable(memory) /\ IsPostgres(postgres) /\ Follows(postgres)
      /\ Agree(memory, postgres)
  BY <1>1 DEF StoresInv
<1>4. IsMemory(m) /\ Findable(m) /\ Agree(m, pg_after(postgres, us, Len(us)))
  BY <1>2, <1>3, AfterAgrees
<1>5. Len(us) \in Nat /\ us \in Seq(ToSet(us))
  BY DEF IsUpserts, IsList
<1>6. call' = [upserts |-> us, done |-> 0, failed |-> FALSE]
  BY <1>1 DEF NoCall
<1>7. CASE us = <<>>
  <2>1. call' = NoCall
    BY <1>6, <1>7 DEF NoCall
  <2>2. Len(us) = 0
    BY <1>7
  <2>3. Agree(m, postgres)
    BY <1>4, <2>2, PgAfterNone
  <2> QED
    BY <1>1, <1>2, <1>3, <1>4, <2>1, <2>3 DEF StoresInv
<1>8. CASE us # <<>>
  <2>1. Len(us) \in Nat \ {0} /\ 0 \in 0..(Len(us) - 1)
    BY <1>5, <1>8, EmptySeq
  <2>2. PICK c : c = call'
    OBVIOUS
  <2>3. c = [upserts |-> us, done |-> 0, failed |-> FALSE]
    BY <1>6, <2>2
  <2>4. c.upserts = us /\ c.done = 0 /\ c.failed = FALSE
    BY <2>3
  <2>5. PICK p : p = postgres
    OBVIOUS
  <2>6. CallFrom(p)'
    <3>1. p = pg_after(p, us, 0)
      BY PgAfterNone
    <3> QED
      BY <1>1, <1>2, <1>3, <1>4, <2>2, <2>4, <2>5, <3>1 DEF CallFrom
  <2>7. CallInv'
    <3>1. /\ c = [upserts |-> c.upserts, done |-> c.done, failed |-> c.failed]
          /\ c.failed \in BOOLEAN /\ IsUpserts(c.upserts) /\ Len(c.upserts) \in Nat \ {0}
          /\ c.done \in 0..(Len(c.upserts) - 1) /\ c.done = 0
      BY <2>1, <2>3, <2>4
    <3>2. (\E base : CallFrom(base))'
      BY <2>6
    <3> QED
      BY <2>2, <3>1, <3>2 DEF CallInv
  <2>8. call' # NoCall
    BY <1>8, <2>2, <2>4, NoCallFields
  <2> QED
    BY <1>1, <1>2, <1>3, <1>4, <2>7, <2>8 DEF StoresInv
<1> QED
  BY <1>7, <1>8

\* A transaction commits.
LEMMA TransactStep ==
  ASSUME StoresInv, Transact
  PROVE  StoresInv'
<1>1. PICK us : us = call.upserts
  OBVIOUS
<1>2. PICK k : k = call.done
  OBVIOUS
<1>3. /\ call # NoCall /\ postgres' = commit(postgres, pg_upsert(us[k + 1])) /\ memory' = memory
      /\ call' = IF k + 1 = Len(us) THEN NoCall ELSE [call EXCEPT !.done = k + 1]
  BY <1>1, <1>2 DEF Transact, Serving
<1>4. /\ IsMemory(memory) /\ Findable(memory) /\ IsPostgres(postgres) /\ Follows(postgres) /\ CallInv
      /\ ~ call.failed
  BY <1>3 DEF StoresInv, Transact, Serving
<1>5. /\ IsUpserts(us) /\ Len(us) \in Nat \ {0} /\ k \in 0..(Len(us) - 1)
      /\ call = [upserts |-> us, done |-> k, failed |-> FALSE]
  BY <1>1, <1>2, <1>4 DEF CallInv
<1>6. PICK base : CallFrom(base)
  BY <1>4 DEF CallInv
<1>7. /\ IsPostgres(base) /\ postgres = pg_after(base, us, k)
      /\ Agree(memory, pg_after(base, us, Len(us)))
  BY <1>1, <1>2, <1>6 DEF CallFrom
<1>8. k \in Nat /\ k + 1 \in 1..Len(us)
  BY <1>5
<1>9. postgres' = pg_after(base, us, k + 1)
  BY <1>3, <1>7, <1>8, PgAfterNext
<1>10. IsPostgres(postgres)' /\ Follows(postgres)'
  <2>1. PICK tx : tx = pg_upsert(us[k + 1])
    OBVIOUS
  <2>2. IsUpsert(us[k + 1])
    <3>1. k + 1 \in DOMAIN us
      BY <1>5, <1>8 DEF IsUpserts, IsList
    <3> QED
      BY <1>5, <3>1 DEF IsUpserts
  <2>3. Follows(tx)
    BY <2>1, <2>2, UpsertFollows
  <2>4. PICK p : p = commit(postgres, tx)
    OBVIOUS
  <2>5. IsPostgres(p) /\ Follows(p)
    BY <1>4, <2>3, <2>4, CommitFields, CommitFollows
  <2>6. postgres' = p
    BY <1>3, <2>1, <2>4
  <2> QED
    BY <2>5, <2>6
<1>11. CASE k + 1 = Len(us)
  <2>1. call' = NoCall
    BY <1>3, <1>11
  <2>2. Agree(memory, postgres)'
    <3>1. PICK p : p = pg_after(base, us, k + 1)
      OBVIOUS
    <3>2. Agree(memory, p)
      BY <1>7, <1>11, <3>1
    <3>3. postgres' = p
      BY <1>9, <3>1
    <3> QED
      BY <1>3, <3>2, <3>3
  <2> QED
    BY <1>3, <1>4, <1>10, <2>1, <2>2 DEF StoresInv
<1>12. CASE k + 1 # Len(us)
  <2>1. PICK c : c = call'
    OBVIOUS
  <2>2. c = [upserts |-> us, done |-> k + 1, failed |-> FALSE]
    BY <1>3, <1>5, <1>12, <2>1
  <2>3. c.upserts = us /\ c.done = k + 1 /\ c.failed = FALSE
    BY <2>2
  <2>4. k + 1 \in 0..(Len(us) - 1)
    BY <1>5, <1>12
  <2>5. CallFrom(base)'
    BY <1>3, <1>7, <1>9, <2>1, <2>3 DEF CallFrom
  <2>6. CallInv'
    <3>1. /\ c = [upserts |-> c.upserts, done |-> c.done, failed |-> c.failed]
          /\ c.failed \in BOOLEAN /\ IsUpserts(c.upserts) /\ Len(c.upserts) \in Nat \ {0}
          /\ c.done \in 0..(Len(c.upserts) - 1) /\ ~ c.failed
      BY <1>5, <2>2, <2>3, <2>4
    <3>2. (\E b : CallFrom(b))'
      BY <2>5
    <3> QED
      BY <2>1, <3>1, <3>2 DEF CallInv
  <2>7. call' # NoCall
    BY <1>8, <2>1, <2>3, NoCallFields
  <2> QED
    BY <1>3, <1>4, <1>10, <2>6, <2>7 DEF StoresInv
<1> QED
  BY <1>11, <1>12

\* A transaction fails: what was done before is what a retry finds.
LEMMA FailStep ==
  ASSUME StoresInv, TransactionFails
  PROVE  StoresInv'
<1>1. PICK us : us = call.upserts
  OBVIOUS
<1>2. PICK k : k = call.done
  OBVIOUS
<1>3. /\ call # NoCall /\ postgres' = postgres /\ memory' = memory
      /\ call' = [call EXCEPT !.done = 0, !.failed = TRUE]
  BY DEF TransactionFails, Serving
<1>4. IsMemory(memory) /\ Findable(memory) /\ IsPostgres(postgres) /\ Follows(postgres) /\ CallInv
  BY <1>3 DEF StoresInv
<1>5. /\ IsUpserts(us) /\ Len(us) \in Nat \ {0} /\ k \in 0..(Len(us) - 1)
      /\ call = [upserts |-> us, done |-> k, failed |-> FALSE]
  BY <1>1, <1>2, <1>4 DEF CallInv, TransactionFails, Serving
<1>6. PICK base : CallFrom(base)
  BY <1>4 DEF CallInv
<1>7. /\ IsPostgres(base) /\ postgres = pg_after(base, us, k)
      /\ Agree(memory, pg_after(base, us, Len(us)))
  BY <1>1, <1>2, <1>6 DEF CallFrom
<1>8. PICK p : p = postgres
  OBVIOUS
<1>9. pg_after(p, us, Len(us)) = pg_after(base, us, Len(us))
  <2>1. k \in Nat /\ Len(us) \in Nat /\ k <= Len(us)
    BY <1>5
  <2> QED
    BY <1>7, <1>8, <2>1, PgResent
<1>10. PICK c : c = call'
  OBVIOUS
<1>11. c = [upserts |-> us, done |-> 0, failed |-> TRUE]
  BY <1>3, <1>5, <1>10
<1>12. c.upserts = us /\ c.done = 0 /\ c.failed = TRUE
  BY <1>11
<1>13. CallFrom(p)'
  <2>1. p = pg_after(p, us, 0)
    BY PgAfterNone
  <2> QED
    BY <1>3, <1>4, <1>7, <1>8, <1>9, <1>10, <1>12, <2>1 DEF CallFrom
<1>14. CallInv'
  <2>1. /\ c = [upserts |-> c.upserts, done |-> c.done, failed |-> c.failed]
        /\ c.failed \in BOOLEAN /\ IsUpserts(c.upserts) /\ Len(c.upserts) \in Nat \ {0}
        /\ c.done \in 0..(Len(c.upserts) - 1) /\ c.done = 0
    BY <1>5, <1>11, <1>12
  <2>2. (\E b : CallFrom(b))'
    BY <1>13
  <2> QED
    BY <1>10, <2>1, <2>2 DEF CallInv
<1>15. call' # NoCall
  BY <1>10, <1>12, NoCallFields
<1> QED
  BY <1>3, <1>4, <1>14, <1>15 DEF StoresInv

\* The request is sent again.
LEMMA RetryStep ==
  ASSUME StoresInv, Retry
  PROVE  StoresInv'
<1>1. PICK us : us = call.upserts
  OBVIOUS
<1>2. /\ call # NoCall /\ call.failed /\ postgres' = postgres /\ memory' = memory
      /\ call' = [call EXCEPT !.failed = FALSE]
  <2>1. NoCall.failed = FALSE
    BY NoCallFields
  <2> QED
    BY <2>1 DEF Retry
<1>3. IsMemory(memory) /\ Findable(memory) /\ IsPostgres(postgres) /\ Follows(postgres) /\ CallInv
  BY <1>2 DEF StoresInv
<1>4. /\ IsUpserts(us) /\ Len(us) \in Nat \ {0} /\ call.done = 0
      /\ call = [upserts |-> us, done |-> 0, failed |-> TRUE]
  BY <1>1, <1>2, <1>3 DEF CallInv
<1>5. PICK base : CallFrom(base)
  BY <1>3 DEF CallInv
<1>6. /\ IsPostgres(base) /\ postgres = pg_after(base, us, 0)
      /\ Agree(memory, pg_after(base, us, Len(us)))
  BY <1>1, <1>4, <1>5 DEF CallFrom
<1>7. PICK c : c = call'
  OBVIOUS
<1>8. c = [upserts |-> us, done |-> 0, failed |-> FALSE]
  <2>1. PICK d : d = call
    OBVIOUS
  <2>2. d = [upserts |-> us, done |-> 0, failed |-> TRUE]
    BY <1>4, <2>1
  <2>3. c = [d EXCEPT !.failed = FALSE]
    BY <1>2, <1>7, <2>1
  <2> QED
    BY <2>2, <2>3
<1>9. c.upserts = us /\ c.done = 0 /\ c.failed = FALSE
  BY <1>8
<1>10. CallFrom(base)'
  BY <1>2, <1>6, <1>7, <1>9 DEF CallFrom
<1>11. CallInv'
  <2>1. /\ c = [upserts |-> c.upserts, done |-> c.done, failed |-> c.failed]
        /\ c.failed \in BOOLEAN /\ IsUpserts(c.upserts) /\ Len(c.upserts) \in Nat \ {0}
        /\ c.done \in 0..(Len(c.upserts) - 1) /\ c.done = 0
    BY <1>4, <1>8, <1>9
  <2>2. (\E b : CallFrom(b))'
    BY <1>10
  <2> QED
    BY <1>7, <2>1, <2>2 DEF CallInv
<1>12. call' # NoCall
  <2>1. us # <<>>
    BY <1>4
  <2> QED
    BY <1>7, <1>9, <2>1, NoCallFields
<1> QED
  BY <1>2, <1>3, <1>11, <1>12 DEF StoresInv

LEMMA StoresNext == StoresInv /\ [Next]_vars => StoresInv'
<1> SUFFICES ASSUME StoresInv, [Next]_vars PROVE StoresInv'
  OBVIOUS
<1>1. CASE UNCHANGED vars
  BY <1>1 DEF vars, StoresInv, CallInv, CallFrom
<1>2. ASSUME NEW r \in Requests, Send(Upserts(r)) PROVE StoresInv'
  BY <1>2, RequestUpserts, SendStep
<1>3. CASE IngestNode \/ IngestEdge \/ IngestConcept
  BY <1>2, <1>3 DEF IngestNode, IngestEdge, IngestConcept, Requests
<1>4. CASE SeedStore
  BY <1>4, SeedUpsertsList, SendStep DEF SeedStore
<1> QED
  BY <1>1, <1>3, <1>4, TransactStep, FailStep, RetryStep DEF Next

-----------------------------------------------------------------------------
(* What follows *)

\* At every moment the stores of sdp/graph_store.py agree, or a request is under way in
\* PostgresGraphStore whose upserts, done in full, bring them to agreement.
THEOREM StoresAreInOrder == Spec => []StoresInv
<1> QED
  BY StoresInit, StoresNext, PTL DEF Spec

\* Rows, vectors and edges of PostgresGraphStore are in step with its AGE graph at every moment,
\* also between the transactions of a request and after one that failed, for any requests.
THEOREM TablesAreInStep == Spec => []TablesFollowGraph
<1>1. StoresInv => TablesFollowGraph
  BY DEF StoresInv, Follows, TablesFollowGraph
<1> QED
  BY <1>1, StoresAreInOrder, PTL

\* Whenever no request is under way, both implementations of GraphStore have the same nodes and
\* edges, whatever was ingested, wherever transactions failed and requests were sent again.
THEOREM NodesAndEdgesDoAgree == Spec => []NodesAndEdgesAgree
<1>1. StoresInv => NodesAndEdgesAgree
  BY DEF StoresInv, Agree, Absorbs, NodesAndEdgesAgree
<1> QED
  BY <1>1, StoresAreInOrder, PTL

\* concept_graph of both implementations: a term Postgres knows is known to memory, a concept that
\* lists the term is an answer of both, and a concept has the same record and datasets.
THEOREM LookupsAgree == Spec => []LookupAgrees
<1>1. StoresInv => LookupAgrees
  <2> SUFFICES ASSUME StoresInv, call = NoCall, NEW term \in Terms
               PROVE  /\ pg_canonical(postgres, term) # {} => mem_canonical(memory, term) # {}
                      /\ \A c \in mem_canonical(memory, term) :
                            term \in ListedBy(memory.concepts[c]) => c \in pg_canonical(postgres, term)
                      /\ \A c \in mem_canonical(memory, term) \cup pg_canonical(postgres, term) :
                            mem_concept_graph(memory, c) = pg_concept_graph(postgres, c)
    BY DEF LookupAgrees
  <2>1. Findable(memory) /\ Agree(memory, postgres)
    BY DEF StoresInv
  <2>2. memory.concepts = postgres.concepts /\ MemEdges(memory) = DOMAIN postgres.edges
    BY <2>1 DEF Agree
  <2>3. \A c \in mem_canonical(memory, term) : c \in DOMAIN memory.concepts
    BY <2>1 DEF mem_canonical, Findable
  <2>4. pg_canonical(postgres, term) # {} => mem_canonical(memory, term) # {}
    BY <2>1, <2>2 DEF Findable, pg_canonical, mem_canonical
  <2>5. \A c \in mem_canonical(memory, term) :
            term \in ListedBy(memory.concepts[c]) => c \in pg_canonical(postgres, term)
    BY <2>2, <2>3 DEF pg_canonical
  <2>6. \A c : mem_concept_graph(memory, c) = pg_concept_graph(postgres, c)
    BY <2>2 DEF mem_concept_graph, pg_concept_graph
  <2> QED
    BY <2>4, <2>5, <2>6
<1> QED
  BY <1>1, StoresAreInOrder, PTL

-----------------------------------------------------------------------------
(* Paths in the graph *)

\* f is the table of the paths of each length up to k that repeat no relationship.
IsTrailTable(f, rels, start, dir, k) ==
  f = [n \in 0..k |-> IF n = 0 THEN {[at |-> start, used |-> {}]} ELSE Longer(f[n - 1], rels, dir, n)]

\* What it says of each.
TrailRows(f, rels, start, dir, k) ==
  /\ f[0] = {[at |-> start, used |-> {}]}
  /\ \A n \in 0..k : n # 0 => f[n] = Longer(f[n - 1], rels, dir, n)

LEMMA TrailTableRows ==
  ASSUME NEW rels, NEW start, NEW dir, NEW k \in Nat, NEW f, IsTrailTable(f, rels, start, dir, k)
  PROVE  TrailRows(f, rels, start, dir, k)
<1>1. PICK s : s = {[at |-> start, used |-> {}]}
  OBVIOUS
<1>2. f = [n \in 0..k |-> IF n = 0 THEN s ELSE Longer(f[n - 1], rels, dir, n)]
  BY <1>1, Zenon DEF IsTrailTable
<1>3. f[0] = s /\ \A n \in 0..k : n # 0 => f[n] = Longer(f[n - 1], rels, dir, n)
  BY <1>2
<1> QED
  BY <1>1, <1>3, Zenon DEF TrailRows

\* There is a table for every length.
LEMMA TrailTableExists ==
  ASSUME NEW rels, NEW start, NEW dir
  PROVE  \A k \in Nat : \E f : IsTrailTable(f, rels, start, dir, k)
<1> DEFINE s == {[at |-> start, used |-> {}]}
           T == {k \in Nat : \E f : IsTrailTable(f, rels, start, dir, k)}
<1>1. 0 \in T
  <2> DEFINE g == [i \in 0..0 |-> s]
  <2>1. IsTrailTable(g, rels, start, dir, 0)
    BY DEF IsTrailTable
  <2> QED
    BY <2>1
<1>2. ASSUME NEW k \in T PROVE k + 1 \in T
  <2>1. k \in Nat /\ k + 1 \in Nat
    OBVIOUS
  <2>2. PICK f : IsTrailTable(f, rels, start, dir, k)
    OBVIOUS
  <2> DEFINE g == [i \in 0..(k + 1) |-> IF i = k + 1 THEN Longer(f[k], rels, dir, k + 1) ELSE f[i]]
  <2>3. TrailRows(f, rels, start, dir, k)
    BY <2>1, <2>2, TrailTableRows
  <2>4. ASSUME NEW i \in 0..(k + 1)
        PROVE  g[i] = IF i = 0 THEN s ELSE Longer(g[i - 1], rels, dir, i)
    <3>1. CASE i = 0
      BY <2>1, <2>3, <3>1 DEF TrailRows
    <3>2. CASE i # 0 /\ i # k + 1
      <4>1. i \in 0..k /\ i - 1 \in 0..k /\ i - 1 \in 0..(k + 1) /\ i - 1 # k + 1
        BY <2>1, <3>2
      <4>2. g[i] = f[i] /\ g[i - 1] = f[i - 1]
        BY <3>2, <4>1
      <4> QED
        BY <2>3, <3>2, <4>1, <4>2 DEF TrailRows
    <3>3. CASE i = k + 1
      <4>1. i - 1 = k /\ k \in 0..(k + 1) /\ k # k + 1 /\ i # 0
        BY <2>1, <3>3
      <4>2. g[i - 1] = f[k] /\ g[i] = Longer(f[k], rels, dir, k + 1)
        BY <3>3, <4>1
      <4> QED
        BY <3>3, <4>1, <4>2
    <3> QED
      BY <3>1, <3>2, <3>3
  <2>5. IsTrailTable(g, rels, start, dir, k + 1)
    <3>1. g = [i \in 0..(k + 1) |-> g[i]]
      OBVIOUS
    <3> HIDE DEF g
    <3>2. g = [i \in 0..(k + 1) |-> IF i = 0 THEN s ELSE Longer(g[i - 1], rels, dir, i)]
      BY <2>4, <3>1
    <3> QED
      BY <3>2 DEF IsTrailTable
  <2> QED
    BY <2>1, <2>5
<1>3. T = Nat
  <2> HIDE DEF T
  <2>1. T \in SUBSET Nat
    BY DEF T
  <2> QED
    BY <1>1, <1>2, <2>1, Induction
<1> QED
  BY <1>3

\* The relationships with one of the labels, all of them when there is none.
Labelled(p, labels) == {r \in p.rels : labels = {} \/ r[1] \in labels}

\* Where the paths of a table end.
Ends(f, k) == {path.at : path \in UNION {f[n] : n \in 1..k}}

\* Where the matched paths end, by a table of them.
LEMMA MatchedByTable ==
  ASSUME NEW p, NEW start, NEW labels, NEW dir, NEW k \in Nat,
         NEW rels, rels = Labelled(p, labels)
  PROVE  \E f : /\ TrailRows(f, rels, start, dir, k)
                /\ Matched(p, start, labels, dir, k) = Ends(f, k)
<1> DEFINE f == CHOOSE g : g = [n \in 0..k |-> IF n = 0 THEN {[at |-> start, used |-> {}]}
                                              ELSE Longer(g[n - 1], rels, dir, n)]
<1>1. Matched(p, start, labels, dir, k) = Ends(f, k)
  BY DEF Matched, Ends, Labelled
<1>2. \E g : g = [n \in 0..k |-> IF n = 0 THEN {[at |-> start, used |-> {}]}
                                 ELSE Longer(g[n - 1], rels, dir, n)]
  <2>1. PICK g : IsTrailTable(g, rels, start, dir, k)
    BY TrailTableExists
  <2>2. g = [n \in 0..k |-> IF n = 0 THEN {[at |-> start, used |-> {}]} ELSE Longer(g[n - 1], rels, dir, n)]
    BY <2>1, Zenon DEF IsTrailTable
  <2> QED
    BY <2>2, Zenon
<1>3. f = [n \in 0..k |-> IF n = 0 THEN {[at |-> start, used |-> {}]} ELSE Longer(f[n - 1], rels, dir, n)]
  BY <1>2
<1>4. IsTrailTable(f, rels, start, dir, k)
  BY <1>3 DEF IsTrailTable
<1> HIDE DEF f
<1>5. TrailRows(f, rels, start, dir, k)
  BY <1>4, TrailTableRows
<1> QED
  BY <1>1, <1>5

\* A longer path is a path and one more relationship.
LEMMA LongerMember ==
  ASSUME NEW paths, NEW rels, NEW dir, NEW n, NEW x
  PROVE  x \in Longer(paths, rels, dir, n) <=>
           /\ Cardinality(x.used) = n
           /\ \E path \in paths : \E rel \in rels : \E y \in Neighbor(EdgeOf(rel), path.at, dir) :
                x = [at |-> y, used |-> path.used \cup {rel}]
<1> DEFINE Steps(path, rel) ==
             {[at |-> y, used |-> path.used \cup {rel}] : y \in Neighbor(EdgeOf(rel), path.at, dir)}
           D == UNION {Steps(path, rel) : path \in paths, rel \in rels}
<1>1. x \in Longer(paths, rels, dir, n) <=> x \in D /\ Cardinality(x.used) = n
  BY DEF Longer
<1>2. \A path, rel : x \in Steps(path, rel) <=>
         \E y \in Neighbor(EdgeOf(rel), path.at, dir) : x = [at |-> y, used |-> path.used \cup {rel}]
  OBVIOUS
<1> HIDE DEF Steps
<1>3. x \in D <=> \E path \in paths : \E rel \in rels : x \in Steps(path, rel)
  <2>1. ASSUME NEW path \in paths, NEW rel \in rels, x \in Steps(path, rel) PROVE x \in D
    BY <2>1
  <2>2. ASSUME x \in D PROVE \E path \in paths : \E rel \in rels : x \in Steps(path, rel)
    BY <2>2
  <2> QED
    BY <2>1, <2>2
<1> HIDE DEF D
<1> QED
  BY <1>1, <1>2, <1>3

\* The relationships a traversal may follow are those of the edges it may follow.
Follow(rels, es, types) ==
  /\ \A r \in rels : \E e \in es : Allows(types, e) /\ r = Rel(e)
  /\ \A e \in es : Allows(types, e) => Rel(e) \in rels

LEMMA SameNeighbors ==
  ASSUME NEW e, NEW n, NEW dir
  PROVE  Neighbor(EdgeOf(Rel(e)), n, dir) = Neighbor(e, n, dir)
BY DEF Neighbor, EdgeOf, Rel

\* No path of n relationships leaves the ball of radius n.
LEMMA TrailsStay ==
  ASSUME NEW es, NEW types, NEW dir, NEW start, NEW rels, Follow(rels, es, types),
         NEW k \in Nat, NEW f, TrailRows(f, rels, start, dir, k)
  PROVE  \A n \in 0..k : \A path \in f[n] : path.at \in BallOf(es, types, dir, start, n)
<1> DEFINE T == {n \in Nat : n <= k => \A path \in f[n] : path.at \in BallOf(es, types, dir, start, n)}
<1>1. 0 \in T
  BY BallZero DEF TrailRows
<1>2. ASSUME NEW n \in T PROVE n + 1 \in T
  <2> SUFFICES ASSUME n + 1 <= k, NEW path \in f[n + 1]
               PROVE  path.at \in BallOf(es, types, dir, start, n + 1)
    OBVIOUS
  <2>1. n \in Nat /\ \A q \in f[n] : q.at \in BallOf(es, types, dir, start, n)
    OBVIOUS
  <2>2. n + 1 \in 0..k /\ n + 1 # 0 /\ (n + 1) - 1 = n
    BY <2>1
  <2>3. path \in Longer(f[n], rels, dir, n + 1)
    BY <2>2 DEF TrailRows
  <2>4. PICK q \in f[n] : \E rel \in rels : \E y \in Neighbor(EdgeOf(rel), q.at, dir) :
              path = [at |-> y, used |-> q.used \cup {rel}]
    BY <2>3, LongerMember
  <2>5. PICK rel \in rels : \E y \in Neighbor(EdgeOf(rel), q.at, dir) :
              path = [at |-> y, used |-> q.used \cup {rel}]
    BY <2>4
  <2>6. PICK y \in Neighbor(EdgeOf(rel), q.at, dir) : path = [at |-> y, used |-> q.used \cup {rel}]
    BY <2>5
  <2>7. PICK e \in es : Allows(types, e) /\ rel = Rel(e)
    BY DEF Follow
  <2>8. y \in Neighbor(e, q.at, dir) /\ path.at = y
    BY <2>6, <2>7, SameNeighbors
  <2>9. q.at \in BallOf(es, types, dir, start, n)
    BY <2>1
  <2>10. y \in BallOf(es, types, dir, start, n + 1)
    BY <2>1, <2>7, <2>8, <2>9, BallStep
  <2> QED
    BY <2>8, <2>10
<1>3. T = Nat
  <2>1. T \in SUBSET Nat
    OBVIOUS
  <2> HIDE DEF T
  <2> QED
    BY <1>1, <1>2, <2>1, Induction
<1>4. \A n \in 0..k : n \in T
  <2> HIDE DEF T
  <2> QED
    BY <1>3
<1> QED
  BY <1>4

\* A path of n relationships to x, all of them inside the ball of radius n.
Inside(path, b, n, x) ==
  /\ path.at = x
  /\ IsFiniteSet(path.used) /\ Cardinality(path.used) = n
  /\ \A r \in path.used : r[2] \in b /\ r[3] \in b

\* A step over an edge leads from one of its ends to the other.
LEMMA StepEnds ==
  ASSUME NEW e, NEW n, NEW dir, NEW x \in Neighbor(e, n, dir)
  PROVE  {e.source_id, e.target_id} = {n, x}
BY DEF Neighbor

\* A node that is first reached in n steps is the end of a path inside the ball: the step to it
\* is over a relationship that the path has not used, because no end of those is new.
LEMMA TrailsReach ==
  ASSUME NEW es, NEW types, NEW dir, NEW start, NEW rels, Follow(rels, es, types),
         NEW k \in Nat, NEW f, TrailRows(f, rels, start, dir, k)
  PROVE  \A n \in 0..k : \A x \in BallOf(es, types, dir, start, n) :
            (n # 0 => x \notin BallOf(es, types, dir, start, n - 1)) =>
              \E path \in f[n] : Inside(path, BallOf(es, types, dir, start, n), n, x)
<1> DEFINE b(n) == BallOf(es, types, dir, start, n)
           P(n) == \A x \in b(n) : (n # 0 => x \notin b(n - 1)) => \E path \in f[n] : Inside(path, b(n), n, x)
           T == {n \in Nat : n <= k => P(n)}
<1>1. 0 \in T
  <2>1. b(0) = {start} /\ f[0] = {[at |-> start, used |-> {}]}
    BY BallZero DEF TrailRows
  <2>2. Inside([at |-> start, used |-> {}], b(0), 0, start)
    BY FS_EmptySet DEF Inside
  <2> QED
    BY <2>1, <2>2
<1>2. ASSUME NEW n \in T PROVE n + 1 \in T
  <2> SUFFICES ASSUME n + 1 <= k, NEW x \in b(n + 1), x \notin b(n)
               PROVE  \E path \in f[n + 1] : Inside(path, b(n + 1), n + 1, x)
    <3>1. n \in Nat /\ (n + 1) - 1 = n /\ n + 1 # 0
      OBVIOUS
    <3> HIDE DEF b
    <3> QED
      BY <3>1
  <2>1. n \in Nat /\ P(n) /\ n + 1 \in 0..k /\ n + 1 # 0 /\ (n + 1) - 1 = n
    OBVIOUS
  <2>2. PICK m \in b(n) : \E e \in es : Allows(types, e) /\ x \in Neighbor(e, m, dir)
    BY <2>1, BallStepBack
  <2>3. PICK e \in es : Allows(types, e) /\ x \in Neighbor(e, m, dir)
    BY <2>2
  <2>4. n # 0 => m \notin b(n - 1)
    <3> SUFFICES ASSUME n # 0, m \in b(n - 1) PROVE FALSE
      OBVIOUS
    <3>1. n - 1 \in Nat /\ (n - 1) + 1 = n
      BY <2>1
    <3>2. x \in b((n - 1) + 1)
      BY <2>3, <3>1, BallStep
    <3> QED
      BY <3>1, <3>2
  <2>5. PICK path \in f[n] : Inside(path, b(n), n, m)
    BY <2>1, <2>4
  <2>6. PICK rel : rel = Rel(e)
    OBVIOUS
  <2>7. rel \in rels /\ {rel[2], rel[3]} = {m, x} /\ x \in Neighbor(EdgeOf(rel), m, dir)
    <3>1. rel \in rels
      BY <2>3, <2>6 DEF Follow
    <3>2. {rel[2], rel[3]} = {m, x}
      BY <2>3, <2>6, StepEnds DEF Rel
    <3>3. x \in Neighbor(EdgeOf(rel), m, dir)
      BY <2>3, <2>6, SameNeighbors
    <3> QED
      BY <3>1, <3>2, <3>3
  <2>8. rel \notin path.used
    BY <2>5, <2>7 DEF Inside
  <2> DEFINE used == path.used \cup {rel}
             longer == [at |-> x, used |-> used]
  <2>9. IsFiniteSet(used) /\ Cardinality(used) = n + 1
    BY <2>5, <2>8, FS_AddElement DEF Inside
  <2>10. b(n) \subseteq b(n + 1)
    BY <2>1, BallGrows
  <2>11. Inside(longer, b(n + 1), n + 1, x)
    <3>1. \A r \in used : r[2] \in b(n + 1) /\ r[3] \in b(n + 1)
      <4> SUFFICES ASSUME NEW r \in used PROVE r[2] \in b(n + 1) /\ r[3] \in b(n + 1)
        OBVIOUS
      <4> HIDE DEF b
      <4>1. CASE r \in path.used
        BY <2>5, <2>10, <4>1 DEF Inside
      <4>2. CASE r = rel
        BY <2>7, <2>10, <4>2
      <4> QED
        BY <4>1, <4>2
    <3>2. longer.at = x /\ longer.used = used
      OBVIOUS
    <3> HIDE DEF longer, used, b
    <3> QED
      BY <2>9, <3>1, <3>2 DEF Inside
  <2>12. longer \in f[n + 1]
    <3>1. path.at = m
      BY <2>5 DEF Inside
    <3>2. f[n + 1] = Longer(f[n], rels, dir, n + 1)
      BY <2>1 DEF TrailRows
    <3>3. Cardinality(longer.used) = n + 1
      BY <2>9
    <3>4. \E q \in f[n] : \E r \in rels : \E y \in Neighbor(EdgeOf(r), q.at, dir) :
             longer = [at |-> y, used |-> q.used \cup {r}]
      BY <2>7, <3>1
    <3>5. PICK l : l = longer
      OBVIOUS
    <3> HIDE DEF longer
    <3>6. l \in Longer(f[n], rels, dir, n + 1)
      BY <3>3, <3>4, <3>5, LongerMember
    <3> QED
      BY <3>2, <3>5, <3>6
  <2> QED
    BY <2>11, <2>12
<1>3. T = Nat
  <2>1. T \in SUBSET Nat
    OBVIOUS
  <2> HIDE DEF T
  <2> QED
    BY <1>1, <1>2, <2>1, Induction
<1>4. \A n \in 0..k : n \in T
  <2> HIDE DEF T
  <2> QED
    BY <1>3
<1> QED
  BY <1>4

\* Nodes within k steps are the start and the ends of the paths of up to k relationships.
LEMMA MatchedIsBall ==
  ASSUME NEW es, NEW types, NEW dir, NEW start, NEW rels, Follow(rels, es, types),
         NEW k \in Nat, NEW f, TrailRows(f, rels, start, dir, k)
  PROVE  BallOf(es, types, dir, start, k) = {start} \cup Ends(f, k)
<1> DEFINE b(n) == BallOf(es, types, dir, start, n)
           ends(j) == {path.at : path \in UNION {f[n] : n \in 1..j}}
           T == {n \in Nat : n <= k => b(n) \subseteq {start} \cup ends(n)}
<1>1. 0 \in T
  BY BallZero
<1>2. ASSUME NEW n \in T PROVE n + 1 \in T
  <2> SUFFICES ASSUME n + 1 <= k, NEW x \in b(n + 1) PROVE x \in {start} \cup ends(n + 1)
    OBVIOUS
  <2>1. n \in Nat /\ b(n) \subseteq {start} \cup ends(n) /\ n + 1 \in 0..k /\ n + 1 # 0 /\ (n + 1) - 1 = n
        /\ n + 1 \in 1..(n + 1) /\ 1..n \subseteq 1..(n + 1)
    OBVIOUS
  <2>2. CASE x \in b(n)
    <3>1. ends(n) \subseteq ends(n + 1)
      BY <2>1
    <3> HIDE DEF b, ends
    <3> QED
      BY <2>1, <2>2, <3>1
  <2>3. CASE x \notin b(n)
    <3>1. \E path \in f[n + 1] : Inside(path, b(n + 1), n + 1, x)
      BY <2>1, <2>3, TrailsReach
    <3>2. PICK path \in f[n + 1] : path.at = x
      BY <3>1 DEF Inside
    <3> HIDE DEF b
    <3> QED
      BY <2>1, <3>2
  <2> QED
    BY <2>2, <2>3
<1>3. T = Nat
  <2>1. T \in SUBSET Nat
    OBVIOUS
  <2> HIDE DEF T
  <2> QED
    BY <1>1, <1>2, <2>1, Induction
<1>4. b(k) \subseteq {start} \cup ends(k)
  <2>1. k \in T
    BY <1>3
  <2> HIDE DEF b, ends
  <2> QED
    BY <2>1
<1>5. start \in b(k)
  <2>1. b(0) \subseteq b(k)
    BY BallGrows
  <2> QED
    BY <2>1, BallZero
<1>6. ASSUME NEW n \in 1..k, NEW path \in f[n] PROVE path.at \in b(k)
  <2>1. n \in 0..k /\ n \in Nat /\ n <= k
    OBVIOUS
  <2>2. path.at \in b(n)
    BY <2>1, TrailsStay
  <2>3. b(n) \subseteq b(k)
    BY <2>1, BallGrows
  <2> HIDE DEF b
  <2> QED
    BY <2>2, <2>3
<1> HIDE DEF b
<1>7. ends(k) \subseteq b(k)
  BY <1>6
<1> HIDE DEF ends
<1>8. b(k) = {start} \cup ends(k)
  BY <1>4, <1>5, <1>7
<1> QED
  BY <1>8 DEF b, ends, Ends

\* A filter that names every type in the store whose label it names.
Whole(types, es) ==
  /\ types \subseteq {e.edge_type : e \in es}
  /\ \A t \in {e.edge_type : e \in es} :
        (\E u \in types : relationship_label(t) = relationship_label(u)) => t \in types

\* It lets the same pass as its labels.
LEMMA WholeFilterFollows ==
  ASSUME NEW es, NEW types, Whole(types, es),
         NEW labels, labels = {relationship_label(t) : t \in types},
         NEW p, p.rels = {Rel(e) : e \in es}, NEW rels, rels = Labelled(p, labels)
  PROVE  Follow(rels, es, types)
<1>1. labels = {} <=> types = {}
  OBVIOUS
<1>2. ASSUME NEW e \in es PROVE (labels = {} \/ Rel(e)[1] \in labels) <=> Allows(types, e)
  <2>1. Rel(e)[1] = relationship_label(e.edge_type)
    BY DEF Rel
  <2>2. e.edge_type \in types => relationship_label(e.edge_type) \in labels
    OBVIOUS
  <2>3. relationship_label(e.edge_type) \in labels => e.edge_type \in types
    BY DEF Whole
  <2> QED
    BY <1>1, <2>1, <2>2, <2>3 DEF Allows
<1> QED
  BY <1>2 DEF Follow, Labelled

\* Depths up to the configured one are asked for as they are.
LEMMA DepthIsKept ==
  ASSUME NEW k \in 1..ClampDepth
  PROVE  clamped(k) = k
<1>1. ClampDepth \in Nat /\ k \in Nat /\ 1 <= k /\ k <= ClampDepth
  BY BackendsAssumption
<1>2. Min({k, ClampDepth}) = k
  BY <1>1 DEF Min
<1>3. Max({1, k}) = k
  BY <1>1 DEF Max
<1> QED
  BY <1>2, <1>3 DEF clamped

\* Both traversals of stores that agree.
LEMMA TraversalsAgree ==
  ASSUME NEW m, NEW p, Agree(m, p), Follows(p), NEW es, es = MemEdges(m),
         NEW start, NEW dir, NEW k \in 1..ClampDepth, NEW types, Whole(types, es),
         NEW q, q = mem_traverse(m, start, types, dir, k), NEW r, r = pg_traverse(p, start, types, dir, k)
  PROVE  q.nodes = r.nodes /\ q.edges \subseteq r.edges
<1>1. DOMAIN m.nodes = DOMAIN p.rows /\ es = DOMAIN p.edges /\ p.rels = {Rel(e) : e \in es}
  BY DEF Agree, Follows
<1>2. k \in Nat /\ k - 1 \in Nat /\ (k - 1) + 1 = k /\ k - 1 <= k /\ clamped(k) = k
  BY BackendsAssumption, DepthIsKept
<1>3. CASE start \notin DOMAIN m.nodes
  <2>1. q = NotFound /\ r = NotFound
    BY <1>1, <1>3 DEF mem_traverse, pg_traverse
  <2> QED
    BY <2>1
<1>4. CASE start \in DOMAIN m.nodes
  <2>1. PICK ball : ball = BallOf(es, types, dir, start, k)
    OBVIOUS
  <2>2. PICK labels : labels = {relationship_label(t) : t \in types}
    OBVIOUS
  <2>3. PICK found : found = {start} \cup Matched(p, start, labels, dir, k)
    OBVIOUS
  <2>4. PICK rels : rels = Labelled(p, labels)
    OBVIOUS
  <2>5. Follow(rels, es, types)
    BY <1>1, <2>2, <2>4, WholeFilterFollows
  <2>6. PICK f : /\ TrailRows(f, rels, start, dir, k)
                 /\ Matched(p, start, labels, dir, k) = Ends(f, k)
    BY <1>2, <2>4, MatchedByTable
  <2>7. ball = found
    BY <1>2, <2>1, <2>3, <2>5, <2>6, MatchedIsBall
  <2>8. PICK within : within = BallOf(es, types, dir, start, k - 1)
    OBVIOUS
  <2>9. PICK walked : walked = {e \in es : Allows(types, e) /\ \E n \in within : Neighbor(e, n, dir) # {}}
    OBVIOUS
  <2>10. q = [nodes |-> ball, edges |-> walked]
    BY <1>4, <2>1, <2>8, <2>9 DEF mem_traverse
  <2>11. PICK between : between = {e \in es : {e.source_id, e.target_id} \subseteq found /\ Allows(types, e)}
    OBVIOUS
  <2>12. r = [nodes |-> found, edges |-> between]
    BY <1>1, <1>2, <1>4, <2>2, <2>3, <2>11 DEF pg_traverse
  <2>13. ASSUME NEW e \in es, Allows(types, e), NEW n \in within, Neighbor(e, n, dir) # {}
         PROVE  {e.source_id, e.target_id} \subseteq ball
    <3>1. PICK x : x \in Neighbor(e, n, dir)
      BY <2>13
    <3>2. {e.source_id, e.target_id} = {n, x}
      BY <3>1, StepEnds
    <3>3. x \in ball
      BY <1>2, <2>1, <2>8, <2>13, <3>1, BallStep
    <3>4. n \in ball
      BY <1>2, <2>1, <2>8, BallGrows
    <3> QED
      BY <3>2, <3>3, <3>4
  <2>14. walked \subseteq between
    BY <2>7, <2>9, <2>11, <2>13
  <2>15. q.nodes = ball /\ q.edges = walked /\ r.nodes = found /\ r.edges = between
    BY <2>10, <2>12
  <2> QED
    BY <2>7, <2>14, <2>15
<1> QED
  BY <1>3, <1>4

\* traverse of both implementations finds the same nodes from every start, in every direction, for every
\* filter that names types by their labels and for every depth up to the configured one: the ends of the
\* paths openCypher matches, none of which repeats a relationship, are the nodes a breadth-first search
\* finds, whatever was ingested; and the edges Postgres reports include those the search walked.
THEOREM TraversalsFindTheSame == Spec => []ReachAgrees
<1>1. StoresInv => ReachAgrees
  <2> SUFFICES ASSUME StoresInv, call = NoCall,
                      NEW start \in Ids, NEW dir \in Directions, NEW types \in WholeFilters, NEW k \in 1..ClampDepth
               PROVE  LET mem == mem_traverse(memory, start, types, dir, k)
                          pg  == pg_traverse(postgres, start, types, dir, k)
                      IN  mem.nodes = pg.nodes /\ mem.edges \subseteq pg.edges
    BY DEF ReachAgrees
  <2>1. Agree(memory, postgres) /\ Follows(postgres)
    BY DEF StoresInv
  <2>2. PICK m : m = memory
    OBVIOUS
  <2>3. PICK p : p = postgres
    OBVIOUS
  <2>4. PICK es : es = MemEdges(m)
    OBVIOUS
  <2>5. Whole(types, es)
    BY <2>2, <2>4 DEF WholeFilters, Types, Whole
  <2>6. PICK q : q = mem_traverse(m, start, types, dir, k)
    OBVIOUS
  <2>7. PICK r : r = pg_traverse(p, start, types, dir, k)
    OBVIOUS
  <2>8. Agree(m, p) /\ Follows(p)
    BY <2>1, <2>2, <2>3
  <2>9. q.nodes = r.nodes /\ q.edges \subseteq r.edges
    BY <2>4, <2>5, <2>6, <2>7, <2>8, TraversalsAgree
  <2> QED
    BY <2>2, <2>3, <2>6, <2>7, <2>9
<1> QED
  BY <1>1, StoresAreInOrder, PTL

-----------------------------------------------------------------------------
(* A seed that runs again *)

\* The edges of x are those of m, with the properties of the edges of e on top.
OnTop(m, e, x) ==
  /\ DOMAIN x = DOMAIN m
  /\ \A j \in DOMAIN m :
        /\ x[j].edge = m[j].edge
        /\ \A k \in DOMAIN e : e[k].edge = m[j].edge => x[j].props = Merge(m[j].props, e[k].props)
        /\ (\A k \in DOMAIN e : e[k].edge # m[j].edge) => x[j] = m[j]

Holds(x, e) == \A k \in DOMAIN e : \E i \in DOMAIN x : x[i].edge = e[k].edge

AbsorbsAll(x, e) ==
  \A k \in DOMAIN e : \A i \in DOMAIN x : x[i].edge = e[k].edge => Absorbs(x[i].props, e[k].props)

\* x is what the upserts that make e of the empty memory make of m.
Over(m, e, x) ==
  /\ x.nodes = Merge(m.nodes, e.nodes)
  /\ x.concepts = Merge(m.concepts, e.concepts)
  /\ x.alias = Merge(m.alias, e.alias)
  /\ Holds(x.edges, e.edges)
  /\ AbsorbsAll(x.edges, e.edges)
  /\ Holds(m.edges, e.edges) => OnTop(m.edges, e.edges, x.edges)

\* The lists of edges, when one edge is written to both.
LEMMA HoldsUpdated ==
  ASSUME NEW x, NEW e, Holds(x, e), AbsorbsAll(x, e), NEW edge, NEW props,
         NEW y, EdgesUpdated(x, y, edge, props), NEW f, EdgesUpdated(e, f, edge, props)
  PROVE  Holds(y, f) /\ AbsorbsAll(y, f)
<1>1. ASSUME NEW k \in DOMAIN f PROVE \E i \in DOMAIN y : y[i].edge = f[k].edge
  <2>1. CASE k \in DOMAIN e
    <3>1. PICK i \in DOMAIN x : x[i].edge = e[k].edge
      BY <2>1 DEF Holds
    <3> QED
      BY <2>1, <3>1 DEF EdgesUpdated
  <2>2. CASE k \notin DOMAIN e
    BY <2>2 DEF EdgesUpdated
  <2> QED
    BY <2>1, <2>2
<1>2. ASSUME NEW k \in DOMAIN f, NEW i \in DOMAIN y, y[i].edge = f[k].edge
      PROVE  Absorbs(y[i].props, f[k].props)
  <2>1. CASE y[i].edge # edge
    <3>1. i \in DOMAIN x /\ y[i] = x[i] /\ k \in DOMAIN e /\ f[k] = e[k]
      BY <1>2, <2>1 DEF EdgesUpdated
    <3> QED
      BY <1>2, <3>1 DEF AbsorbsAll
  <2>2. CASE y[i].edge = edge /\ k \in DOMAIN e
    <3>1. e[k].edge = edge /\ f[k].props = Merge(e[k].props, props)
      BY <1>2, <2>2 DEF EdgesUpdated
    <3>2. PICK j \in DOMAIN x : x[j].edge = edge
      BY <2>2, <3>1 DEF Holds
    <3>3. i \in DOMAIN x
      BY <3>2 DEF EdgesUpdated
    <3>4. x[i].edge = edge /\ y[i].props = Merge(x[i].props, props)
      BY <2>2, <3>3 DEF EdgesUpdated
    <3>5. Absorbs(x[i].props, e[k].props)
      BY <2>2, <3>1, <3>3, <3>4 DEF AbsorbsAll
    <3> QED
      BY <3>1, <3>4, <3>5, MergeAbsorbs
  <2>3. CASE y[i].edge = edge /\ k \notin DOMAIN e
    <3>1. f[k].props = props
      BY <2>3 DEF EdgesUpdated
    <3>2. y[i].props = props \/ \E d : y[i].props = Merge(d, props)
      <4>1. CASE i \in DOMAIN x
        BY <2>3, <4>1 DEF EdgesUpdated
      <4>2. CASE i \notin DOMAIN x
        BY <4>2 DEF EdgesUpdated
      <4> QED
        BY <4>1, <4>2
    <3>3. Absorbs(props, props)
      BY DEF Absorbs
    <3>4. \A d : Absorbs(Merge(d, props), props)
      BY MergeAbsorbs
    <3> QED
      BY <3>1, <3>2, <3>3, <3>4
  <2> QED
    BY <2>1, <2>2, <2>3
<1> QED
  BY <1>1, <1>2 DEF Holds, AbsorbsAll

LEMMA OnTopUpdated ==
  ASSUME NEW m, NEW e, NEW x, Holds(m, e) => OnTop(m, e, x), NEW edge, NEW props,
         NEW y, EdgesUpdated(x, y, edge, props), NEW f, EdgesUpdated(e, f, edge, props), Holds(m, f)
  PROVE  OnTop(m, f, y)
<1>1. Holds(m, e)
  BY DEF Holds, EdgesUpdated
<1>2. OnTop(m, e, x)
  BY <1>1
<1>3. PICK l \in DOMAIN f : f[l].edge = edge
  BY DEF EdgesUpdated
<1>4. PICK i \in DOMAIN m : m[i].edge = edge
  BY <1>3 DEF Holds
<1>5. i \in DOMAIN x /\ x[i].edge = edge
  BY <1>2, <1>4 DEF OnTop
<1>6. DOMAIN y = DOMAIN m
  BY <1>2, <1>5 DEF OnTop, EdgesUpdated
<1>7. ASSUME NEW j \in DOMAIN m
      PROVE  /\ y[j].edge = m[j].edge
             /\ \A k \in DOMAIN f : f[k].edge = m[j].edge => y[j].props = Merge(m[j].props, f[k].props)
             /\ (\A k \in DOMAIN f : f[k].edge # m[j].edge) => y[j] = m[j]
  <2>1. j \in DOMAIN x /\ x[j].edge = m[j].edge /\ y[j].edge = m[j].edge
    BY <1>2 DEF OnTop, EdgesUpdated
  <2>2. CASE m[j].edge # edge
    <3>1. y[j] = x[j]
      BY <2>1, <2>2 DEF EdgesUpdated
    <3>2. \A k \in DOMAIN f : f[k].edge = m[j].edge => k \in DOMAIN e /\ f[k] = e[k]
      BY <2>2 DEF EdgesUpdated
    <3>3. \A k \in DOMAIN e : k \in DOMAIN f /\ f[k].edge = e[k].edge
      BY DEF EdgesUpdated
    <3>4. ASSUME NEW k \in DOMAIN f, f[k].edge = m[j].edge PROVE y[j].props = Merge(m[j].props, f[k].props)
      BY <1>2, <3>1, <3>2, <3>4 DEF OnTop
    <3>5. ASSUME \A k \in DOMAIN f : f[k].edge # m[j].edge PROVE y[j] = m[j]
      <4>1. \A k \in DOMAIN e : e[k].edge # m[j].edge
        BY <3>3, <3>5
      <4> QED
        BY <1>2, <3>1, <4>1 DEF OnTop
    <3> QED
      BY <2>1, <3>4, <3>5
  <2>3. CASE m[j].edge = edge
    <3>1. y[j].props = Merge(x[j].props, props)
      BY <2>1, <2>3 DEF EdgesUpdated
    <3>2. ASSUME NEW k \in DOMAIN f, f[k].edge = m[j].edge PROVE y[j].props = Merge(m[j].props, f[k].props)
      <4>1. CASE k \in DOMAIN e
        <5>1. e[k].edge = edge /\ f[k].props = Merge(e[k].props, props)
          BY <2>3, <3>2, <4>1 DEF EdgesUpdated
        <5>2. x[j].props = Merge(m[j].props, e[k].props)
          BY <1>2, <2>3, <4>1, <5>1 DEF OnTop
        <5> QED
          BY <3>1, <5>1, <5>2, MergeAssociates
      <4>2. CASE k \notin DOMAIN e
        <5>1. f[k].props = props /\ \A l_ \in DOMAIN e : e[l_].edge # edge
          BY <4>2 DEF EdgesUpdated
        <5>2. x[j] = m[j]
          BY <1>2, <2>3, <5>1 DEF OnTop
        <5> QED
          BY <3>1, <5>1, <5>2
      <4> QED
        BY <4>1, <4>2
    <3>3. f[l].edge = m[j].edge
      BY <1>3, <2>3
    <3> QED
      BY <2>1, <3>2, <3>3
  <2> QED
    BY <2>2, <2>3
<1> QED
  BY <1>6, <1>7 DEF OnTop

\* A concept record on all three: its row and its aliases go on top.
LEMMA RecordOver ==
  ASSUME NEW m, NEW e, IsMemory(e), NEW x, IsMemory(x), Over(m, e, x), NEW c,
         NEW f, f = mem_record(e, c), NEW y, y = mem_record(x, c)
  PROVE  IsMemory(f) /\ IsMemory(y) /\ Over(m, f, y)
<1>1. /\ IsMemory(f) /\ f.nodes = e.nodes /\ f.edges = e.edges
      /\ f.concepts = Merge(e.concepts, Entry(c.concept, c)) /\ f.alias = Indexed(e.alias, c)
  BY RecordStep
<1>2. /\ IsMemory(y) /\ y.nodes = x.nodes /\ y.edges = x.edges
      /\ y.concepts = Merge(x.concepts, Entry(c.concept, c)) /\ y.alias = Indexed(x.alias, c)
  BY RecordStep
<1>3. PICK d : d = Entry(c.concept, c)
  OBVIOUS
<1>4. y.concepts = Merge(m.concepts, f.concepts)
  BY <1>1, <1>2, <1>3, MergeAssociates DEF Over
<1>5. \A a, b : Indexed(Merge(a, b), c) = Merge(a, Indexed(b, c))
  BY DEF Indexed, Merge
<1>6. y.alias = Merge(m.alias, f.alias)
  BY <1>1, <1>2, <1>5 DEF Over
<1> QED
  BY <1>1, <1>2, <1>4, <1>6 DEF Over

\* The same upsert on all three.
LEMMA UpsertOver ==
  ASSUME NEW m, NEW e, IsMemory(e), NEW x, IsMemory(x), Over(m, e, x), NEW u, IsUpsert(u),
         NEW f, f = mem_upsert(e, u), NEW y, y = mem_upsert(x, u)
  PROVE  IsMemory(f) /\ IsMemory(y) /\ Over(m, f, y)
<1>1. ASSUME NEW id, NEW kind, NEW props, f = mem_upsert_node(e, id, kind, props),
             y = mem_upsert_node(x, id, kind, props)
      PROVE  IsMemory(f) /\ IsMemory(y) /\ Over(m, f, y)
  <2>1. PICK d : d = Entry(id, [kind |-> kind, props |-> props])
    OBVIOUS
  <2>2. /\ IsMemory(f) /\ f.nodes = Merge(e.nodes, d)
        /\ f.edges = e.edges /\ f.concepts = e.concepts /\ f.alias = e.alias
    BY <1>1, <2>1, NodeStep
  <2>3. /\ IsMemory(y) /\ y.nodes = Merge(x.nodes, d)
        /\ y.edges = x.edges /\ y.concepts = x.concepts /\ y.alias = x.alias
    BY <1>1, <2>1, NodeStep
  <2>4. y.nodes = Merge(m.nodes, f.nodes)
    BY <2>2, <2>3, MergeAssociates DEF Over
  <2> QED
    BY <2>2, <2>3, <2>4 DEF Over
<1>2. CASE \E c : u = [op |-> "record", concept |-> c]
  <2>1. PICK c : u = [op |-> "record", concept |-> c]
    BY <1>2
  <2>2. f = mem_record(e, c) /\ y = mem_record(x, c)
    BY <2>1 DEF mem_upsert
  <2> QED
    BY <2>2, RecordOver
<1>3. CASE \E c : u = [op |-> "mirror", concept |-> c]
  <2>1. PICK c : u = [op |-> "mirror", concept |-> c]
    BY <1>3
  <2>2. f = mem_mirror(e, c) /\ y = mem_mirror(x, c)
    BY <2>1 DEF mem_upsert
  <2> QED
    BY <1>1, <2>2 DEF mem_mirror
<1>4. CASE \E edge, props : u = [op |-> "edge", edge |-> edge, props |-> props] /\ IsMap(props)
  <2>1. PICK edge, props : u = [op |-> "edge", edge |-> edge, props |-> props] /\ IsMap(props)
    BY <1>4
  <2>2. f = mem_upsert_edge(e, edge, props) /\ y = mem_upsert_edge(x, edge, props)
    BY <2>1 DEF mem_upsert
  <2>3. /\ IsMemory(f) /\ f.nodes = e.nodes /\ f.concepts = e.concepts /\ f.alias = e.alias
        /\ EdgesUpdated(e.edges, f.edges, edge, props)
    BY <2>1, <2>2, EdgeStep
  <2>4. /\ IsMemory(y) /\ y.nodes = x.nodes /\ y.concepts = x.concepts /\ y.alias = x.alias
        /\ EdgesUpdated(x.edges, y.edges, edge, props)
    BY <2>1, <2>2, EdgeStep
  <2>5. Holds(y.edges, f.edges) /\ AbsorbsAll(y.edges, f.edges)
    BY <2>3, <2>4, HoldsUpdated DEF Over
  <2>6. Holds(m.edges, f.edges) => OnTop(m.edges, f.edges, y.edges)
    BY <2>3, <2>4, OnTopUpdated DEF Over
  <2> QED
    BY <2>3, <2>4, <2>5, <2>6 DEF Over
<1>5. CASE \E id, kind, props : u = [op |-> "node", id |-> id, kind |-> kind, props |-> props]
  <2>1. PICK id, kind, props : u = [op |-> "node", id |-> id, kind |-> kind, props |-> props]
    BY <1>5
  <2>2. f = mem_upsert_node(e, id, kind, props) /\ y = mem_upsert_node(x, id, kind, props)
    BY <2>1 DEF mem_upsert
  <2> QED
    BY <1>1, <2>2
<1> QED
  BY <1>2, <1>3, <1>4, <1>5 DEF IsUpsert

\* All upserts of a list.
LEMMA AfterOver ==
  ASSUME NEW m, IsMemory(m), NEW us, IsUpserts(us)
  PROVE  /\ IsMemory(mem_after(m, us, Len(us)))
         /\ Over(m, mem_after(EmptyMemory, us, Len(us)), mem_after(m, us, Len(us)))
<1> DEFINE Good(k) == /\ IsMemory(mem_after(EmptyMemory, us, k)) /\ IsMemory(mem_after(m, us, k))
                      /\ Over(m, mem_after(EmptyMemory, us, k), mem_after(m, us, k))
           T == {k \in Nat : k <= Len(us) => Good(k)}
<1>1. Len(us) \in Nat /\ DOMAIN us = 1..Len(us)
  BY DEF IsUpserts, IsList
<1>2. 0 \in T
  <2> HIDE DEF Empty
  <2>1. /\ Merge(m.nodes, Empty) = m.nodes /\ Merge(m.concepts, Empty) = m.concepts
        /\ Merge(m.alias, Empty) = m.alias
    BY MergeEmpty DEF IsMemory
  <2>2. Over(m, EmptyMemory, m)
    BY <2>1, EmptyMemoryFits, EmptyIsMap DEF Over, Holds, AbsorbsAll, OnTop
  <2>3. mem_after(EmptyMemory, us, 0) = EmptyMemory /\ mem_after(m, us, 0) = m
    BY MemAfterNone
  <2> QED
    BY <2>2, <2>3, EmptyMemoryFits
<1>3. ASSUME NEW k \in T PROVE k + 1 \in T
  <2> SUFFICES ASSUME k + 1 <= Len(us) PROVE Good(k + 1)
    OBVIOUS
  <2>1. k \in Nat /\ k <= Len(us) /\ k + 1 \in DOMAIN us
    BY <1>1
  <2>2. PICK e : e = mem_after(EmptyMemory, us, k)
    OBVIOUS
  <2>3. PICK x : x = mem_after(m, us, k)
    OBVIOUS
  <2>4. IsMemory(e) /\ IsMemory(x) /\ Over(m, e, x)
    BY <2>1, <2>2, <2>3
  <2>5. PICK u : u = us[k + 1]
    OBVIOUS
  <2>6. IsUpsert(u)
    BY <2>1, <2>5 DEF IsUpserts
  <2>7. PICK f : f = mem_upsert(e, u)
    OBVIOUS
  <2>8. PICK y : y = mem_upsert(x, u)
    OBVIOUS
  <2>9. mem_after(EmptyMemory, us, k + 1) = f
    BY <2>1, <2>2, <2>5, <2>7, MemAfterNext
  <2>10. mem_after(m, us, k + 1) = y
    BY <2>1, <2>3, <2>5, <2>8, MemAfterNext
  <2>11. IsMemory(f) /\ IsMemory(y) /\ Over(m, f, y)
    BY <2>4, <2>6, <2>7, <2>8, UpsertOver
  <2> QED
    BY <2>9, <2>10, <2>11
<1>4. T = Nat
  <2>1. T \in SUBSET Nat
    OBVIOUS
  <2> HIDE DEF T
  <2> QED
    BY <1>2, <1>3, <2>1, Induction
<1>5. Len(us) \in T
  <2> HIDE DEF T
  <2> QED
    BY <1>1, <1>4
<1> QED
  BY <1>1, <1>5

\* InMemoryGraphStore: upserts that are repeated change nothing any more.
LEMMA MemRepeated ==
  ASSUME NEW m, IsMemory(m), NEW us, IsUpserts(us), NEW x, x = mem_after(m, us, Len(us))
  PROVE  mem_after(x, us, Len(us)) = x
<1>1. PICK e : e = mem_after(EmptyMemory, us, Len(us))
  OBVIOUS
<1>2. PICK y : y = mem_after(x, us, Len(us))
  OBVIOUS
<1>3. IsMemory(x) /\ Over(m, e, x)
  BY <1>1, AfterOver
<1>4. IsMemory(y) /\ Over(x, e, y)
  BY <1>1, <1>2, <1>3, AfterOver
<1>5. y.nodes = x.nodes /\ y.concepts = x.concepts /\ y.alias = x.alias
  <2>1. \A a, b : Merge(Merge(a, b), b) = Merge(a, b)
    BY MergeCovered
  <2> QED
    BY <1>3, <1>4, <2>1 DEF Over
<1>6. OnTop(x.edges, e.edges, y.edges) /\ AbsorbsAll(x.edges, e.edges)
  BY <1>3, <1>4 DEF Over
<1>7. ASSUME NEW j \in DOMAIN x.edges PROVE y.edges[j] = x.edges[j]
  <2>1. CASE \E k \in DOMAIN e.edges : e.edges[k].edge = x.edges[j].edge
    <3>1. PICK k \in DOMAIN e.edges : e.edges[k].edge = x.edges[j].edge
      BY <2>1
    <3>2. PICK a : a = x.edges[j]
      OBVIOUS
    <3>3. PICK b : b = y.edges[j]
      OBVIOUS
    <3>4. b.edge = a.edge /\ b.props = Merge(a.props, e.edges[k].props)
      BY <1>6, <3>1, <3>2, <3>3 DEF OnTop
    <3>5. Absorbs(a.props, e.edges[k].props)
      BY <1>6, <3>1, <3>2 DEF AbsorbsAll
    <3>6. IsEdgeEntry(a) /\ IsEdgeEntry(b)
      BY <1>3, <1>4, <1>6, <3>2, <3>3 DEF IsMemory, OnTop
    <3>7. b.props = a.props
      BY <3>4, <3>5, <3>6, MergeAbsorbed DEF IsEdgeEntry
    <3>8. a = b
      BY <3>4, <3>6, <3>7 DEF IsEdgeEntry
    <3> QED
      BY <3>2, <3>3, <3>8
  <2>2. CASE ~ \E k \in DOMAIN e.edges : e.edges[k].edge = x.edges[j].edge
    BY <1>6, <2>2 DEF OnTop
  <2> QED
    BY <2>1, <2>2
<1>8. y.edges = x.edges
  <2>1. PICK s : s = x.edges
    OBVIOUS
  <2>2. PICK t : t = y.edges
    OBVIOUS
  <2>3. IsList(s) /\ IsList(t)
    BY <1>3, <1>4, <2>1, <2>2 DEF IsMemory
  <2>4. s = [i \in DOMAIN s |-> s[i]] /\ t = [i \in DOMAIN t |-> t[i]]
    BY <2>3 DEF IsList
  <2>5. DOMAIN s = DOMAIN t /\ \A i \in DOMAIN s : s[i] = t[i]
    BY <1>6, <1>7, <2>1, <2>2 DEF OnTop
  <2>6. s = t
    BY <2>4, <2>5
  <2> QED
    BY <2>1, <2>2, <2>6
<1>9. y = x
  <2>1. x = [nodes |-> x.nodes, edges |-> x.edges, concepts |-> x.concepts, alias |-> x.alias]
    BY <1>3 DEF IsMemory
  <2>2. y = [nodes |-> y.nodes, edges |-> y.edges, concepts |-> y.concepts, alias |-> y.alias]
    BY <1>4 DEF IsMemory
  <2> QED
    BY <1>5, <1>8, <2>1, <2>2
<1> QED
  BY <1>2, <1>9

\* sdp/seed.py:4: the seed is safe to run repeatedly, on both backends, whatever is in them
\* and however long it is.
THEOREM SeedingIsIdempotent == Spec => []SeedIsIdempotent
<1>1. StoresInv => SeedIsIdempotent
  <2> SUFFICES ASSUME StoresInv PROVE SeedIsIdempotent
    OBVIOUS
  <2>1. PICK us : us = SeedUpserts
    OBVIOUS
  <2>2. IsUpserts(us) /\ Len(us) \in Nat
    BY <2>1, SeedUpsertsList DEF IsUpserts, IsList
  <2>3. IsMemory(memory) /\ IsPostgres(postgres)
    BY DEF StoresInv
  <2>4. SeededMemory(SeededMemory(memory)) = SeededMemory(memory)
    BY <2>1, <2>2, <2>3, MemRepeated DEF SeededMemory
  <2>5. SeededPostgres(SeededPostgres(postgres)) = SeededPostgres(postgres)
    BY <2>1, <2>2, <2>3, PgResent DEF SeededPostgres
  <2> QED
    BY <2>4, <2>5 DEF SeedIsIdempotent
<1> QED
  BY <1>1, StoresAreInOrder, PTL
=============================================================================
