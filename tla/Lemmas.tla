-------------------------------- MODULE Lemmas --------------------------------
(***************************************************************************)
(* Lemmas that the proofs about the components cite: what the table        *)
(* operators preserve, and what sums over finite sets are.                 *)
(***************************************************************************)
EXTENDS Tables, Functions, FiniteSetTheorems, WellFoundedInduction, TLAPS

-----------------------------------------------------------------------------
(* Tables *)

\* Saving one row keeps a table a table, stores that row under its key and
\* leaves every other row as it was (Repository.save, Repository.update).
LEMMA PutRow ==
    ASSUME NEW table, NEW Ids, NEW Row, IsTable(table, Ids, Row),
           NEW id \in Ids, NEW row \in Row
    PROVE  /\ IsTable(Put(table, id, row), Ids, Row)
           /\ DOMAIN Put(table, id, row) = DOMAIN table \cup {id}
           /\ Put(table, id, row)[id] = row
           /\ \A x \in DOMAIN table : x # id => Put(table, id, row)[x] = table[x]
BY DEF IsTable, Put

\* Saving several rows keeps a table a table, stores those rows and leaves
\* every other row as it was (Repository.save of an array).
LEMMA PutRows ==
    ASSUME NEW table, NEW Ids, NEW Row, IsTable(table, Ids, Row),
           NEW rows, IsTable(rows, Ids, Row)
    PROVE  /\ IsTable(PutAll(table, rows), Ids, Row)
           /\ DOMAIN PutAll(table, rows) = DOMAIN table \cup DOMAIN rows
           /\ \A x \in DOMAIN rows : PutAll(table, rows)[x] = rows[x]
           /\ \A x \in DOMAIN table \ DOMAIN rows : PutAll(table, rows)[x] = table[x]
BY DEF IsTable, PutAll

\* Removing a row keeps a table a table and leaves the other rows alone.
LEMMA DropRow ==
    ASSUME NEW table, NEW Ids, NEW Row, IsTable(table, Ids, Row), NEW id
    PROVE  /\ IsTable(Drop(table, id), Ids, Row)
           /\ DOMAIN Drop(table, id) = DOMAIN table \ {id}
           /\ \A x \in DOMAIN table \ {id} : Drop(table, id)[x] = table[x]
BY DEF IsTable, Drop

-----------------------------------------------------------------------------
(* Sums over finite sets *)

\* What induction over the subsets of a finite set comes to: a family of sets to
\* which every subset belongs whose own subsets with one element less do.
LEMMA SubsetInduction ==
    ASSUME NEW S, IsFiniteSet(S), NEW F,
           \A X \in SUBSET S : (\A p \in X : X \ {p} \in F) => X \in F
    PROVE  SUBSET S \subseteq F
<1> DEFINE T == (SUBSET S) \ F
<1>1. ASSUME T # {}
      PROVE  FALSE
  <2>1. T \subseteq FiniteSubsetsOf(S)
    BY FS_FiniteSubsetsOfFinite
  <2>2. \E X \in T : \A Y \in T : ~ (<<Y, X>> \in StrictSubsetOrdering(S))
    <3> HIDE DEF T
    <3>1. QED
      BY <1>1, <2>1, FS_StrictSubsetOrderingWellFounded, WFMin
  <2>3. PICK X \in T : \A Y \in T : Y \subseteq X => Y = X
    BY <2>2 DEF StrictSubsetOrdering
  <2>4. \A p \in X : X \ {p} \in F
    BY <2>3
  <2>5. QED
    BY <2>3, <2>4
<1>2. QED
  BY <1>1

\* SumFunctionOnSet is a CHOOSE of a function that is defined by recursion over
\* the subsets: there is one, and it does not matter for which set it is chosen.
Pick(s) == CHOOSE x \in s : TRUE

IsSum(g, fun, S) ==
    g = [s \in SUBSET S |-> IF s = {} THEN 0 ELSE fun[Pick(s)] + g[s \ {Pick(s)}]]

LEMMA SumIs ==
    ASSUME NEW S, NEW fun
    PROVE  SumFunctionOnSet(fun, S) = (CHOOSE g : IsSum(g, fun, S))[S]
BY DEF SumFunctionOnSet, FoldFunctionOnSet, MapThenFoldSet, IsSum, Pick

LEMMA SumUnique ==
    ASSUME NEW fun, NEW A, IsFiniteSet(A), NEW B,
           NEW g, IsSum(g, fun, A), NEW h, IsSum(h, fun, B)
    PROVE  \A u \in SUBSET (A \cap B) : g[u] = h[u]
<1>1. PICK D : D = A \cap B
  OBVIOUS
<1> DEFINE F == {u \in SUBSET D : g[u] = h[u]}
<1>2. ASSUME NEW X \in SUBSET D, \A p \in X : X \ {p} \in F
      PROVE  X \in F
  <2>1. /\ g[X] = IF X = {} THEN 0 ELSE fun[Pick(X)] + g[X \ {Pick(X)}]
        /\ h[X] = IF X = {} THEN 0 ELSE fun[Pick(X)] + h[X \ {Pick(X)}]
    BY <1>1 DEF IsSum
  <2>2. X # {} => Pick(X) \in X
    BY DEF Pick
  <2>3. QED
    BY <1>2, <2>1, <2>2
<1>3. SUBSET D \subseteq F
  <2>1. IsFiniteSet(D)
    BY <1>1, FS_Subset
  <2> HIDE DEF F
  <2>2. QED
    BY <1>2, <2>1, SubsetInduction
<1>4. QED
  BY <1>1, <1>3

LEMMA SumExists ==
    ASSUME NEW S, IsFiniteSet(S), NEW fun
    PROVE  \E g : IsSum(g, fun, S)
<1> DEFINE F == {X \in SUBSET S : \E g : IsSum(g, fun, X)}
           G(s) == CHOOSE g : IsSum(g, fun, s)
           Val(s) == G(s)[s]
<1>1. ASSUME NEW X \in SUBSET S, \A p \in X : X \ {p} \in F
      PROVE  X \in F
  <2>1. \A s \in SUBSET X : s # X => IsSum(G(s), fun, s)
    <3>1. ASSUME NEW s \in SUBSET X, s # X
          PROVE  \E g : IsSum(g, fun, s)
      <4>1. PICK p \in X : s \subseteq X \ {p}
        BY <3>1
      <4>2. PICK g : IsSum(g, fun, X \ {p})
        BY <1>1
      <4>3. IsSum([u \in SUBSET s |-> g[u]], fun, s)
        <5>1. ASSUME NEW u \in SUBSET s
              PROVE  /\ u # {} => u \ {Pick(u)} \in SUBSET s
                     /\ g[u] = IF u = {} THEN 0 ELSE fun[Pick(u)] + g[u \ {Pick(u)}]
          BY <4>1, <4>2 DEF IsSum
        <5>2. QED
          BY <5>1 DEF IsSum
      <4>4. QED
        BY <4>3
    <3>2. QED
      BY <3>1
  <2>2. PICK f : f = [s \in SUBSET X |-> IF s = {} THEN 0
                                         ELSE fun[Pick(s)] + Val(s \ {Pick(s)})]
    OBVIOUS
  <2>3. ASSUME NEW s \in SUBSET X, s # X
        PROVE  f[s] = Val(s)
    <3>1. f[s] = IF s = {} THEN 0 ELSE fun[Pick(s)] + Val(s \ {Pick(s)})
      BY <2>2
    <3>2. IsSum(G(s), fun, s)
      BY <2>1, <2>3
    <3>3. Val(s) = IF s = {} THEN 0 ELSE fun[Pick(s)] + G(s)[s \ {Pick(s)}]
      BY <3>2 DEF IsSum
    <3>4. CASE s # {}
      <4>1. s \ {Pick(s)} \in SUBSET X /\ s \ {Pick(s)} # X
        BY <3>4 DEF Pick
      <4>2. IsSum(G(s \ {Pick(s)}), fun, s \ {Pick(s)})
        BY <2>1, <4>1
      <4>3. IsFiniteSet(s)
        BY FS_Subset
      <4> HIDE DEF G
      <4>4. G(s)[s \ {Pick(s)}] = G(s \ {Pick(s)})[s \ {Pick(s)}]
        BY <3>2, <4>2, <4>3, SumUnique
      <4>5. QED
        BY <3>1, <3>3, <3>4, <4>4
    <3>5. QED
      BY <3>1, <3>3, <3>4
  <2>4. \A s \in SUBSET X : s # {} => s \ {Pick(s)} \in SUBSET X /\ s \ {Pick(s)} # X
    BY DEF Pick
  <2> HIDE DEF Val
  <2>5. \A s \in SUBSET X : s # {} => f[s \ {Pick(s)}] = Val(s \ {Pick(s)})
    BY <2>3, <2>4
  <2>6. IsSum(f, fun, X)
    BY <2>2, <2>5 DEF IsSum
  <2>7. QED
    BY <2>6
<1>2. SUBSET S \subseteq F
  <2> HIDE DEF F
  <2>1. QED
    BY <1>1, SubsetInduction
<1>3. QED
  BY <1>2

LEMMA SumSteps ==
    ASSUME NEW S, IsFiniteSet(S), NEW fun
    PROVE  SumFunctionOnSet(fun, S) =
               IF S = {} THEN 0
               ELSE fun[Pick(S)] + SumFunctionOnSet(fun, S \ {Pick(S)})
<1> DEFINE G(s) == CHOOSE g : IsSum(g, fun, s)
           r == S \ {Pick(S)}
<1>1. IsFiniteSet(r)
  BY FS_RemoveElement
<1>2. IsSum(G(S), fun, S) /\ IsSum(G(r), fun, r)
  BY <1>1, SumExists
<1>3. SumFunctionOnSet(fun, S) = G(S)[S] /\ SumFunctionOnSet(fun, r) = G(r)[r]
  BY SumIs
<1>4. G(S)[S] = IF S = {} THEN 0 ELSE fun[Pick(S)] + G(S)[r]
  BY <1>2 DEF IsSum
<1>5. G(S)[r] = G(r)[r]
  <2>1. r \in SUBSET (S \cap r)
    OBVIOUS
  <2> HIDE DEF G, r
  <2>2. QED
    BY <1>1, <1>2, <2>1, SumUnique
<1> HIDE DEF G
<1>6. QED
  BY <1>3, <1>4, <1>5

\* Sums of integers, as one knows them.
LEMMA SumEmpty ==
    ASSUME NEW fun
    PROVE  SumFunctionOnSet(fun, {}) = 0
BY SumSteps, FS_EmptySet

LEMMA SumInt ==
    ASSUME NEW S, IsFiniteSet(S), NEW fun, \A x \in S : fun[x] \in Int
    PROVE  SumFunctionOnSet(fun, S) \in Int
<1> DEFINE F == {X \in SUBSET S : SumFunctionOnSet(fun, X) \in Int}
<1>1. ASSUME NEW X \in SUBSET S, \A p \in X : X \ {p} \in F
      PROVE  X \in F
  <2>1. SumFunctionOnSet(fun, X) =
            IF X = {} THEN 0 ELSE fun[Pick(X)] + SumFunctionOnSet(fun, X \ {Pick(X)})
    BY FS_Subset, SumSteps
  <2>2. X # {} => Pick(X) \in X
    BY DEF Pick
  <2>3. QED
    BY <1>1, <2>1, <2>2
<1>2. SUBSET S \subseteq F
  <2> HIDE DEF F
  <2>1. QED
    BY <1>1, SubsetInduction
<1>3. QED
  BY <1>2

LEMMA SumRemove ==
    ASSUME NEW S, IsFiniteSet(S), NEW fun, \A x \in S : fun[x] \in Int, NEW y \in S
    PROVE  SumFunctionOnSet(fun, S) = fun[y] + SumFunctionOnSet(fun, S \ {y})
<1> DEFINE F == {X \in SUBSET S :
                    \A x \in X : SumFunctionOnSet(fun, X) =
                                     fun[x] + SumFunctionOnSet(fun, X \ {x})}
<1>1. ASSUME NEW X \in SUBSET S, \A p \in X : X \ {p} \in F
      PROVE  X \in F
  <2>1. ASSUME NEW x \in X
        PROVE  SumFunctionOnSet(fun, X) = fun[x] + SumFunctionOnSet(fun, X \ {x})
    <3>1. PICK p : p = Pick(X)
      OBVIOUS
    <3>2. p \in X /\ SumFunctionOnSet(fun, X) = fun[p] + SumFunctionOnSet(fun, X \ {p})
      BY <3>1, FS_Subset, SumSteps DEF Pick
    <3>3. CASE x # p
      <4>1. PICK r : r = X \ {p, x}
        OBVIOUS
      <4>2. (X \ {p}) \ {x} = r /\ (X \ {x}) \ {p} = r
        BY <4>1
      <4>3. /\ SumFunctionOnSet(fun, X \ {p}) = fun[x] + SumFunctionOnSet(fun, r)
            /\ SumFunctionOnSet(fun, X \ {x}) = fun[p] + SumFunctionOnSet(fun, r)
        BY <1>1, <3>2, <3>3, <4>2
      <4>4. r \subseteq S /\ IsFiniteSet(r)
        BY <4>1, FS_Subset
      <4>5. SumFunctionOnSet(fun, r) \in Int /\ fun[x] \in Int /\ fun[p] \in Int
        BY <3>2, <4>4, SumInt
      <4>6. QED
        BY <3>2, <4>3, <4>5
    <3>4. QED
      BY <3>2, <3>3
  <2>2. QED
    BY <2>1
<1>2. SUBSET S \subseteq F
  <2> HIDE DEF F
  <2>1. QED
    BY <1>1, SubsetInduction
<1>3. QED
  BY <1>2

LEMMA SumAdd ==
    ASSUME NEW S, IsFiniteSet(S), NEW y, y \notin S,
           NEW fun, \A x \in S \cup {y} : fun[x] \in Int
    PROVE  SumFunctionOnSet(fun, S \cup {y}) = fun[y] + SumFunctionOnSet(fun, S)
<1>1. IsFiniteSet(S \cup {y})
  BY FS_AddElement
<1>2. (S \cup {y}) \ {y} = S
  OBVIOUS
<1>3. QED
  BY <1>1, <1>2, SumRemove

LEMMA SumSame ==
    ASSUME NEW S, IsFiniteSet(S), NEW f, NEW g, \A x \in S : g[x] = f[x]
    PROVE  SumFunctionOnSet(f, S) = SumFunctionOnSet(g, S)
<1> DEFINE F == {X \in SUBSET S : SumFunctionOnSet(f, X) = SumFunctionOnSet(g, X)}
<1>1. ASSUME NEW X \in SUBSET S, \A p \in X : X \ {p} \in F
      PROVE  X \in F
  <2>1. /\ SumFunctionOnSet(f, X) =
              IF X = {} THEN 0 ELSE f[Pick(X)] + SumFunctionOnSet(f, X \ {Pick(X)})
        /\ SumFunctionOnSet(g, X) =
              IF X = {} THEN 0 ELSE g[Pick(X)] + SumFunctionOnSet(g, X \ {Pick(X)})
    BY FS_Subset, SumSteps
  <2>2. X # {} => Pick(X) \in X
    BY DEF Pick
  <2>3. QED
    BY <1>1, <2>1, <2>2
<1>2. SUBSET S \subseteq F
  <2> HIDE DEF F
  <2>1. QED
    BY <1>1, SubsetInduction
<1>3. QED
  BY <1>2

LEMMA SumPlus ==
    ASSUME NEW S, IsFiniteSet(S), NEW f, NEW g, NEW h,
           \A x \in S : f[x] \in Int /\ g[x] \in Int /\ h[x] = f[x] + g[x]
    PROVE  SumFunctionOnSet(h, S) = SumFunctionOnSet(f, S) + SumFunctionOnSet(g, S)
<1> DEFINE F == {X \in SUBSET S : SumFunctionOnSet(h, X) =
                                     SumFunctionOnSet(f, X) + SumFunctionOnSet(g, X)}
<1>1. ASSUME NEW X \in SUBSET S, \A p \in X : X \ {p} \in F
      PROVE  X \in F
  <2>1. CASE X = {}
    <3>1. /\ SumFunctionOnSet(f, {}) = 0 /\ SumFunctionOnSet(g, {}) = 0
          /\ SumFunctionOnSet(h, {}) = 0
      BY SumEmpty
    <3>2. QED
      BY <2>1, <3>1
  <2>2. CASE X # {}
    <3>1. PICK p \in X : p = Pick(X)
      BY <2>2 DEF Pick
    <3>2. PICK r : r = X \ {p}
      OBVIOUS
    <3>3. /\ SumFunctionOnSet(f, X) = f[p] + SumFunctionOnSet(f, r)
          /\ SumFunctionOnSet(g, X) = g[p] + SumFunctionOnSet(g, r)
          /\ SumFunctionOnSet(h, X) = h[p] + SumFunctionOnSet(h, r)
      BY <2>2, <3>1, <3>2, FS_Subset, SumSteps
    <3>4. SumFunctionOnSet(h, r) = SumFunctionOnSet(f, r) + SumFunctionOnSet(g, r)
      BY <1>1, <3>2
    <3>5. r \subseteq S /\ IsFiniteSet(r)
      BY <3>2, FS_Subset
    <3>6. SumFunctionOnSet(f, r) \in Int /\ SumFunctionOnSet(g, r) \in Int
      BY <3>5, SumInt
    <3>7. f[p] \in Int /\ g[p] \in Int /\ h[p] = f[p] + g[p]
      OBVIOUS
    <3>8. QED
      BY <3>3, <3>4, <3>6, <3>7
  <2>3. QED
    BY <2>1, <2>2
<1>2. SUBSET S \subseteq F
  <2> HIDE DEF F
  <2>1. QED
    BY <1>1, SubsetInduction
<1>3. QED
  BY <1>2

LEMMA SumUnion ==
    ASSUME NEW A, IsFiniteSet(A), NEW B, IsFiniteSet(B), A \cap B = {},
           NEW f, \A x \in A \cup B : f[x] \in Int
    PROVE  SumFunctionOnSet(f, A \cup B) = SumFunctionOnSet(f, A) + SumFunctionOnSet(f, B)
<1> DEFINE F == {X \in SUBSET A : SumFunctionOnSet(f, X \cup B) =
                                     SumFunctionOnSet(f, X) + SumFunctionOnSet(f, B)}
<1>1. SumFunctionOnSet(f, B) \in Int
  BY SumInt
<1>2. ASSUME NEW X \in SUBSET A, \A p \in X : X \ {p} \in F
      PROVE  X \in F
  <2>1. CASE X = {}
    <3>1. SumFunctionOnSet(f, {}) = 0 /\ {} \cup B = B
      BY SumEmpty
    <3>2. QED
      BY <1>1, <2>1, <3>1
  <2>2. CASE X # {}
    <3>1. PICK p : p \in X
      BY <2>2
    <3>2. PICK r : r = X \ {p}
      OBVIOUS
    <3>3. /\ r \subseteq A /\ IsFiniteSet(r) /\ IsFiniteSet(X) /\ IsFiniteSet(r \cup B)
          /\ X \cup B = (r \cup B) \cup {p} /\ p \notin r \cup B
      BY <3>1, <3>2, FS_Subset, FS_Union
    <3>4. SumFunctionOnSet(f, X) = f[p] + SumFunctionOnSet(f, r)
      BY <3>1, <3>2, <3>3, SumRemove
    <3>5. SumFunctionOnSet(f, X \cup B) = f[p] + SumFunctionOnSet(f, r \cup B)
      <4>1. \A x \in (r \cup B) \cup {p} : f[x] \in Int
        BY <3>1, <3>3
      <4>2. QED
        BY <3>3, <4>1, SumAdd
    <3>6. SumFunctionOnSet(f, r) \in Int /\ f[p] \in Int
      BY <3>1, <3>3, SumInt
    <3>7. SumFunctionOnSet(f, r \cup B) = SumFunctionOnSet(f, r) + SumFunctionOnSet(f, B)
      BY <1>2, <3>1, <3>2
    <3>8. QED
      BY <1>1, <3>4, <3>5, <3>6, <3>7
  <2>3. QED
    BY <2>1, <2>2
<1>3. SUBSET A \subseteq F
  <2> HIDE DEF F
  <2>1. QED
    BY <1>2, SubsetInduction
<1>4. QED
  BY <1>3

LEMMA SumConst ==
    ASSUME NEW S, IsFiniteSet(S), NEW f, NEW v \in Int, \A x \in S : f[x] = v
    PROVE  SumFunctionOnSet(f, S) = v * Cardinality(S)
<1> DEFINE F == {X \in SUBSET S : SumFunctionOnSet(f, X) = v * Cardinality(X)}
<1>1. ASSUME NEW X \in SUBSET S, \A p \in X : X \ {p} \in F
      PROVE  X \in F
  <2>1. CASE X = {}
    <3>1. SumFunctionOnSet(f, {}) = 0 /\ Cardinality({}) = 0 /\ v * 0 = 0
      BY SumEmpty, FS_EmptySet
    <3>2. QED
      BY <2>1, <3>1
  <2>2. CASE X # {}
    <3>1. PICK p : p \in X
      BY <2>2
    <3>2. PICK r : r = X \ {p}
      OBVIOUS
    <3>3. IsFiniteSet(X) /\ Cardinality(r) = Cardinality(X) - 1
      BY <3>1, <3>2, FS_Subset, FS_RemoveElement
    <3>4. SumFunctionOnSet(f, X) = v + SumFunctionOnSet(f, r)
      BY <3>1, <3>2, <3>3, SumRemove
    <3>5. PICK n \in Nat : n = Cardinality(X)
      BY <3>3, FS_CardinalityType
    <3>6. v + v * (n - 1) = v * n
      OBVIOUS
    <3>7. SumFunctionOnSet(f, r) = v * Cardinality(r)
      BY <1>1, <3>1, <3>2
    <3>8. QED
      BY <3>3, <3>4, <3>5, <3>6, <3>7
  <2>3. QED
    BY <2>1, <2>2
<1>2. SUBSET S \subseteq F
  <2> HIDE DEF F
  <2>1. QED
    BY <1>1, SubsetInduction
<1>3. QED
  BY <1>2

\* Summing group by group is summing.
LEMMA SumGroups ==
    ASSUME NEW J, IsFiniteSet(J), NEW D, IsFiniteSet(D), NEW h, \A j \in J : h[j] \in D,
           NEW f, \A j \in J : f[j] \in Int,
           NEW G, \A d \in D : G[d] = {j \in J : h[j] = d},
           NEW g, \A d \in D : g[d] = SumFunctionOnSet(f, G[d])
    PROVE  SumFunctionOnSet(g, D) = SumFunctionOnSet(f, J)
<1> DEFINE Over(X) == {j \in J : h[j] \in X}
           F == {X \in SUBSET D : SumFunctionOnSet(g, X) = SumFunctionOnSet(f, Over(X))}
<1>1. \A d \in D : g[d] \in Int
  <2>1. \A d \in D : IsFiniteSet(G[d]) /\ SumFunctionOnSet(f, G[d]) \in Int
    BY FS_Subset, SumInt
  <2>2. QED
    BY <2>1
<1>2. ASSUME NEW X \in SUBSET D, \A p \in X : X \ {p} \in F
      PROVE  X \in F
  <2>1. CASE X = {}
    <3>1. SumFunctionOnSet(f, {}) = 0 /\ SumFunctionOnSet(g, {}) = 0 /\ Over({}) = {}
      BY SumEmpty
    <3>2. QED
      BY <2>1, <3>1
  <2>2. CASE X # {}
    <3>1. PICK p : p \in X
      BY <2>2
    <3>2. PICK r : r = X \ {p}
      OBVIOUS
    <3>3. SumFunctionOnSet(g, X) = g[p] + SumFunctionOnSet(g, r)
      BY <1>1, <3>1, <3>2, FS_Subset, SumRemove
    <3>4. SumFunctionOnSet(f, Over(X)) =
              SumFunctionOnSet(f, G[p]) + SumFunctionOnSet(f, Over(r))
      <4>1. Over(X) = G[p] \cup Over(r) /\ G[p] \cap Over(r) = {}
        BY <3>1, <3>2
      <4>2. G[p] \subseteq J /\ Over(r) \subseteq J
        BY <3>1
      <4>3. IsFiniteSet(G[p]) /\ IsFiniteSet(Over(r))
        BY <4>2, FS_Subset
      <4>4. \A x \in G[p] \cup Over(r) : f[x] \in Int
        BY <4>2
      <4> HIDE DEF Over
      <4>5. QED
        BY <4>1, <4>3, <4>4, SumUnion
    <3>5. SumFunctionOnSet(g, r) = SumFunctionOnSet(f, Over(r))
      BY <1>2, <3>1, <3>2
    <3>6. QED
      BY <3>1, <3>3, <3>4, <3>5
  <2>3. QED
    BY <2>1, <2>2
<1>3. D \in F
  <2>1. SUBSET D \subseteq F
    <3> HIDE DEF F
    <3>1. QED
      BY <1>2, SubsetInduction
  <2>2. QED
    BY <2>1
<1>4. Over(D) = J
  OBVIOUS
<1>5. QED
  BY <1>3, <1>4

LEMMA SumZero ==
    ASSUME NEW S, IsFiniteSet(S), NEW f, \A x \in S : f[x] = 0
    PROVE  SumFunctionOnSet(f, S) = 0
<1>1. SumFunctionOnSet(f, S) = 0 * Cardinality(S)
  BY SumConst
<1>2. Cardinality(S) \in Nat
  BY FS_CardinalityType
<1>3. QED
  BY <1>1, <1>2

LEMMA SumOne ==
    ASSUME NEW S, IsFiniteSet(S), NEW y \in S, NEW f, f[y] \in Int,
           \A x \in S : x # y => f[x] = 0
    PROVE  SumFunctionOnSet(f, S) = f[y]
<1>1. SumFunctionOnSet(f, S) = f[y] + SumFunctionOnSet(f, S \ {y})
  BY SumRemove
<1>2. SumFunctionOnSet(f, S \ {y}) = 0
  BY FS_RemoveElement, SumZero
<1>3. QED
  BY <1>1, <1>2

LEMMA SumMinus ==
    ASSUME NEW S, IsFiniteSet(S), NEW f, NEW g, NEW h,
           \A x \in S : f[x] \in Int /\ g[x] \in Int /\ h[x] = f[x] - g[x]
    PROVE  SumFunctionOnSet(h, S) = SumFunctionOnSet(f, S) - SumFunctionOnSet(g, S)
<1>1. SumFunctionOnSet(f, S) = SumFunctionOnSet(h, S) + SumFunctionOnSet(g, S)
  <2>1. \A x \in S : h[x] \in Int /\ g[x] \in Int /\ f[x] = h[x] + g[x]
    OBVIOUS
  <2>2. QED
    BY <2>1, SumPlus
<1>2. /\ SumFunctionOnSet(f, S) \in Int /\ SumFunctionOnSet(g, S) \in Int
      /\ SumFunctionOnSet(h, S) \in Int
  BY SumInt
<1>3. QED
  BY <1>1, <1>2

\* SumFunction is the sum over the domain.
LEMMA SumOfFunction ==
    ASSUME NEW f
    PROVE  SumFunction(f) = SumFunctionOnSet(f, DOMAIN f)
BY DEF SumFunction, SumFunctionOnSet, FoldFunction

=============================================================================
