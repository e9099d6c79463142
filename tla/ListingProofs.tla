---------------------------- MODULE ListingProofs ----------------------------
(***************************************************************************)
(* Theorems about Listing for any columns, page sizes, filters and sorts:  *)
(* what a client that reads page after page sees, misses and sees twice    *)
(* while others write the table.                                           *)
(***************************************************************************)
EXTENDS Listing, Lemmas

-----------------------------------------------------------------------------
(* Least numbers and finite sets *)

LEMMA Least ==
    ASSUME NEW S \in SUBSET Nat, S # {}
    PROVE  \E m \in S : \A n \in S : m <= n
<1> DEFINE R == OpToRel(<, Nat)
<1>1. IsWellFoundedOn(R, Nat)
  BY NatLessThanWellFounded
<1>2. PICK m \in S : \A n \in S : ~(<<n, m>> \in R)
  <2> HIDE DEF R
  <2>1. QED
    BY <1>1, WFMin
<1>3. \A n \in S : ~(n < m)
  BY <1>2 DEF OpToRel
<1>4. QED
  BY <1>3

\* The elements of a sequence up to position n are at most n, and n if none of
\* them comes twice.
LEMMA Prefix ==
    ASSUME NEW f, NEW n \in Nat, NEW T, f \in [1..n -> T], T = {f[i] : i \in 1..n}
    PROVE  /\ IsFiniteSet(T) /\ Cardinality(T) \in Nat /\ Cardinality(T) <= n
           /\ (\A i, j \in 1..n : f[i] = f[j] => i = j) => Cardinality(T) = n
<1>1. IsFiniteSet(1..n) /\ Cardinality(1..n) = n
  <2>1. 1 \in Int /\ n \in Int
    OBVIOUS
  <2>2. IsFiniteSet(1..n) /\ Cardinality(1..n) = IF 1 > n THEN 0 ELSE n - 1 + 1
    BY <2>1, FS_Interval
  <2>3. (IF 1 > n THEN 0 ELSE n - 1 + 1) = n
    OBVIOUS
  <2>4. QED
    BY <2>2, <2>3
<1>2. f \in Surjection(1..n, T)
  BY DEF Surjection
<1>3. IsFiniteSet(T) /\ Cardinality(T) <= n
      /\ (Cardinality(T) = Cardinality(1..n) <=> f \in Injection(1..n, T))
  BY <1>1, <1>2, FS_Surjection
<1>4. Cardinality(T) \in Nat
  BY <1>3, FS_CardinalityType
<1>5. (\A i, j \in 1..n : f[i] = f[j] => i = j) => f \in Injection(1..n, T)
  BY DEF Injection, IsInjective
<1>6. QED
  BY <1>1, <1>3, <1>4, <1>5

-----------------------------------------------------------------------------
(* The order of a list *)

SortColumn == [column : Columns, desc : BOOLEAN]

\* A row that can be sorted: its columns are numbers.
Sortable(a) == \A c \in Columns : a[c] \in Int

LEMMA RowSortable ==
    ASSUME NEW a \in Row
    PROVE  Sortable(a)
<1>1. a.id \in 1..MaxId /\ a.key \in Keys /\ a.scope \in Scopes
  BY DEF Row, Ids
<1>2. a.id \in Int
  BY <1>1, ColumnsAssumption
<1>3. a.key \in Int /\ a.scope \in Int
  <2>1. (\A k \in Keys : k \in Nat) /\ (\A k \in Scopes : k \in Nat)
    BY ColumnsAssumption
  <2>2. a.key \in Nat /\ a.scope \in Nat
    BY <1>1, <2>1
  <2>3. QED
    BY <2>2
<1>4. QED
  BY <1>2, <1>3 DEF Sortable, Columns

LEMMA LessFacts ==
    ASSUME NEW s \in SortColumn, NEW a, NEW b, NEW x, Sortable(a), Sortable(b), Sortable(x)
    PROVE  /\ ~Less(s, a, a)
           /\ Less(s, a, b) => a[s.column] # b[s.column]
           /\ a[s.column] # b[s.column] => Less(s, a, b) \/ Less(s, b, a)
           /\ Less(s, b, a) => Less(s, b, x) \/ Less(s, x, a)
           /\ x[s.column] = b[s.column] => (Less(s, b, a) <=> Less(s, x, a))
           /\ x[s.column] = a[s.column] => (Less(s, b, a) <=> Less(s, b, x))
<1> DEFINE u == a[s.column]
           v == b[s.column]
           w == x[s.column]
<1>1. u \in Int /\ v \in Int /\ w \in Int
  BY DEF SortColumn, Sortable
<1> HIDE DEF u, v, w
<1>2. /\ Less(s, a, a) <=> IF s.desc THEN u > u ELSE u < u
      /\ Less(s, a, b) <=> IF s.desc THEN u > v ELSE u < v
      /\ Less(s, b, a) <=> IF s.desc THEN v > u ELSE v < u
      /\ Less(s, b, x) <=> IF s.desc THEN v > w ELSE v < w
      /\ Less(s, x, a) <=> IF s.desc THEN w > u ELSE w < u
  BY DEF Less, u, v, w
<1>3. QED
  BY <1>1, <1>2 DEF u, v, w

\* No row precedes itself.
LEMMA PrecedesIrreflexive ==
    ASSUME NEW sort \in Seq(SortColumn), NEW a, Sortable(a)
    PROVE  ~Precedes(sort, a, a)
BY LessFacts DEF Precedes

\* A row that precedes another precedes whatever does not precede that other.
LEMMA PrecedesWeakly ==
    ASSUME NEW sort \in Seq(SortColumn),
           NEW a, NEW b, NEW x, Sortable(a), Sortable(b), Sortable(x),
           Precedes(sort, b, a)
    PROVE  Precedes(sort, b, x) \/ Precedes(sort, x, a)
<1>1. PICK n \in DOMAIN sort :
         /\ Less(sort[n], b, a)
         /\ \A m \in 1..(n - 1) : b[sort[m].column] = a[sort[m].column]
  BY DEF Precedes
<1>2. DOMAIN sort = 1..Len(sort) /\ Len(sort) \in Nat /\ n \in Nat
      /\ \A m \in DOMAIN sort : sort[m] \in SortColumn
  OBVIOUS
<1> DEFINE D == {m \in 1..(n - 1) : x[sort[m].column] # a[sort[m].column]}
<1>3. CASE D = {}
  <2>1. \A m \in 1..(n - 1) : /\ x[sort[m].column] = a[sort[m].column]
                              /\ b[sort[m].column] = x[sort[m].column]
    BY <1>1, <1>3
  <2>2. Less(sort[n], b, x) \/ Less(sort[n], x, a)
    BY <1>1, <1>2, LessFacts
  <2>3. QED
    BY <2>1, <2>2 DEF Precedes
<1>4. CASE D # {}
  <2>1. PICK m \in D : \A k \in D : m <= k
    <3>1. D \in SUBSET Nat
      BY <1>2
    <3>2. QED
      BY <1>4, <3>1, Least
  <2>2. m \in 1..(n - 1) /\ m \in DOMAIN sort /\ x[sort[m].column] # a[sort[m].column]
        /\ b[sort[m].column] = a[sort[m].column]
    BY <1>1, <1>2, <2>1
  <2>3. \A k \in 1..(m - 1) : /\ x[sort[k].column] = a[sort[k].column]
                              /\ b[sort[k].column] = x[sort[k].column]
    <3>1. ASSUME NEW k \in 1..(m - 1)
          PROVE  k \in 1..(n - 1) /\ ~(m <= k)
      BY <1>2, <2>2
    <3>2. QED
      BY <1>1, <2>1, <3>1
  <2>4. Less(sort[m], b, x) \/ Less(sort[m], x, a)
    BY <1>2, <2>2, LessFacts
  <2>5. QED
    BY <2>2, <2>3, <2>4 DEF Precedes
<1>5. QED
  BY <1>3, <1>4

\* Rows that differ in a column of the sort do not tie.
LEMMA PrecedesTotal ==
    ASSUME NEW sort \in Seq(SortColumn), NEW a, NEW b, Sortable(a), Sortable(b),
           NEW n \in DOMAIN sort, a[sort[n].column] # b[sort[n].column]
    PROVE  Precedes(sort, a, b) \/ Precedes(sort, b, a)
<1> DEFINE D == {m \in DOMAIN sort : a[sort[m].column] # b[sort[m].column]}
<1>1. DOMAIN sort = 1..Len(sort) /\ Len(sort) \in Nat
      /\ \A m \in DOMAIN sort : sort[m] \in SortColumn
  OBVIOUS
<1>2. PICK m \in D : \A k \in D : m <= k
  <2>1. D \in SUBSET Nat /\ D # {}
    BY <1>1
  <2>2. QED
    BY <2>1, Least
<1>3. \A k \in 1..(m - 1) : a[sort[k].column] = b[sort[k].column]
  <2>1. ASSUME NEW k \in 1..(m - 1)
        PROVE  k \in DOMAIN sort /\ ~(m <= k)
    BY <1>1, <1>2
  <2>2. QED
    BY <1>2, <2>1
<1>4. Less(sort[m], a, b) \/ Less(sort[m], b, a)
  BY <1>1, <1>2, LessFacts
<1>5. QED
  BY <1>2, <1>3, <1>4 DEF Precedes

\* A further column to sort by keeps what the columns before it decide.
LEMMA PrecedesAppend ==
    ASSUME NEW sort \in Seq(SortColumn), NEW s \in SortColumn, NEW a, NEW b,
           Precedes(sort, a, b)
    PROVE  Precedes(Append(sort, s), a, b)
<1>1. PICK n \in DOMAIN sort :
         /\ Less(sort[n], a, b)
         /\ \A m \in 1..(n - 1) : a[sort[m].column] = b[sort[m].column]
  BY DEF Precedes
<1>2. DOMAIN sort = 1..Len(sort) /\ Len(sort) \in Nat
      /\ DOMAIN Append(sort, s) = 1..(Len(sort) + 1)
      /\ \A m \in 1..Len(sort) : Append(sort, s)[m] = sort[m]
  OBVIOUS
<1>3. n \in DOMAIN Append(sort, s) /\ Append(sort, s)[n] = sort[n]
      /\ \A m \in 1..(n - 1) : Append(sort, s)[m] = sort[m]
  BY <1>2
<1>4. QED
  BY <1>1, <1>3 DEF Precedes

-----------------------------------------------------------------------------
(* The inductive invariant *)

SortOf(q) == IF q.joined THEN Append(q.sort, ById) ELSE q.sort

\* The rows of S before row r, and those not after it, as the table stands.
Before(S, sort, r) == {x \in S : Precedes(sort, rows[x], rows[r])}
NotAfter(S, sort, r) == {x \in S : ~Precedes(sort, rows[r], rows[x])}

\* How many selected rows come before row r.
Rank(r) == Cardinality(Before(Selected(query.selection), SortOf(query), r))

\* The rows that the pages answered so far were to cover.
Passed == Skip(query) + IF Succeeded THEN Take(query) ELSE 0

\* Where the page that listWithPage has read ends.
EndOfPage == Skip(query) + Take(query)

Reading == at \in {"load", "count"}

\* A walk asks for the rows of all scopes, or filters by one.
FiltersScope(q) ==
    LET k == [column |-> "scope", suffix |-> "EQ"]
    IN  \/ q.scope = Scopes
        \/ k \in DOMAIN q.selection.filter /\ q.scope = {q.selection.filter[k]}

IsQuery(q) ==
    /\ q = [joined |-> q.joined, sound |-> q.sound, selection |-> q.selection,
            scope |-> q.scope, pageSize |-> q.pageSize, sort |-> q.sort,
            pageNumber |-> q.pageNumber]
    /\ q.joined \in BOOLEAN
    /\ q.pageSize \in PageSizes
    /\ q.sort \in Seq(SortColumn)
    /\ q.pageNumber \in Nat \ {0}
    /\ FiltersScope(q)

\* A page ends in the answer; no row is listed that the table does not hold.
WalkInv ==
    /\ at # "idle" => IsQuery(query)
    /\ ~Reading => page = <<>>
    /\ at = "idle" => shown = <<>> /\ start = {} /\ writes = "none"
    /\ Seqs!ToSet(page) \subseteq DOMAIN rows
    /\ Seqs!ToSet(shown) \subseteq DOMAIN rows
    /\ start \subseteq DOMAIN rows

\* The ids are those of the rows inserted, one after the other.
IdsInv ==
    /\ DOMAIN rows = 1..Cardinality(DOMAIN rows)
    /\ \A i \in DOMAIN rows : rows[i].id = i

ScopeInv == \A r \in Seqs!ToSet(shown) \cup Seqs!ToSet(page) : rows[r].scope \in query.scope

\* Removals bring rows forward: what a page held stays before its end.
PositionInv ==
    (at # "idle" /\ writes \in {"none", "removes"}) =>
        /\ \A r \in Seqs!ToSet(shown) : Rank(r) < Passed
        /\ Reading => \A r \in Seqs!ToSet(page) : Rank(r) < EndOfPage

RepeatsInv ==
    (at # "idle" /\ NoTies /\ writes \in {"none", "removes"}) =>
        /\ Seqs!IsInjective(shown)
        /\ Seqs!IsInjective(page)
        /\ Seqs!ToSet(shown) \cap Seqs!ToSet(page) = {}

\* Insertions push rows back: what no page held yet stays behind the last one.
MissesInv ==
    (at # "idle" /\ NoTies /\ query.pageSize # Unset /\ writes \in {"none", "inserts"}) =>
        /\ start \subseteq Selected(query.selection)
        /\ Seqs!ToSet(page) \subseteq Selected(query.selection)
        /\ \A r \in start \ Seqs!ToSet(shown) :
                /\ Rank(r) >= Passed
                /\ Reading => r \in Seqs!ToSet(page) \/ Rank(r) >= EndOfPage
        /\ IsLast => start \subseteq Seqs!ToSet(shown)

\* Sorted(s) of the ids s of rows: none comes after one that it precedes.
Sorted(s, sort) == \A m, n \in DOMAIN s : m < n => ~Precedes(sort, rows[s[n]], rows[s[m]])

SortedInv ==
    (at # "idle" /\ writes = "none") =>
        /\ Sorted(shown, query.sort)
        /\ at = "count" => Sorted(page, query.sort)
        /\ \A r \in Seqs!ToSet(page), u \in Seqs!ToSet(shown) :
                ~Precedes(query.sort, rows[r], rows[u])

IInv ==
    /\ TypeOK /\ WalkInv /\ IdsInv
    /\ ScopeInv /\ FailureIsTold
    /\ PositionInv /\ RepeatsInv /\ MissesInv /\ SortedInv

-----------------------------------------------------------------------------
(* Answers and pages *)

\* What is answered holds every row once, in order.
LEMMA AnswersAre ==
    ASSUME NEW S, IsFiniteSet(S), NEW sort, NEW s \in Answers(S, sort)
    PROVE  /\ Cardinality(S) \in Nat /\ s \in Seq(S) /\ Len(s) = Cardinality(S)
           /\ \A i, j \in DOMAIN s : s[i] = s[j] => i = j
           /\ \A r \in S : \E i \in DOMAIN s : s[i] = r
           /\ \A i, j \in DOMAIN s : i < j => ~Precedes(sort, rows[s[j]], rows[s[i]])
<1> DEFINE n == Cardinality(S)
<1>1. n \in Nat
  BY FS_CardinalityType
<1>2. s \in [1..n -> S] /\ \A i, j \in 1..n : i # j => s[i] # s[j]
  <2>1. Seqs!Cardinality(S) = n
    BY DEF Seqs!Cardinality, Cardinality
  <2>2. s \in Seqs!SetToSeqs(S)
    BY DEF Answers
  <2> HIDE DEF n
  <2>3. QED
    BY <2>1, <2>2 DEF Seqs!SetToSeqs
<1>3. IsFiniteSet(1..n) /\ Cardinality(1..n) = n
  <2>1. 1 \in Int /\ n \in Int
    BY <1>1
  <2>2. IsFiniteSet(1..n) /\ Cardinality(1..n) = IF 1 > n THEN 0 ELSE n - 1 + 1
    <3> HIDE DEF n
    <3> QED
      BY <2>1, FS_Interval
  <2>3. QED
    BY <1>1, <2>2
<1>4. s \in Surjection(1..n, S)
  <2>1. s \in Injection(1..n, S)
    BY <1>2 DEF Injection, IsInjective
  <2>2. QED
    BY <1>3, <2>1, FS_Injection
<1>5. \A r \in S : \E i \in 1..n : s[i] = r
  BY <1>4 DEF Surjection
<1>6. s \in Seq(S) /\ Len(s) = n /\ DOMAIN s = 1..n
  <2> HIDE DEF n
  <2> QED
    BY <1>1, <1>2
<1>7. \A i, j \in DOMAIN s : i < j => ~Precedes(sort, rows[s[j]], rows[s[i]])
  BY DEF Answers
<1>8. QED
  BY <1>1, <1>2, <1>5, <1>6, <1>7

\* At place i of an answer, at most i - 1 rows come before.
LEMMA BeforePlace ==
    ASSUME NEW S, IsFiniteSet(S), NEW sort \in Seq(SortColumn),
           \A x \in S : Sortable(rows[x]),
           NEW s \in Answers(S, sort), NEW i \in DOMAIN s
    PROVE  /\ i \in Nat /\ i >= 1
           /\ Cardinality(Before(S, sort, s[i])) \in Nat
           /\ Cardinality(Before(S, sort, s[i])) <= i - 1
<1>1. /\ s \in Seq(S) /\ DOMAIN s = 1..Len(s) /\ Len(s) \in Nat
      /\ \A r \in S : \E j \in DOMAIN s : s[j] = r
      /\ \A j, k \in DOMAIN s : j < k => ~Precedes(sort, rows[s[k]], rows[s[j]])
  BY AnswersAre
<1>2. i \in Nat /\ i >= 1 /\ i - 1 \in Nat /\ i - 1 <= Len(s)
  BY <1>1
<1> DEFINE n == i - 1
           T == {s[j] : j \in 1..n}
           f == [j \in 1..n |-> s[j]]
<1>3. IsFiniteSet(T) /\ Cardinality(T) \in Nat /\ Cardinality(T) <= n
  <2>1. n \in Nat /\ f \in [1..n -> T] /\ T = {f[j] : j \in 1..n}
    BY <1>2
  <2> HIDE DEF n, T, f
  <2>2. QED
    BY <2>1, Prefix
<1>4. Before(S, sort, s[i]) \subseteq T
  <2>1. ASSUME NEW x \in S, Precedes(sort, rows[x], rows[s[i]])
        PROVE  x \in T
    <3>1. PICK j \in DOMAIN s : s[j] = x
      BY <1>1
    <3>2. j # i
      BY <2>1, <3>1, PrecedesIrreflexive
    <3>3. ~(i < j)
      BY <1>1, <2>1, <3>1
    <3>4. j \in 1..n
      BY <1>1, <1>2, <3>2, <3>3
    <3>5. QED
      BY <3>1, <3>4
  <2>2. QED
    BY <2>1 DEF Before
<1>5. QED
  <2> HIDE DEF T
  <2>1. /\ Cardinality(Before(S, sort, s[i])) \in Nat
        /\ Cardinality(Before(S, sort, s[i])) <= Cardinality(T)
    BY <1>3, <1>4, FS_Subset, FS_CardinalityType
  <2>2. QED
    BY <1>2, <1>3, <2>1

\* At place i of an answer, at least i rows do not come after.
LEMMA NotAfterPlace ==
    ASSUME NEW S, IsFiniteSet(S), NEW sort \in Seq(SortColumn),
           \A x \in S : Sortable(rows[x]),
           NEW s \in Answers(S, sort), NEW i \in DOMAIN s
    PROVE  /\ i \in Nat
           /\ IsFiniteSet(NotAfter(S, sort, s[i]))
           /\ Cardinality(NotAfter(S, sort, s[i])) \in Nat
           /\ i <= Cardinality(NotAfter(S, sort, s[i]))
<1>1. /\ s \in Seq(S) /\ DOMAIN s = 1..Len(s) /\ Len(s) \in Nat
      /\ \A j, k \in DOMAIN s : s[j] = s[k] => j = k
      /\ \A j, k \in DOMAIN s : j < k => ~Precedes(sort, rows[s[k]], rows[s[j]])
  BY AnswersAre
<1>2. i \in Nat /\ i >= 1 /\ i <= Len(s)
  BY <1>1
<1> DEFINE T == {s[j] : j \in 1..i}
           f == [j \in 1..i |-> s[j]]
<1>3. Cardinality(T) = i
  <2>1. /\ i \in Nat /\ f \in [1..i -> T] /\ T = {f[j] : j \in 1..i}
        /\ \A j, k \in 1..i : f[j] = f[k] => j = k
    BY <1>1, <1>2
  <2> HIDE DEF T, f
  <2>2. QED
    BY <2>1, Prefix
<1>4. T \subseteq NotAfter(S, sort, s[i])
  <2>1. ASSUME NEW j \in 1..i
        PROVE  s[j] \in NotAfter(S, sort, s[i])
    <3>1. j \in DOMAIN s /\ s[j] \in S /\ (j = i \/ j < i)
      BY <1>1, <1>2
    <3>2. ~Precedes(sort, rows[s[i]], rows[s[j]])
      BY <1>1, <3>1, PrecedesIrreflexive
    <3>3. QED
      BY <3>1, <3>2 DEF NotAfter
  <2>2. QED
    BY <2>1
<1>5. IsFiniteSet(NotAfter(S, sort, s[i])) /\ Cardinality(NotAfter(S, sort, s[i])) \in Nat
  <2>1. NotAfter(S, sort, s[i]) \in SUBSET S
    BY DEF NotAfter
  <2>2. QED
    BY <2>1, FS_Subset, FS_CardinalityType
<1>6. QED
  <2> HIDE DEF T
  <2>1. Cardinality(T) <= Cardinality(NotAfter(S, sort, s[i]))
    BY <1>4, <1>5, FS_Subset
  <2>2. QED
    BY <1>2, <1>3, <1>5, <2>1

\* Where no two rows tie, i - 1 rows come before place i.
LEMMA RankOfPlace ==
    ASSUME IdsInv, NEW S \in SUBSET DOMAIN rows, IsFiniteSet(S), NEW sort \in Seq(SortColumn),
           \A x \in S : Sortable(rows[x]),
           NEW k \in DOMAIN sort, sort[k].column = "id",
           NEW s \in Answers(S, sort), NEW i \in DOMAIN s
    PROVE  i - 1 <= Cardinality(Before(S, sort, s[i]))
<1>1. s[i] \in S
  BY AnswersAre
<1>2. NotAfter(S, sort, s[i]) \subseteq Before(S, sort, s[i]) \cup {s[i]}
  <2>1. ASSUME NEW x \in S, ~Precedes(sort, rows[s[i]], rows[x]), x # s[i]
        PROVE  Precedes(sort, rows[x], rows[s[i]])
    <3>1. rows[x].id = x /\ rows[s[i]].id = s[i]
      BY <1>1 DEF IdsInv
    <3>2. rows[x][sort[k].column] # rows[s[i]][sort[k].column]
      BY <2>1, <3>1
    <3>3. QED
      BY <1>1, <2>1, <3>2, PrecedesTotal
  <2>2. QED
    BY <2>1 DEF NotAfter, Before
<1> DEFINE B == Before(S, sort, s[i])
<1>3. IsFiniteSet(B) /\ Cardinality(B) \in Nat
  <2>1. B \in SUBSET S
    BY DEF Before
  <2>2. QED
    BY <2>1, FS_Subset, FS_CardinalityType
<1>4. IsFiniteSet(B \cup {s[i]}) /\ Cardinality(B \cup {s[i]}) <= Cardinality(B) + 1
      /\ Cardinality(B \cup {s[i]}) \in Nat
  <2> HIDE DEF B
  <2>1. IsFiniteSet(B \cup {s[i]})
        /\ Cardinality(B \cup {s[i]}) = IF s[i] \in B THEN Cardinality(B) ELSE Cardinality(B) + 1
    BY <1>3, FS_AddElement
  <2>2. QED
    BY <1>3, <2>1
<1>5. /\ i \in Nat /\ i <= Cardinality(NotAfter(S, sort, s[i]))
      /\ Cardinality(NotAfter(S, sort, s[i])) \in Nat
  BY NotAfterPlace
<1>6. Cardinality(NotAfter(S, sort, s[i])) <= Cardinality(B \cup {s[i]})
  <2> HIDE DEF B
  <2>1. NotAfter(S, sort, s[i]) \in SUBSET (B \cup {s[i]})
    BY <1>2 DEF B
  <2>2. QED
    BY <1>4, <2>1, FS_Subset
<1>7. i - 1 <= Cardinality(B)
  <2> HIDE DEF B
  <2>1. QED
    BY <1>3, <1>4, <1>5, <1>6
<1>8. QED
  BY <1>7

-----------------------------------------------------------------------------
(* The table and the query of a walk *)

\* The table is finite, and so is what a filter selects of it.
LEMMA SelectedFinite ==
    ASSUME TypeOK, NEW sel
    PROVE  /\ IsFiniteSet(DOMAIN rows)
           /\ Selected(sel) \subseteq DOMAIN rows
           /\ IsFiniteSet(Selected(sel))
           /\ Cardinality(Selected(sel)) \in Nat
           /\ \A i \in DOMAIN rows : rows[i] \in Row /\ Sortable(rows[i])
<1>1. DOMAIN rows \in SUBSET (1..MaxId) /\ \A i \in DOMAIN rows : rows[i] \in Row
  BY DEF TypeOK, IsTable, Ids
<1>2. IsFiniteSet(1..MaxId)
  <2>1. 1 \in Int /\ MaxId \in Int
    BY ColumnsAssumption
  <2>2. QED
    BY <2>1, FS_Interval
<1>3. IsFiniteSet(DOMAIN rows)
  BY <1>1, <1>2, FS_Subset
<1>4. Selected(sel) \in SUBSET DOMAIN rows
  BY DEF Selected
<1>5. QED
  BY <1>1, <1>3, <1>4, FS_Subset, FS_CardinalityType, RowSortable

\* With joins, the order of the ids refines the order asked for.
LEMMA SortOfQuery ==
    ASSUME NEW q, IsQuery(q)
    PROVE  /\ SortOf(q) \in Seq(SortColumn)
           /\ q.sort \in Seq(SortColumn)
           /\ \A a, b : Precedes(q.sort, a, b) => Precedes(SortOf(q), a, b)
           /\ ~q.joined => SortOf(q) = q.sort
           /\ (q.joined \/ \E n \in DOMAIN q.sort : q.sort[n].column = "id")
                => \E n \in DOMAIN SortOf(q) : SortOf(q)[n].column = "id"
<1>1. ById \in SortColumn /\ ById.column = "id"
  BY DEF ById, SortColumn, Columns
<1>2. q.sort \in Seq(SortColumn)
  BY DEF IsQuery
<1>3. CASE q.joined
  <2>1. SortOf(q) = Append(q.sort, ById)
    BY <1>3 DEF SortOf
  <2>2. Append(q.sort, ById) \in Seq(SortColumn)
    BY <1>1, <1>2
  <2>3. Len(q.sort) + 1 \in DOMAIN Append(q.sort, ById)
        /\ Append(q.sort, ById)[Len(q.sort) + 1] = ById
    BY <1>1, <1>2
  <2>4. QED
    BY <1>1, <1>2, <1>3, <2>1, <2>2, <2>3, PrecedesAppend
<1>4. CASE ~q.joined
  BY <1>2, <1>4 DEF SortOf
<1>5. QED
  BY <1>3, <1>4

\* How far a page reaches.
LEMMA PageBounds ==
    ASSUME NEW q, IsQuery(q)
    PROVE  /\ Take(q) \in Nat /\ Skip(q) \in Nat
           /\ q.pageSize # Unset => Take(q) = q.pageSize /\ q.pageSize \in Nat \ {0}
           /\ q.pageNumber = 1 => Skip(q) = 0
<1>1. Take(q) \in Nat /\ (q.pageSize # Unset => Take(q) = q.pageSize /\ q.pageSize \in Nat \ {0})
  <2>1. PAGINATION_PAGE_SIZE \in Nat
        /\ (q.pageSize = Unset \/ q.pageSize \in 1..PAGINATION_PAGE_SIZE)
    BY PageSizesValidated DEF IsQuery
  <2>2. QED
    BY <2>1 DEF Take
<1>2. q.pageNumber \in Nat /\ q.pageNumber - 1 \in Nat
  BY DEF IsQuery
<1>3. \A t, p \in Nat : t * p \in Nat
  OBVIOUS
<1>4. \A t \in Nat : t * (1 - 1) = 0
  OBVIOUS
<1>5. QED
  BY <1>1, <1>2, <1>3, <1>4 DEF Skip

\* The next page begins where this one ends.
LEMMA NextPage ==
    ASSUME NEW q, IsQuery(q)
    PROVE  LET r == [q EXCEPT !.pageNumber = @ + 1]
           IN  /\ IsQuery(r)
               /\ r.joined = q.joined /\ r.sound = q.sound /\ r.selection = q.selection
               /\ r.scope = q.scope /\ r.pageSize = q.pageSize /\ r.sort = q.sort
               /\ Take(r) = Take(q) /\ SortOf(r) = SortOf(q)
               /\ Skip(r) = Skip(q) + Take(q)
<1> DEFINE r == [q EXCEPT !.pageNumber = @ + 1]
<1>1. r = [joined |-> q.joined, sound |-> q.sound, selection |-> q.selection,
           scope |-> q.scope, pageSize |-> q.pageSize, sort |-> q.sort,
           pageNumber |-> q.pageNumber + 1]
  BY DEF IsQuery
<1> HIDE DEF r
<1>2. r.pageNumber = q.pageNumber + 1 /\ r.joined = q.joined /\ r.sound = q.sound
      /\ r.selection = q.selection /\ r.scope = q.scope /\ r.pageSize = q.pageSize
      /\ r.sort = q.sort
  BY <1>1
<1>3. q.pageNumber \in Nat /\ q.pageNumber + 1 \in Nat \ {0}
  BY DEF IsQuery
<1>4. IsQuery(r)
  BY <1>1, <1>2, <1>3 DEF IsQuery, FiltersScope
<1>5. Take(r) = Take(q) /\ SortOf(r) = SortOf(q)
  BY <1>2 DEF Take, SortOf
<1>6. Take(q) \in Nat
  BY PageBounds
<1>7. Skip(r) = Skip(q) + Take(q)
  <2>1. \A t, p \in Nat : t * (p + 1 - 1) = t * (p - 1) + t
    OBVIOUS
  <2>2. QED
    BY <1>2, <1>3, <1>5, <1>6, <2>1 DEF Skip
<1>8. QED
  BY <1>2, <1>4, <1>5, <1>7 DEF r

\* As many pages as Ceil says hold every row.
LEMMA CeilCovers ==
    ASSUME NEW n \in Nat, NEW t \in Nat \ {0}
    PROVE  /\ Ceil(n, t) \in Nat
           /\ \A p \in Nat : p >= Ceil(n, t) => n <= t * p
<1> DEFINE c == (n + t - 1) \div t
<1>1. c \in Int /\ t * c <= n + t - 1 /\ n + t - 1 < t * c + t
  OBVIOUS
<1>2. QED
  BY <1>1 DEF Ceil

-----------------------------------------------------------------------------
(* What a client is told *)

\* A body that says that there is no result, and why.
Told(body) ==
    /\ "success" \in DOMAIN body /\ body.success = FALSE
    /\ body.message # NoText /\ body.meta = NoMeta

\* An answer without a result: an envelope that says so, or the rate limiter's.
Refused(response) ==
    \/ Told(response.body)
    \/ response = TooManyRequests

\* A result with meta arrives as it is.
LEMMA ResultArrives ==
    ASSUME NEW d, NEW m
    PROVE  LET body == ResponseTransformInterceptor([data |-> d, meta |-> m]).body
           IN  "success" \in DOMAIN body /\ body.success = TRUE /\ body.meta = m
<1> DEFINE result == [data |-> d, meta |-> m]
<1>1. "meta" \in DOMAIN result /\ result.data = d /\ result.meta = m
  OBVIOUS
<1>2. ResponseTransformInterceptor(result).body
        = PutAll(defaultPayload, [data |-> d, meta |-> m])
  BY <1>1 DEF ResponseTransformInterceptor
<1>3. /\ "success" \in DOMAIN PutAll(defaultPayload, [data |-> d, meta |-> m])
      /\ PutAll(defaultPayload, [data |-> d, meta |-> m]).success = TRUE
      /\ PutAll(defaultPayload, [data |-> d, meta |-> m]).meta = m
  BY DEF PutAll, defaultPayload
<1>4. QED
  BY <1>2, <1>3

\* An exception with a text is no success, whatever its code.
LEMMA TextIsTold ==
    ASSUME NEW partial, DOMAIN partial \subseteq {"errorCode", "message", "data"},
           "message" \in DOMAIN partial, partial.message # NoText, NEW class
    PROVE  Told(Thrown(HttpException(class, partial)).body)
<1> DEFINE default == DefaultText(class)
           payload == PutAll(defaultPayload, partial)
           b == BaseException(partial, default)
<1>1. /\ DOMAIN payload = {"success", "errorCode", "message", "data", "meta"}
      /\ payload.message = partial.message /\ payload.meta = NoMeta
  BY DEF PutAll, defaultPayload
<1>2. /\ "success" \in DOMAIN b /\ b.success = FALSE /\ b.message = partial.message
      /\ b.meta = NoMeta
  <2>1. b = [payload EXCEPT
                !.success = payload.errorCode = SUCCESS /\ payload.message = NoText,
                !.message = IF @ # NoText THEN @ ELSE getMessageFromCode(payload.errorCode, default)]
    BY DEF BaseException
  <2> HIDE DEF payload, b, default
  <2>2. QED
    BY <1>1, <2>1
<1>3. Thrown(HttpException(class, partial)).body = b
  <2>1. HttpException(class, partial).http = TRUE
        /\ HttpException(class, partial).response = b
    BY DEF HttpException
  <2> HIDE DEF b
  <2>2. QED
    BY <1>2, <2>1 DEF Thrown, HttpExceptionFilter
<1>4. QED
  BY <1>2, <1>3 DEF Told

\* What is thrown that is no HttpException is told with the text of its code.
LEMMA UnknownIsTold ==
    Told(UnknownExceptionsFilter.body)
<1> DEFINE partial == [errorCode |-> SYSTEM_ERROR]
           payload == PutAll(defaultPayload, partial)
           b == BaseException(partial, NoText)
<1>1. /\ DOMAIN payload = {"success", "errorCode", "message", "data", "meta"}
      /\ payload.message = NoText /\ payload.meta = NoMeta /\ payload.errorCode = SYSTEM_ERROR
  BY DEF PutAll, defaultPayload
<1>2. SYSTEM_ERROR # SUCCESS
  BY DEF SYSTEM_ERROR, SUCCESS, Global
<1>3. getMessageFromCode(SYSTEM_ERROR, NoText) # NoText
  BY DEF getMessageFromCode, ALL_MESSAGES, EndsWith, SYSTEM_ERROR, Global, NoText
<1>4. "success" \in DOMAIN b /\ b.success = FALSE /\ b.message # NoText /\ b.meta = NoMeta
  <2>1. b = [payload EXCEPT
                !.success = payload.errorCode = SUCCESS /\ payload.message = NoText,
                !.message = IF @ # NoText THEN @ ELSE getMessageFromCode(payload.errorCode, NoText)]
    BY DEF BaseException
  <2> HIDE DEF payload, b
  <2>2. QED
    BY <1>1, <1>2, <1>3, <2>1
<1>5. DefaultText("BusinessException") = NoText
  BY DEF DefaultText
<1>6. UnknownExceptionsFilter.body = b
  BY <1>5 DEF UnknownExceptionsFilter, HttpException
<1>7. QED
  BY <1>4, <1>6 DEF Told

\* What a request is refused with is told.
LEMMA RefusalIsTold ==
    ASSUME NEW q, NEW exception \in Refusals(q)
    PROVE  Told(Thrown(exception).body)
<1> DEFINE Unverified == [errorCode |-> [module |-> "JWT", number |-> "011G"],
                          message |-> "not verified"]
           Invalid == [errorCode |-> VALIDATION, message |-> VALIDATION.number,
                       data |-> "errors"]
           Missing == [message |-> "Badminton session not found"]
<1>1. \/ exception = HttpException("Unauthorized", Unverified)
      \/ exception = HttpException("BadRequest", Invalid)
      \/ exception = HttpException("NotFound", Missing)
  BY DEF Refusals, ValidationError
<1>2. /\ DOMAIN Unverified = {"errorCode", "message"} /\ Unverified.message # NoText
      /\ DOMAIN Invalid = {"errorCode", "message", "data"} /\ Invalid.message # NoText
      /\ DOMAIN Missing = {"message"} /\ Missing.message # NoText
  BY DEF NoText, VALIDATION, Global
<1> HIDE DEF Unverified, Invalid, Missing
<1>3. CASE exception = HttpException("Unauthorized", Unverified)
  BY <1>2, <1>3, TextIsTold
<1>4. CASE exception = HttpException("BadRequest", Invalid)
  BY <1>2, <1>4, TextIsTold
<1>5. CASE exception = HttpException("NotFound", Missing)
  BY <1>2, <1>5, TextIsTold
<1>6. QED
  BY <1>1, <1>3, <1>4, <1>5

\* And so is a request one of whose queries is rejected, whatever the reason.
LEMMA QueryErrorIsTold ==
    ASSUME NEW alias, NEW code
    PROVE  Told(Thrown(handleDbError(alias, OtherError(code))).body)
<1> DEFINE Partial(number, text) ==
              [errorCode |-> [module |-> alias, number |-> number], message |-> text]
           e == OtherError(code)
           thrown == handleDbError(alias, e)
<1>1. e.http = FALSE /\ e.code = code
  BY DEF OtherError
<1>2. ASSUME NEW number, NEW text, text # NoText
      PROVE  Told(Thrown(HttpException("BadRequest", Partial(number, text))).body)
  <2>1. DOMAIN Partial(number, text) = {"errorCode", "message"}
        /\ Partial(number, text).message = text
    OBVIOUS
  <2> HIDE DEF Partial
  <2>2. QED
    BY <1>2, <2>1, TextIsTold
<1>3. Told(Thrown(e).body)
  BY <1>1, UnknownIsTold DEF Thrown
<1>4. \/ thrown = e
      \/ thrown = HttpException("BadRequest", Partial(DUPLICATE, "detail"))
      \/ thrown = HttpException("BadRequest", Partial(QUERY_DB_ERROR, "syntax"))
      \/ thrown = HttpException("BadRequest", Partial(QUERY_DB_ERROR, "text"))
      \/ thrown = HttpException("BadRequest", Partial(PROTECTED, "protected"))
  <2> HIDE DEF e
  <2>1. QED
    BY <1>1 DEF handleDbError
<1>5. "detail" # NoText /\ "syntax" # NoText /\ "text" # NoText /\ "protected" # NoText
  BY DEF NoText
<1> HIDE DEF Partial, thrown, e
<1>6. Told(Thrown(thrown).body)
  BY <1>2, <1>3, <1>4, <1>5
<1>7. QED
  BY <1>6 DEF thrown, e

-----------------------------------------------------------------------------
(* Types *)

IsRequest(x) ==
    /\ x = [joined |-> x.joined, sound |-> x.sound, selection |-> x.selection, scope |-> x.scope]
    /\ x.joined \in BOOLEAN
    /\ FiltersScope(x)

\* What the controllers make of a request.
LEMMA RequestIs ==
    ASSUME NEW r \in Requests
    PROVE  IsRequest(r)
<1> DEFINE k == [column |-> "scope", suffix |-> "EQ"]
<1>1. ASSUME NEW table, NEW sel, NEW include, NEW scope,
             LET x == ListOf(table, sel, include, scope) IN FiltersScope(x)
      PROVE  IsRequest(ListOf(table, sel, include, scope))
  BY <1>1 DEF ListOf, IsRequest
<1>2. ASSUME NEW table, NEW sel, NEW include
      PROVE  IsRequest(ListOf(table, sel, include, Scopes))
  <2>1. FiltersScope(ListOf(table, sel, include, Scopes))
    BY DEF ListOf, FiltersScope
  <2>2. QED
    BY <1>1, <2>1
<1>3. ASSUME NEW table, NEW sel \in Selections, NEW include, NEW s
      PROVE  IsRequest(ListOf(table, Forced(sel, s), include, {s}))
  <2>1. Forced(sel, s).filter = PutAll(sel.filter, Scoped(s))
    BY SelectionsAssumption DEF Forced
  <2>2. k \in DOMAIN Forced(sel, s).filter /\ Forced(sel, s).filter[k] = s
    BY <2>1 DEF PutAll, Scoped
  <2>3. FiltersScope(ListOf(table, Forced(sel, s), include, {s}))
    <3>1. /\ ListOf(table, Forced(sel, s), include, {s}).scope = {s}
          /\ ListOf(table, Forced(sel, s), include, {s}).selection = Forced(sel, s)
      BY DEF ListOf
    <3> HIDE DEF k
    <3>2. QED
      BY <2>2, <3>1 DEF FiltersScope, k
  <2>4. QED
    BY <1>1, <2>3
<1>4. ASSUME NEW x, IsRequest(x), NEW b
      PROVE  IsRequest([x EXCEPT !.sound = b])
  <2>1. [x EXCEPT !.sound = b] = [joined |-> x.joined, sound |-> b,
                                  selection |-> x.selection, scope |-> x.scope]
    BY <1>4 DEF IsRequest
  <2>2. QED
    BY <1>4, <2>1 DEF FiltersScope, IsRequest
<1>5. CASE r \in QueryUserDto
  <2>1. PICK sel \in Selections, inc \in Includes : r = ListUsers(sel, inc)
    BY <1>5 DEF QueryUserDto
  <2>2. IsRequest(ListOf("users", sel, <<>>, Scopes))
    BY <1>2
  <2>3. QED
    BY <1>4, <2>1, <2>2 DEF ListUsers
<1>6. CASE r \in QueryBadmintonSessionDto
  <2>1. PICK sel \in Selections, inc \in Includes, type \in {"ALL", "ORGANIZED"}, s \in Scopes :
            r = ListSessions(sel, inc, type, s)
    BY <1>6 DEF QueryBadmintonSessionDto
  <2>2. IsRequest(ListOf("sessions", sel, inc, Scopes))
    BY <1>2
  <2>3. IsRequest(ListOf("sessions", Forced(sel, s), inc, {s}))
    BY <1>3
  <2>4. QED
    BY <2>1, <2>2, <2>3 DEF ListSessions
<1>7. CASE r \in QueryMatchDto
  <2>1. PICK sel \in Selections, inc \in Includes, s \in Scopes : r = ListMatches(sel, inc, s)
    BY <1>7 DEF QueryMatchDto
  <2>2. IsRequest(ListOf("matches", Forced(sel, s), inc, {s}))
    BY <1>3
  <2>3. QED
    BY <2>1, <2>2 DEF ListMatches
<1>8. CASE r \in QueryMemberDto
  <2>1. PICK sel \in Selections, inc \in Includes, s \in Scopes : r = ListMembers(sel, inc, s)
    BY <1>8 DEF QueryMemberDto
  <2>2. IsRequest(ListOf("members", Forced(sel, s), inc, {s}))
    BY <1>3
  <2>3. QED
    BY <1>4, <2>1, <2>2 DEF ListMembers
<1>9. CASE r \in QueryRequestDto
  <2>1. PICK sel \in Selections, inc \in Includes, s \in Scopes : r = ListRequests(sel, inc, s)
    BY <1>9 DEF QueryRequestDto
  <2>2. IsRequest(ListOf("requests", Forced(sel, s), inc, {s}))
    BY <1>3
  <2>3. QED
    BY <2>1, <2>2 DEF ListRequests
<1>10. CASE r \in QueryDto
  <2>1. PICK sel \in Selections, inc \in Includes, s \in Scopes : r = ListHistories(sel, inc, s)
    BY <1>10 DEF QueryDto
  <2>2. IsRequest(ListOf("histories", Forced(sel, s), inc, {s}))
    BY <1>3
  <2>3. QED
    BY <2>1, <2>2 DEF ListHistories
<1>11. QED
  BY <1>5, <1>6, <1>7, <1>8, <1>9, <1>10 DEF Requests

\* One direction for each column leaves columns and directions.
LEMMA OrderBysTyped ==
    ASSUME NEW sort \in Seq(SortColumn)
    PROVE  OrderBys(sort) \in Seq(SortColumn)
<1> DEFINE entry(n) == [sort[n] EXCEPT !.desc = Descends(sort, sort[n].column)]
<1>1. \A n \in DOMAIN sort : entry(n) \in SortColumn
  <2>1. \A n \in DOMAIN sort : sort[n] \in SortColumn
    OBVIOUS
  <2>2. \A column : Descends(sort, column) \in BOOLEAN
    BY DEF Descends
  <2>3. QED
    BY <2>1, <2>2 DEF SortColumn
<1>2. OrderBys(sort) = [n \in 1..Len(sort) |-> entry(n)] /\ DOMAIN sort = 1..Len(sort)
  BY DEF OrderBys
<1> HIDE DEF entry
<1>3. QED
  BY <1>1, <1>2

\* The first page is asked for with what the controllers make of the request.
LEMMA AskedQuery ==
    ASSUME NEW r \in Requests, NEW n \in PageSizes, NEW s \in Sorts
    PROVE  LET q == PutAll(r, [pageSize |-> n, sort |-> OrderBys(s), pageNumber |-> 1])
           IN  IsQuery(q) /\ q.selection = r.selection /\ q.pageNumber = 1
<1>0. PICK b : b = OrderBys(s)
  OBVIOUS
<1> DEFINE q == PutAll(r, [pageSize |-> n, sort |-> b, pageNumber |-> 1])
<1>1. q = [joined |-> r.joined, sound |-> r.sound, selection |-> r.selection,
           scope |-> r.scope, pageSize |-> n, sort |-> b, pageNumber |-> 1]
  <2>1. PICK j, o, l, c : r = [joined |-> j, sound |-> o, selection |-> l, scope |-> c]
    BY RequestIs DEF IsRequest
  <2>2. DOMAIN r = {"joined", "sound", "selection", "scope"}
        /\ r.joined = j /\ r.sound = o /\ r.selection = l /\ r.scope = c
    BY <2>1
  <2>3. q = [joined |-> j, sound |-> o, selection |-> l, scope |-> c,
             pageSize |-> n, sort |-> b, pageNumber |-> 1]
    BY <2>1 DEF PutAll
  <2>4. QED
    BY <2>2, <2>3
<1> HIDE DEF q
<1>2. b \in Seq(SortColumn)
  BY <1>0, SortsAssumption, OrderBysTyped DEF SortColumn
<1>3. q.joined = r.joined /\ q.sound = r.sound /\ q.selection = r.selection
      /\ q.scope = r.scope /\ q.pageSize = n /\ q.sort = b /\ q.pageNumber = 1
  BY <1>1
<1>4. r.joined \in BOOLEAN /\ FiltersScope(r)
  BY RequestIs DEF IsRequest
<1>5. FiltersScope(q)
  BY <1>3, <1>4 DEF FiltersScope
<1>6. IsQuery(q)
  BY <1>1, <1>2, <1>3, <1>4, <1>5 DEF IsQuery
<1>7. QED
  BY <1>0, <1>3, <1>6 DEF q

\* The page that FindPage reads: the places from Skip on, of one answer.
LEMMA PageFound ==
    ASSUME TypeOK, WalkInv, FindPage
    PROVE  \E s \in Answers(Selected(query.selection), SortOf(query)) :
             /\ page' \in Seq(Selected(query.selection))
             /\ Len(page') <= Take(query)
             /\ \A i \in DOMAIN page' :
                    i \in Nat /\ Skip(query) + i \in DOMAIN s /\ page'[i] = s[Skip(query) + i]
             /\ Seqs!ToSet(page') =
                    {s[j] : j \in {k \in DOMAIN s : Skip(query) < k /\ k <= EndOfPage}}
             /\ \A i, j \in DOMAIN page' : page'[i] = page'[j] => i = j
<1> DEFINE S == Selected(query.selection)
           a == Skip(query)
           b == Take(query)
<1>1. IsQuery(query)
  BY DEF FindPage, WalkInv
<1>2. a \in Nat /\ b \in Nat
  BY <1>1, PageBounds
<1>3. PICK s \in Answers(S, SortOf(query)) : page' = Slice(s, query)
  BY DEF FindPage, SortOf
<1>4. IsFiniteSet(S)
  BY SelectedFinite
<1>5. s \in Seq(S) /\ DOMAIN s = 1..Len(s) /\ Len(s) \in Nat
      /\ \A i, j \in DOMAIN s : s[i] = s[j] => i = j
  <2> HIDE DEF S
  <2>1. s \in Seq(S) /\ \A i, j \in DOMAIN s : s[i] = s[j] => i = j
    BY <1>4, AnswersAre
  <2>2. QED
    BY <2>1
<1>6. page' = UpTo(s, a + 1, a + b)
  BY <1>3 DEF Slice
<1> HIDE DEF S, a, b
<1>7. /\ page' \in Seq(S) /\ Len(page') <= b
      /\ \A i \in DOMAIN page' : a + i \in DOMAIN s /\ page'[i] = s[a + i]
      /\ \A j \in DOMAIN s : (a < j /\ j <= a + b) => j - a \in DOMAIN page' /\ page'[j - a] = s[j]
  <2>1. PICK x, y, t, T :
            x \in Nat /\ y \in Nat /\ t = UpTo(s, x + 1, x + y) /\ x = a /\ y = b /\ T = S
    BY <1>2
  <2>2. s \in Seq(T)
    BY <1>5, <2>1
  <2>3. /\ t \in Seq(T) /\ Len(t) <= y
        /\ \A i \in DOMAIN t : x + i \in DOMAIN s /\ t[i] = s[x + i]
        /\ \A j \in DOMAIN s : (x < j /\ j <= x + y) => j - x \in DOMAIN t /\ t[j - x] = s[j]
    BY <2>1, <2>2 DEF UpTo
  <2>4. QED
    BY <1>6, <2>1, <2>3
<1>8. DOMAIN page' = 1..Len(page') /\ Len(page') \in Nat
  BY <1>7
<1>9. \A i, j \in DOMAIN page' : page'[i] = page'[j] => i = j
  <2>1. ASSUME NEW i \in DOMAIN page', NEW j \in DOMAIN page', page'[i] = page'[j]
        PROVE  i = j
    <3>1. a + i = a + j
      BY <1>5, <1>7, <2>1
    <3>2. QED
      BY <1>2, <1>8, <3>1
  <2>2. QED
    BY <2>1
<1>10. Seqs!ToSet(page') = {s[j] : j \in {k \in DOMAIN s : a < k /\ k <= a + b}}
  <2>1. ASSUME NEW i \in DOMAIN page'
        PROVE  a + i \in DOMAIN s /\ a < a + i /\ a + i <= a + b /\ page'[i] = s[a + i]
    BY <1>2, <1>7, <1>8
  <2>2. ASSUME NEW j \in DOMAIN s, a < j, j <= a + b
        PROVE  j - a \in DOMAIN page' /\ s[j] = page'[j - a]
    BY <1>7, <2>2
  <2>3. QED
    BY <2>1, <2>2 DEF Seqs!ToSet
<1>11. QED
  BY <1>3, <1>7, <1>8, <1>9, <1>10 DEF S, a, b, EndOfPage

\* The page that LoadPage reads: what is left of the ids, in order.
LEMMA PageLoaded ==
    ASSUME TypeOK, WalkInv, LoadPage
    PROVE  /\ page' \in Seq(Selected(query.selection))
           /\ Len(page') <= Len(page)
           /\ Seqs!ToSet(page') = Selected(query.selection) \cap Seqs!ToSet(page)
           /\ \A i, j \in DOMAIN page' : page'[i] = page'[j] => i = j
           /\ \A i, j \in DOMAIN page' :
                    i < j => ~Precedes(query.sort, rows[page'[j]], rows[page'[i]])
<1> DEFINE S == Selected(query.selection)
           T == Seqs!ToSet(page)
<1>1. IsFiniteSet(S)
  BY SelectedFinite
<1>2. IsFiniteSet(T) /\ Cardinality(T) \in Nat /\ Cardinality(T) <= Len(page)
  <2> DEFINE n == Len(page)
             f == [i \in 1..n |-> page[i]]
  <2>1. page \in Seq(Ids)
    BY DEF TypeOK
  <2>2. n \in Nat /\ f \in [1..n -> T] /\ T = {f[i] : i \in 1..n}
    BY <2>1 DEF Seqs!ToSet
  <2> HIDE DEF n, f, T
  <2>3. IsFiniteSet(T) /\ Cardinality(T) \in Nat /\ Cardinality(T) <= n
    BY <2>2, Prefix
  <2>4. QED
    BY <2>3 DEF n
<1>3. IsFiniteSet(S \cap T) /\ Cardinality(S \cap T) <= Cardinality(T)
      /\ Cardinality(S \cap T) \in Nat
  <2> HIDE DEF S, T
  <2>1. S \cap T \in SUBSET T
    OBVIOUS
  <2>2. QED
    BY <1>2, <2>1, FS_Subset, FS_CardinalityType
<1>4. page' \in Answers(S \cap T, query.sort)
  BY DEF LoadPage
<1>5. /\ page' \in Seq(S \cap T) /\ Len(page') = Cardinality(S \cap T)
      /\ \A i, j \in DOMAIN page' : page'[i] = page'[j] => i = j
      /\ \A r \in S \cap T : \E i \in DOMAIN page' : page'[i] = r
      /\ \A i, j \in DOMAIN page' :
            i < j => ~Precedes(query.sort, rows[page'[j]], rows[page'[i]])
  <2> HIDE DEF S, T
  <2>1. QED
    BY <1>3, <1>4, AnswersAre
<1> HIDE DEF S, T
<1>6. Len(page') <= Len(page)
  <2>1. Len(page) \in Nat
    BY DEF TypeOK
  <2>2. QED
    BY <1>2, <1>3, <1>5, <2>1
<1>7. page' \in Seq(S) /\ Seqs!ToSet(page') = S \cap T
  <2>1. PICK t, U : t = page' /\ U = S \cap T
    OBVIOUS
  <2>2. t \in Seq(U) /\ \A r \in U : \E i \in DOMAIN t : t[i] = r
    BY <1>5, <2>1
  <2>3. DOMAIN t = 1..Len(t) /\ Len(t) \in Nat /\ \A i \in DOMAIN t : t[i] \in U
    BY <2>2
  <2>4. Seqs!ToSet(t) = U
    BY <2>2, <2>3 DEF Seqs!ToSet
  <2>5. t \in Seq(S)
    BY <2>1, <2>2, <2>3
  <2>6. QED
    BY <2>1, <2>4, <2>5
<1>8. QED
  BY <1>5, <1>6, <1>7 DEF S, T

\* A page that is counted is answered as a success, with the number of pages.
LEMMA CountTells ==
    ASSUME TypeOK, WalkInv, CountRows
    PROVE  /\ at' = "answered" /\ Enveloped(answer)' /\ answer'.body.success = TRUE
           /\ Succeeded' /\ "totalPages" \in DOMAIN answer'.body.meta
           /\ TotalPages' = Pages(Cardinality(Selected(query.selection)), query)
           /\ TotalPages' \in Nat \cup {NaN}
<1> DEFINE n == Cardinality(Selected(query.selection))
           m == [totalPages |-> Pages(n, query), currentPage |-> query.pageNumber]
<1>1. IsQuery(query)
  BY DEF CountRows, WalkInv
<1>2. at' = "answered" /\ answer' = ResponseTransformInterceptor([data |-> page, meta |-> m])
  BY DEF CountRows, Answered
<1> HIDE DEF m
<1>3. Enveloped(answer)' /\ answer'.body.success = TRUE /\ answer'.body.meta = m
  BY <1>2, ResultArrives DEF Enveloped
<1>4. "totalPages" \in DOMAIN m /\ m.totalPages = Pages(n, query)
  BY DEF m
<1>5. Pages(n, query) \in Nat \cup {NaN}
  <2>1. n \in Nat
    BY SelectedFinite
  <2> HIDE DEF n
  <2>2. query.pageSize # Unset => query.pageSize \in Nat \ {0}
    BY <1>1, PageBounds
  <2>3. QED
    BY <2>1, <2>2, CeilCovers DEF Pages
<1>6. QED
  BY <1>2, <1>3, <1>4, <1>5 DEF TotalPages, Succeeded

\* Neither an envelope that tells of a failure nor the rate limiter's text
\* passes for a success.
LEMMA RefusedFails == Refused(answer') => ~Succeeded'
<1>1. "success" \notin DOMAIN TooManyRequests.body
  BY DEF TooManyRequests, EmptyTable
<1>2. QED
  BY <1>1 DEF Refused, Told, Succeeded, Enveloped

\* A request that fails is answered so, and nothing else changes.
LEMMA FailureTells ==
    ASSUME Refuse \/ QueryFails
    PROVE  /\ at' = "answered" /\ page' = <<>> /\ Refused(answer') /\ ~Succeeded'
           /\ at \notin {"idle", "answered"}
           /\ UNCHANGED <<rows, query, shown, start, writes>>
<1>1. CASE Refuse
  <2>1. \/ Answered(TooManyRequests)
        \/ \E exception \in Refusals(query) : Answered(Thrown(exception))
    BY <1>1 DEF Refuse
  <2>2. Refused(answer')
    BY <2>1, RefusalIsTold DEF Answered, Refused
  <2>3. ~Succeeded'
    BY <2>2, RefusedFails
  <2>4. QED
    BY <1>1, <2>1, <2>2, <2>3 DEF Refuse, Answered
<1>2. CASE QueryFails
  <2>1. PICK code \in ErrorCodes : Answered(Thrown(handleDbError("LIST", OtherError(code))))
    BY <1>2 DEF QueryFails
  <2>2. Told(Thrown(handleDbError("LIST", OtherError(code))).body)
    BY QueryErrorIsTold
  <2>3. Refused(answer')
    BY <2>1, <2>2 DEF Answered, Refused
  <2>4. ~Succeeded'
    BY <2>3, RefusedFails
  <2>5. QED
    BY <1>2, <2>1, <2>3, <2>4 DEF QueryFails, Answered
<1>3. QED
  BY <1>1, <1>2

\* What two lists show is what they show together.
LEMMA ShownTogether ==
    ASSUME NEW S, NEW s \in Seq(S), NEW t \in Seq(S)
    PROVE  /\ s \o t \in Seq(S)
           /\ Seqs!ToSet(s \o t) = Seqs!ToSet(s) \cup Seqs!ToSet(t)
<1>1. /\ s \o t \in Seq(S)
      /\ DOMAIN (s \o t) = 1..(Len(s) + Len(t)) /\ Len(s) \in Nat /\ Len(t) \in Nat
      /\ DOMAIN s = 1..Len(s) /\ DOMAIN t = 1..Len(t)
      /\ \A i \in 1..(Len(s) + Len(t)) :
            (s \o t)[i] = IF i <= Len(s) THEN s[i] ELSE t[i - Len(s)]
  OBVIOUS
<1>2. ASSUME NEW i \in DOMAIN (s \o t)
      PROVE  (s \o t)[i] \in Seqs!ToSet(s) \cup Seqs!ToSet(t)
  <2>1. CASE i <= Len(s)
    BY <1>1, <2>1 DEF Seqs!ToSet
  <2>2. CASE ~(i <= Len(s))
    <3>1. i - Len(s) \in DOMAIN t /\ (s \o t)[i] = t[i - Len(s)]
      BY <1>1, <2>2
    <3>2. QED
      BY <3>1 DEF Seqs!ToSet
  <2>3. QED
    BY <2>1, <2>2
<1>3. ASSUME NEW i \in DOMAIN s
      PROVE  i \in DOMAIN (s \o t) /\ (s \o t)[i] = s[i]
  BY <1>1
<1>4. ASSUME NEW i \in DOMAIN t
      PROVE  Len(s) + i \in DOMAIN (s \o t) /\ (s \o t)[Len(s) + i] = t[i]
  BY <1>1
<1>5. Seqs!ToSet(s) \subseteq Seqs!ToSet(s \o t)
  BY <1>3 DEF Seqs!ToSet
<1>6. Seqs!ToSet(t) \subseteq Seqs!ToSet(s \o t)
  BY <1>4 DEF Seqs!ToSet
<1>7. Seqs!ToSet(s \o t) \subseteq Seqs!ToSet(s) \cup Seqs!ToSet(t)
  <2>1. Seqs!ToSet(s \o t) = {(s \o t)[i] : i \in DOMAIN (s \o t)}
    BY DEF Seqs!ToSet
  <2>2. QED
    BY <1>2, <2>1
<1>8. QED
  BY <1>1, <1>5, <1>6, <1>7

\* A sequence shows what it is a sequence of.
LEMMA ShownIn ==
    /\ Seqs!ToSet(<<>>) = {}
    /\ \A S : \A s \in Seq(S) : Seqs!ToSet(s) \subseteq S
BY DEF Seqs!ToSet

Base == TypeOK /\ WalkInv /\ IdsInv /\ FailureIsTold

LEMMA TypesInit ==
    Init => Base
<1> SUFFICES ASSUME Init PROVE Base
  OBVIOUS
<1>1. TypeOK
  BY DEF Init, TypeOK, IsTable, EmptyTable
<1>2. WalkInv
  BY ShownIn DEF Init, WalkInv, Reading
<1>3. IdsInv
  <2>1. DOMAIN rows = {}
    BY DEF Init, EmptyTable
  <2>2. Cardinality({}) = 0 /\ 1..0 = {}
    BY FS_EmptySet
  <2>3. QED
    BY <2>1, <2>2 DEF IdsInv
<1>4. FailureIsTold
  BY DEF Init, FailureIsTold
<1>5. QED
  BY <1>1, <1>2, <1>3, <1>4 DEF Base

\* An answer without a result has no number of pages, and tells of the failure.
LEMMA RefusedTypes ==
    ASSUME Refused(answer')
    PROVE  /\ Enveloped(answer)' => answer'.body.success \in BOOLEAN /\ TotalPages' = NaN
           /\ FailureIsTold'
<1>1. CASE Told(answer'.body)
  <2>1. "totalPages" \notin DOMAIN answer'.body.meta
    BY <1>1 DEF Told, NoMeta, EmptyTable
  <2>2. QED
    BY <1>1, <2>1 DEF Told, TotalPages, FailureIsTold, Enveloped
<1>2. CASE answer' = TooManyRequests
  <2>1. "success" \notin DOMAIN answer'.body /\ answer'.status # 200
    BY <1>2 DEF TooManyRequests, EmptyTable
  <2>2. QED
    BY <2>1 DEF FailureIsTold, Enveloped
<1>3. QED
  BY <1>1, <1>2 DEF Refused

\* The parts of Base that are about rows alone.
LEMMA RowsStay ==
    ASSUME Base, UNCHANGED rows
    PROVE  IsTable(rows, Ids, Row)' /\ IdsInv'
BY DEF Base, TypeOK, IsTable, IdsInv

LEMMA AskTypes ==
    ASSUME Base, NEW r \in Requests, NEW n \in PageSizes, NEW s \in Sorts, Ask(r, n, s)
    PROVE  Base'
<1>1. IsTable(rows, Ids, Row)' /\ IdsInv'
  BY RowsStay DEF Ask
<1>2. IsQuery(query') /\ Take(query') \in Nat
  <2>1. IsQuery(query')
    BY AskedQuery DEF Ask
  <2>2. QED
    BY <2>1, PageBounds
<1>3. at' = "page" /\ page' = <<>> /\ shown' = <<>> /\ writes' = "none" /\ rows' = rows
  BY DEF Ask
<1>4. start' \subseteq DOMAIN rows /\ DOMAIN rows \subseteq Ids
  BY DEF Ask, Selected, Base, TypeOK, IsTable
<1>5. TypeOK'
  <2>1. Len(page') <= Take(query')
    BY <1>2, <1>3
  <2>2. QED
    BY <1>1, <1>3, <1>4, <2>1 DEF TypeOK
<1>6. WalkInv'
  BY <1>2, <1>3, <1>4, ShownIn DEF WalkInv, Reading
<1>7. FailureIsTold'
  BY <1>3 DEF FailureIsTold
<1>8. QED
  BY <1>1, <1>5, <1>6, <1>7 DEF Base

\* The queries of a page.
LEMMA ReadTypes ==
    ASSUME Base, FindPage \/ LoadPage
    PROVE  Base'
<1>1. /\ UNCHANGED <<rows, query, answer, shown, start, writes>>
      /\ at \in {"page", "load"} /\ at' \in {"load", "count"}
  BY DEF FindPage, LoadPage
<1>2. IsTable(rows, Ids, Row)' /\ IdsInv'
  BY <1>1, RowsStay
<1>3. page' \in Seq(Selected(query.selection)) /\ Len(page') <= Take(query)
  <2>1. CASE FindPage
    BY <2>1, PageFound DEF Base
  <2>2. CASE LoadPage
    <3>1. page' \in Seq(Selected(query.selection)) /\ Len(page') <= Len(page)
      BY <2>2, PageLoaded DEF Base
    <3>2. Len(page) <= Take(query) /\ page \in Seq(Ids)
      BY <2>2 DEF Base, TypeOK, LoadPage
    <3>3. Take(query) \in Nat
      BY <1>1, PageBounds DEF Base, WalkInv
    <3>4. Len(page) \in Nat /\ Len(page') \in Nat
      BY <3>1, <3>2
    <3>5. QED
      BY <3>1, <3>2, <3>3, <3>4
  <2>3. QED
    BY <2>1, <2>2
<1>4. Seqs!ToSet(page') \subseteq DOMAIN rows /\ page' \in Seq(Ids)
  <2>1. Selected(query.selection) \subseteq DOMAIN rows /\ DOMAIN rows \subseteq Ids
    BY DEF Selected, Base, TypeOK, IsTable
  <2>2. page' \in Seq(Ids)
    BY <1>3, <2>1
  <2>3. Seqs!ToSet(page') \subseteq Selected(query.selection)
    BY <1>3, ShownIn
  <2>4. QED
    BY <2>1, <2>2, <2>3
<1>5. TypeOK'
  <2>1. shown' \in Seq(Ids) /\ start' \subseteq Ids
        /\ writes' \in {"none", "inserts", "removes", "mixed"}
    BY <1>1 DEF Base, TypeOK
  <2>2. Len(page') <= Take(query')
    BY <1>1, <1>3
  <2>3. QED
    BY <1>1, <1>2, <1>4, <2>1, <2>2 DEF TypeOK
<1>6. WalkInv'
  BY <1>1, <1>4 DEF Base, WalkInv, Reading
<1>7. FailureIsTold'
  BY <1>1 DEF FailureIsTold
<1>8. QED
  BY <1>2, <1>5, <1>6, <1>7 DEF Base

LEMMA CountTypes ==
    ASSUME Base, CountRows
    PROVE  Base'
<1>1. /\ UNCHANGED <<rows, query, start, writes>> /\ at = "count" /\ at' = "answered"
      /\ page' = <<>> /\ shown' = shown \o page
  BY DEF CountRows, Answered
<1>2. IsTable(rows, Ids, Row)' /\ IdsInv'
  BY <1>1, RowsStay
<1>3. IsQuery(query') /\ Take(query') \in Nat
  <2>1. IsQuery(query)
    BY <1>1 DEF Base, WalkInv
  <2>2. QED
    BY <1>1, <2>1, PageBounds
<1>4. /\ answer'.body.success = TRUE /\ Succeeded'
      /\ "totalPages" \in DOMAIN answer'.body.meta /\ TotalPages' \in Nat \cup {NaN}
  BY CountTells DEF Base
<1>5. shown \in Seq(Ids) /\ page \in Seq(Ids)
  BY DEF Base, TypeOK
<1>6. shown' \in Seq(Ids) /\ Seqs!ToSet(shown') = Seqs!ToSet(shown) \cup Seqs!ToSet(page)
  BY <1>1, <1>5, ShownTogether
<1>7. TypeOK'
  <2>1. start' \subseteq Ids /\ writes' \in {"none", "inserts", "removes", "mixed"}
    BY <1>1 DEF Base, TypeOK
  <2>2. page' \in Seq(Ids) /\ Len(page') <= Take(query')
    BY <1>1, <1>3
  <2>3. QED
    BY <1>1, <1>2, <1>4, <1>6, <2>1, <2>2 DEF TypeOK
<1>8. WalkInv'
  BY <1>1, <1>3, <1>6, ShownIn DEF Base, WalkInv, Reading
<1>9. FailureIsTold'
  BY <1>1, <1>4 DEF FailureIsTold
<1>10. QED
  BY <1>2, <1>7, <1>8, <1>9 DEF Base

LEMMA FailTypes ==
    ASSUME Base, Refuse \/ QueryFails
    PROVE  Base'
<1>1. /\ at' = "answered" /\ page' = <<>> /\ Refused(answer') /\ at \notin {"idle", "answered"}
      /\ UNCHANGED <<rows, query, shown, start, writes>>
  BY FailureTells
<1>2. IsTable(rows, Ids, Row)' /\ IdsInv'
  BY <1>1, RowsStay
<1>3. IsQuery(query') /\ Take(query') \in Nat
  <2>1. IsQuery(query)
    BY <1>1 DEF Base, WalkInv
  <2>2. QED
    BY <1>1, <2>1, PageBounds
<1>4. Enveloped(answer)' => answer'.body.success \in BOOLEAN /\ TotalPages' = NaN
  BY <1>1, RefusedTypes
<1>5. TypeOK'
  <2>1. shown' \in Seq(Ids) /\ start' \subseteq Ids
        /\ writes' \in {"none", "inserts", "removes", "mixed"}
    BY <1>1 DEF Base, TypeOK
  <2>2. page' \in Seq(Ids) /\ Len(page') <= Take(query')
    BY <1>1, <1>3
  <2>3. QED
    BY <1>1, <1>2, <1>4, <2>1, <2>2 DEF TypeOK
<1>6. WalkInv'
  BY <1>1, <1>3, ShownIn DEF Base, WalkInv, Reading
<1>7. FailureIsTold'
  BY <1>1, RefusedTypes
<1>8. QED
  BY <1>2, <1>5, <1>6, <1>7 DEF Base

\* The client asks for the next page, asks again or leaves.
LEMMA ClientTypes ==
    ASSUME Base, AskNext \/ AskAgain \/ Leave
    PROVE  Base'
<1>1. rows' = rows /\ at # "idle" /\ at' \in {"page", "idle"}
  BY DEF AskNext, AskAgain, Leave, Succeeded
<1>2. IsTable(rows, Ids, Row)' /\ IdsInv'
  BY <1>1, RowsStay
<1>3. page' = <<>>
  BY DEF AskNext, AskAgain, Leave, Base, WalkInv, Reading, Succeeded
<1>4. at' = "page" => /\ UNCHANGED <<shown, start, writes>>
                      /\ IsQuery(query') /\ Take(query') \in Nat
  <2>1. IsQuery(query)
    BY <1>1 DEF Base, WalkInv
  <2>2. CASE AskNext
    <3>1. IsQuery(query')
      BY <2>1, <2>2, NextPage DEF AskNext
    <3>2. QED
      BY <2>2, <3>1, PageBounds DEF AskNext
  <2>3. CASE AskAgain
    BY <2>1, <2>3, PageBounds DEF AskAgain
  <2>4. CASE Leave
    BY <2>4 DEF Leave
  <2>5. QED
    BY <2>2, <2>3, <2>4
<1>5. at' = "idle" => shown' = <<>> /\ start' = {} /\ writes' = "none"
  BY DEF AskNext, AskAgain, Leave
<1>6. TypeOK'
  <2>1. shown' \in Seq(Ids) /\ start' \subseteq Ids
        /\ writes' \in {"none", "inserts", "removes", "mixed"}
    <3>1. CASE at' = "page"
      BY <1>4, <3>1 DEF Base, TypeOK
    <3>2. CASE at' = "idle"
      BY <1>5, <3>2
    <3>3. QED
      BY <1>1, <3>1, <3>2
  <2>2. page' \in Seq(Ids) /\ (at' # "idle" => Len(page') <= Take(query'))
    BY <1>1, <1>3, <1>4
  <2>3. QED
    BY <1>1, <1>2, <2>1, <2>2 DEF TypeOK
<1>7. WalkInv'
  BY <1>1, <1>3, <1>4, <1>5, ShownIn DEF Base, WalkInv, Reading
<1>8. FailureIsTold'
  BY <1>1 DEF FailureIsTold
<1>9. QED
  BY <1>2, <1>6, <1>7, <1>8 DEF Base

\* What a write leaves of the table: the rows are in place, and only the columns
\* live and key of a row may change.
Written ==
    /\ UNCHANGED walk
    /\ DOMAIN rows \subseteq DOMAIN rows'
    /\ \A i \in DOMAIN rows : rows'[i].id = rows[i].id /\ rows'[i].scope = rows[i].scope
    /\ at = "idle" => writes' = "none"

\* The id of an inserted row is the next one.
LEMMA InsertWrites ==
    ASSUME Base, NEW k \in Keys, NEW s \in Scopes, Insert(k, s)
    PROVE  /\ Written /\ IsTable(rows, Ids, Row)' /\ IdsInv'
           /\ \A i \in DOMAIN rows : rows'[i] = rows[i]
           /\ writes' \in {"none", "inserts", "mixed"}
           /\ writes' = "none" => at = "idle"
           /\ writes' = "inserts" => writes \in {"none", "inserts"}
<1> DEFINE n == Cardinality(DOMAIN rows)
           i == n + 1
           row == [id |-> i, key |-> k, scope |-> s, live |-> TRUE]
<1>1. n \in Nat
  BY SelectedFinite, FS_CardinalityType DEF Base
<1>2. /\ DOMAIN rows = 1..n /\ \A x \in DOMAIN rows : rows[x].id = x
      /\ IsTable(rows, Ids, Row)
  BY DEF Base, IdsInv, TypeOK
<1>3. i \in Ids /\ rows' = Put(rows, i, row) /\ UNCHANGED walk
  BY DEF Insert
<1>4. row \in Row
  BY <1>3 DEF Row
<1> HIDE DEF n
<1>5. i \notin DOMAIN rows /\ DOMAIN rows' = 1..i /\ rows'[i] = row /\ row.id = i
      /\ \A x \in DOMAIN rows : rows'[x] = rows[x]
  <2>1. DOMAIN rows \cup {i} = 1..i /\ i \notin DOMAIN rows
    BY <1>1, <1>2
  <2>2. row.id = i
    OBVIOUS
  <2> HIDE DEF i, row
  <2>3. QED
    BY <1>3, <2>1, <2>2 DEF Put
<1>6. IsTable(rows', Ids, Row)
  <2> HIDE DEF i, row
  <2>1. QED
    BY <1>2, <1>3, <1>4 DEF Put, IsTable
<1>7. IdsInv'
  <2>1. Cardinality(1..i) = i
    <3>1. 1 \in Int /\ i \in Int /\ i >= 1
      BY <1>1
    <3>2. Cardinality(1..i) = IF 1 > i THEN 0 ELSE i - 1 + 1
      <4> HIDE DEF i
      <4>1. QED
        BY <3>1, FS_Interval
    <3>3. QED
      BY <3>1, <3>2
  <2>2. \A x \in 1..i : x = i \/ x \in DOMAIN rows
    BY <1>1, <1>2
  <2> HIDE DEF i, row
  <2>3. QED
    BY <1>2, <1>5, <2>1, <2>2 DEF IdsInv
<1>8. /\ writes' \in {"none", "inserts", "mixed"}
      /\ writes' = "none" => at = "idle"
      /\ writes' = "inserts" => writes \in {"none", "inserts"}
      /\ at = "idle" => writes' = "none"
  BY DEF Insert, Note
<1>9. Written
  <2>1. DOMAIN rows \subseteq DOMAIN rows'
    BY <1>1, <1>2, <1>5
  <2>2. QED
    BY <1>3, <1>5, <1>8, <2>1 DEF Written
<1>10. QED
  BY <1>5, <1>6, <1>7, <1>8, <1>9

\* A row that is removed is no longer live.
LEMMA RemoveWrites ==
    ASSUME Base, NEW i \in DOMAIN rows, Remove(i)
    PROVE  /\ Written /\ IsTable(rows, Ids, Row)' /\ IdsInv'
           /\ DOMAIN rows' = DOMAIN rows
           /\ \A x \in DOMAIN rows : /\ rows'[x].key = rows[x].key
                                     /\ rows'[x].live => rows'[x] = rows[x]
           /\ writes' \in {"none", "removes", "mixed"}
           /\ writes' = "none" => at = "idle"
           /\ writes' = "removes" => writes \in {"none", "removes"}
<1>1. IsTable(rows, Ids, Row) /\ IdsInv
  BY DEF Base, TypeOK
<1>2. rows' = [rows EXCEPT ![i].live = FALSE] /\ rows[i].live /\ UNCHANGED walk
  BY DEF Remove
<1> DEFINE row == [rows[i] EXCEPT !.live = FALSE]
<1>3. rows[i] \in Row
  BY <1>1 DEF IsTable
<1>4. /\ row \in Row /\ row.id = rows[i].id /\ row.key = rows[i].key
      /\ row.scope = rows[i].scope /\ row.live = FALSE
  BY <1>3 DEF Row
<1>5. DOMAIN rows' = DOMAIN rows /\ rows'[i] = row
      /\ \A x \in DOMAIN rows : x # i => rows'[x] = rows[x]
  BY <1>2
<1> HIDE DEF row
<1>6. IsTable(rows', Ids, Row)
  <2>1. \A x \in DOMAIN rows : rows[x] \in Row
    BY <1>1 DEF IsTable
  <2>2. rows' = [x \in DOMAIN rows' |-> rows'[x]]
    BY <1>2
  <2>3. \A x \in DOMAIN rows' : rows'[x] \in Row
    BY <1>4, <1>5, <2>1
  <2>4. QED
    BY <1>1, <1>5, <2>2, <2>3 DEF IsTable
<1>7. \A x \in DOMAIN rows : /\ rows'[x].id = rows[x].id /\ rows'[x].key = rows[x].key
                             /\ rows'[x].scope = rows[x].scope
                             /\ rows'[x].live => rows'[x] = rows[x]
  BY <1>4, <1>5
<1>8. IdsInv'
  BY <1>1, <1>5, <1>7 DEF IdsInv
<1>9. /\ writes' \in {"none", "removes", "mixed"}
      /\ writes' = "none" => at = "idle"
      /\ writes' = "removes" => writes \in {"none", "removes"}
      /\ at = "idle" => writes' = "none"
  BY DEF Remove, Note
<1>10. Written
  BY <1>2, <1>5, <1>7, <1>9 DEF Written
<1>11. QED
  BY <1>5, <1>6, <1>7, <1>8, <1>9, <1>10

\* A row keeps its id and scope for good.
LEMMA ChangeWrites ==
    ASSUME Base, NEW i \in DOMAIN rows, NEW k \in Keys, Change(i, k)
    PROVE  /\ Written /\ IsTable(rows, Ids, Row)' /\ IdsInv'
           /\ writes' \in {"none", "mixed"}
           /\ writes' = "none" => at = "idle"
<1>1. IsTable(rows, Ids, Row) /\ IdsInv
  BY DEF Base, TypeOK
<1>2. rows' = [rows EXCEPT ![i].key = k] /\ UNCHANGED walk
  BY DEF Change
<1> DEFINE row == [rows[i] EXCEPT !.key = k]
<1>3. rows[i] \in Row
  BY <1>1 DEF IsTable
<1>4. row \in Row /\ row.id = rows[i].id /\ row.scope = rows[i].scope
  BY <1>3 DEF Row
<1>5. DOMAIN rows' = DOMAIN rows /\ rows'[i] = row
      /\ \A x \in DOMAIN rows : x # i => rows'[x] = rows[x]
  BY <1>2
<1> HIDE DEF row
<1>6. IsTable(rows', Ids, Row)
  <2>1. \A x \in DOMAIN rows : rows[x] \in Row
    BY <1>1 DEF IsTable
  <2>2. rows' = [x \in DOMAIN rows' |-> rows'[x]]
    BY <1>2
  <2>3. \A x \in DOMAIN rows' : rows'[x] \in Row
    BY <1>4, <1>5, <2>1
  <2>4. QED
    BY <1>1, <1>5, <2>2, <2>3 DEF IsTable
<1>7. \A x \in DOMAIN rows : rows'[x].id = rows[x].id /\ rows'[x].scope = rows[x].scope
  BY <1>4, <1>5
<1>8. IdsInv'
  BY <1>1, <1>5, <1>7 DEF IdsInv
<1>9. writes' \in {"none", "mixed"} /\ (writes' = "none" => at = "idle")
      /\ (at = "idle" => writes' = "none")
  BY DEF Change, Note
<1>10. Written
  BY <1>2, <1>5, <1>7, <1>9 DEF Written
<1>11. QED
  BY <1>6, <1>8, <1>9, <1>10

LEMMA WriteTypes ==
    ASSUME Base, Written, IsTable(rows, Ids, Row)', IdsInv',
           writes' \in {"none", "inserts", "removes", "mixed"}
    PROVE  Base'
<1>1. UNCHANGED <<query, at, page, answer, shown, start>> /\ DOMAIN rows \subseteq DOMAIN rows'
  BY DEF Written, walk
<1>2. TypeOK'
  BY <1>1 DEF Base, TypeOK, TotalPages, Take, Enveloped
<1>3. WalkInv'
  BY <1>1 DEF Base, WalkInv, Reading, Written
<1>4. FailureIsTold'
  BY <1>1 DEF Base, FailureIsTold, Succeeded
<1>5. QED
  BY <1>2, <1>3, <1>4 DEF Base

-----------------------------------------------------------------------------
(* Scopes *)

\* What the query selects is of the scope that the controller asks for.
LEMMA SelectedScope ==
    ASSUME Base, at # "idle", NEW r \in Selected(query.selection)
    PROVE  rows[r].scope \in query.scope
<1> DEFINE k == [column |-> "scope", suffix |-> "EQ"]
<1>1. r \in DOMAIN rows /\ rows[r].scope \in Scopes
  <2>1. r \in DOMAIN rows /\ rows[r] \in Row
    BY SelectedFinite DEF Base
  <2>2. QED
    BY <2>1 DEF Row
<1>2. FiltersScope(query)
  BY DEF Base, WalkInv, IsQuery
<1>3. ASSUME k \in DOMAIN query.selection.filter, query.scope = {query.selection.filter[k]}
      PROVE  rows[r].scope = query.selection.filter[k]
  <2>1. Satisfies(rows[r][k.column], k.suffix, query.selection.filter[k])
    BY <1>3 DEF Selected
  <2>2. k.column = "scope" /\ k.suffix = "EQ"
    OBVIOUS
  <2>3. Satisfies(rows[r].scope, "EQ", query.selection.filter[k])
    BY <2>1, <2>2
  <2> HIDE DEF k
  <2>4. QED
    BY <2>3 DEF Satisfies
<1>4. QED
  BY <1>1, <1>2, <1>3 DEF FiltersScope

\* A page that is read is selected.
LEMMA ReadSelects ==
    ASSUME Base, FindPage \/ LoadPage
    PROVE  /\ at # "idle" /\ page' \in Seq(Selected(query.selection))
           /\ Seqs!ToSet(page') \subseteq Selected(query.selection)
           /\ UNCHANGED <<rows, query, answer, shown, start, writes>>
<1>1. page' \in Seq(Selected(query.selection))
  BY PageFound, PageLoaded DEF Base
<1>2. QED
  BY <1>1, ShownIn DEF FindPage, LoadPage

\* Counting moves the page to what is shown.
LEMMA CountShows ==
    ASSUME Base, CountRows
    PROVE  /\ at = "count" /\ at' = "answered" /\ page' = <<>> /\ Seqs!ToSet(page') = {}
           /\ shown' = shown \o page /\ shown \in Seq(Ids) /\ page \in Seq(Ids)
           /\ Seqs!ToSet(shown') = Seqs!ToSet(shown) \cup Seqs!ToSet(page)
           /\ UNCHANGED <<rows, query, start, writes>>
<1>1. shown \in Seq(Ids) /\ page \in Seq(Ids)
  BY DEF Base, TypeOK
<1>2. /\ at = "count" /\ at' = "answered" /\ page' = <<>> /\ shown' = shown \o page
      /\ UNCHANGED <<rows, query, start, writes>>
  BY DEF CountRows, Answered
<1>3. QED
  BY <1>1, <1>2, ShownTogether, ShownIn

LEMMA ScopeStep ==
    ASSUME Base, ScopeInv, Next
    PROVE  ScopeInv'
<1> USE ShownIn
<1>1. ASSUME NEW r \in Requests, NEW n \in PageSizes, NEW s \in Sorts, Ask(r, n, s)
      PROVE  ScopeInv'
  <2>1. shown' = <<>> /\ page' = <<>>
    BY <1>1 DEF Ask
  <2>2. QED
    BY <2>1 DEF ScopeInv
<1>2. ASSUME FindPage \/ LoadPage PROVE ScopeInv'
  <2>1. /\ at # "idle" /\ Seqs!ToSet(page') \subseteq Selected(query.selection)
        /\ UNCHANGED <<rows, query, shown>>
    BY <1>2, ReadSelects
  <2>2. \A r \in Seqs!ToSet(page') : rows[r].scope \in query.scope
    BY <2>1, SelectedScope
  <2>3. QED
    BY <2>1, <2>2 DEF ScopeInv
<1>3. CASE CountRows
  BY <1>3, CountShows DEF ScopeInv
<1>4. CASE Refuse \/ QueryFails
  BY <1>4, FailureTells DEF ScopeInv
<1>5. CASE AskNext
  <2>1. /\ UNCHANGED <<rows, page, shown>> /\ at # "idle"
        /\ query' = [query EXCEPT !.pageNumber = @ + 1]
    BY <1>5 DEF AskNext, Succeeded
  <2>2. query'.scope = query.scope
    BY <2>1, NextPage DEF Base, WalkInv
  <2>3. QED
    BY <2>1, <2>2 DEF ScopeInv
<1>6. CASE AskAgain
  BY <1>6 DEF AskAgain, ScopeInv
<1>7. CASE Leave
  BY <1>7 DEF Leave, ScopeInv
<1>8. ASSUME Written PROVE ScopeInv'
  <2>1. /\ UNCHANGED <<query, page, shown>>
        /\ \A i \in DOMAIN rows : rows'[i].scope = rows[i].scope
    BY <1>8 DEF Written, walk
  <2>2. Seqs!ToSet(shown) \cup Seqs!ToSet(page) \subseteq DOMAIN rows
    BY DEF Base, WalkInv
  <2>3. QED
    BY <2>1, <2>2 DEF ScopeInv
<1>9. ASSUME NEW k \in Keys, NEW s \in Scopes, Insert(k, s) PROVE ScopeInv'
  BY <1>8, <1>9, InsertWrites
<1>10. ASSUME NEW i \in DOMAIN rows, Remove(i) \/ \E k \in Keys : Change(i, k)
       PROVE  ScopeInv'
  BY <1>8, <1>10, RemoveWrites, ChangeWrites
<1>11. QED
  BY <1>1, <1>2, <1>3, <1>4, <1>5, <1>6, <1>7, <1>9, <1>10 DEF Next

LEMMA TypesStep ==
    ASSUME Base, Next
    PROVE  Base'
<1>1. ASSUME NEW r \in Requests, NEW n \in PageSizes, NEW s \in Sorts, Ask(r, n, s)
      PROVE  Base'
  BY <1>1, AskTypes
<1>2. CASE FindPage \/ LoadPage
  BY <1>2, ReadTypes
<1>3. CASE CountRows
  BY <1>3, CountTypes
<1>4. CASE Refuse \/ QueryFails
  BY <1>4, FailTypes
<1>5. CASE AskNext \/ AskAgain \/ Leave
  BY <1>5, ClientTypes
<1>6. ASSUME NEW k \in Keys, NEW s \in Scopes, Insert(k, s) PROVE Base'
  BY <1>6, InsertWrites, WriteTypes
<1>7. ASSUME NEW i \in DOMAIN rows, Remove(i) PROVE Base'
  BY <1>7, RemoveWrites, WriteTypes
<1>8. ASSUME NEW i \in DOMAIN rows, NEW k \in Keys, Change(i, k) PROVE Base'
  BY <1>8, ChangeWrites, WriteTypes
<1>9. QED
  BY <1>1, <1>2, <1>3, <1>4, <1>5, <1>6, <1>7, <1>8 DEF Next

-----------------------------------------------------------------------------
(* Ranks *)

\* The order of two rows depends on their columns alone.
LEMMA PrecedesSame ==
    ASSUME NEW sort \in Seq(SortColumn), NEW a, NEW b, NEW c, NEW d,
           \A col \in Columns : a[col] = c[col] /\ b[col] = d[col]
    PROVE  Precedes(sort, a, b) <=> Precedes(sort, c, d)
<1>1. \A n \in DOMAIN sort : sort[n] \in SortColumn /\ sort[n].column \in Columns
  <2>1. \A n \in DOMAIN sort : sort[n] \in SortColumn
    OBVIOUS
  <2>2. \A x \in SortColumn : x.column \in Columns
    BY DEF SortColumn
  <2>3. QED
    BY <2>1, <2>2
<1>2. DOMAIN sort = 1..Len(sort) /\ Len(sort) \in Nat
  OBVIOUS
<1>3. \A n \in DOMAIN sort : \A m \in 1..(n - 1) : m \in DOMAIN sort
  BY <1>2
<1>4. \A n \in DOMAIN sort : Less(sort[n], a, b) <=> Less(sort[n], c, d)
  BY <1>1 DEF Less
<1>5. \A n \in DOMAIN sort :
        (\A m \in 1..(n - 1) : a[sort[m].column] = b[sort[m].column])
          <=> (\A m \in 1..(n - 1) : c[sort[m].column] = d[sort[m].column])
  BY <1>1, <1>3
<1>6. QED
  BY <1>4, <1>5 DEF Precedes

LEMMA RankType ==
    ASSUME TypeOK, NEW r
    PROVE  /\ Rank(r) \in Nat
           /\ IsFiniteSet(Before(Selected(query.selection), SortOf(query), r))
<1>1. IsFiniteSet(Selected(query.selection))
  BY SelectedFinite
<1>2. Before(Selected(query.selection), SortOf(query), r) \in SUBSET Selected(query.selection)
  BY DEF Before
<1>3. QED
  BY <1>1, <1>2, FS_Subset, FS_CardinalityType DEF Rank

LEMMA RankTypeNext ==
    TypeOK' => \A r : Rank(r)' \in Nat
<1>1. TypeOK => (\A r : Rank(r) \in Nat)
  BY RankType
<1>2. TypeOK' => (\A r : Rank(r) \in Nat)'
  BY <1>1, PTL
<1>3. QED
  BY <1>2

\* The rank of a row is one of the table and of what is asked of it.
LEMMA RankStays ==
    ASSUME UNCHANGED rows, query'.selection = query.selection, SortOf(query') = SortOf(query)
    PROVE  \A r : Rank(r)' = Rank(r)
BY DEF Rank, Before, Selected

\* A removal moves no row back.
LEMMA RemoveRank ==
    ASSUME Base, at # "idle", NEW i \in DOMAIN rows, Remove(i), NEW r \in DOMAIN rows
    PROVE  Rank(r)' <= Rank(r)
<1> DEFINE S == Selected(query.selection)
           sort == SortOf(query)
<1>1. /\ query' = query /\ DOMAIN rows' = DOMAIN rows
      /\ \A x \in DOMAIN rows : /\ rows'[x].id = rows[x].id /\ rows'[x].key = rows[x].key
                                /\ rows'[x].scope = rows[x].scope
                                /\ rows'[x].live => rows'[x] = rows[x]
  BY RemoveWrites DEF Written, walk
<1>2. S' \subseteq S /\ S \subseteq DOMAIN rows
  BY <1>1 DEF Selected
<1>3. sort \in Seq(SortColumn)
  BY SortOfQuery DEF Base, WalkInv
<1>4. \A x \in DOMAIN rows : \A c \in Columns : rows'[x][c] = rows[x][c]
  BY <1>1 DEF Columns
<1>5. \A x \in DOMAIN rows :
        Precedes(sort, rows'[x], rows'[r]) <=> Precedes(sort, rows[x], rows[r])
  <2> HIDE DEF sort
  <2>1. QED
    BY <1>3, <1>4, PrecedesSame
<1>6. Before(S, sort, r)' \in SUBSET Before(S, sort, r)
  <2>1. sort' = sort
    BY <1>1
  <2> HIDE DEF S, sort
  <2>2. QED
    BY <1>2, <1>5, <2>1 DEF Before
<1>7. IsFiniteSet(Before(S, sort, r))
  BY RankType DEF Base
<1>8. QED
  BY <1>6, <1>7, FS_Subset DEF Rank

\* An insertion moves no row forward.
LEMMA InsertRank ==
    ASSUME Base, Base', at # "idle", NEW k \in Keys, NEW s \in Scopes, Insert(k, s),
           NEW r \in DOMAIN rows
    PROVE  Selected(query.selection) \subseteq Selected(query.selection)'
           /\ Rank(r) <= Rank(r)'
<1> DEFINE S == Selected(query.selection)
           sort == SortOf(query)
<1>1. /\ query' = query /\ DOMAIN rows \subseteq DOMAIN rows'
      /\ \A x \in DOMAIN rows : rows'[x] = rows[x]
  BY InsertWrites DEF Written, walk
<1>2. S \subseteq S' /\ S \subseteq DOMAIN rows
  BY <1>1 DEF Selected
<1>3. Before(S, sort, r) \in SUBSET Before(S, sort, r)'
  <2>1. sort' = sort
    BY <1>1
  <2> HIDE DEF S, sort
  <2>2. QED
    BY <1>1, <1>2, <2>1 DEF Before
<1>4. IsFiniteSet(Before(S, sort, r))'
  <2>1. TypeOK'
    BY DEF Base
  <2>2. QED
    BY <2>1, RankType, PTL
<1>5. Rank(r) <= Rank(r)'
  <2>1. PICK A, B : A = Before(S, sort, r) /\ B = Before(S, sort, r)'
    OBVIOUS
  <2>2. A \in SUBSET B /\ IsFiniteSet(B)
    BY <1>3, <1>4, <2>1
  <2>3. Cardinality(A) <= Cardinality(B)
    BY <2>2, FS_Subset
  <2>4. QED
    BY <2>1, <2>3 DEF Rank
<1>6. QED
  BY <1>2, <1>5

\* What the pages answered so far were to cover.
LEMMA PassedIs ==
    ASSUME IsQuery(query)
    PROVE  /\ Skip(query) \in Nat /\ Take(query) \in Nat
           /\ EndOfPage \in Nat /\ EndOfPage = Skip(query) + Take(query)
           /\ Succeeded => Passed = EndOfPage
           /\ ~Succeeded => Passed = Skip(query)
<1>1. Skip(query) \in Nat /\ Take(query) \in Nat
  BY PageBounds
<1>2. QED
  BY <1>1 DEF Passed, EndOfPage

LEMMA PassedNext ==
    ASSUME Base', at' # "idle"
    PROVE  /\ IsQuery(query') /\ Skip(query') \in Nat /\ Take(query') \in Nat
           /\ EndOfPage' \in Nat /\ EndOfPage' = Skip(query') + Take(query')
           /\ Succeeded' => Passed' = EndOfPage'
           /\ ~Succeeded' => Passed' = Skip(query')
<1>1. IsQuery(query')
  BY DEF Base, WalkInv
<1>2. Skip(query') \in Nat /\ Take(query') \in Nat
  BY <1>1, PageBounds
<1>3. QED
  BY <1>1, <1>2 DEF Passed, EndOfPage

LEMMA PassedNow ==
    ASSUME Base, at # "idle"
    PROVE  /\ IsQuery(query) /\ Skip(query) \in Nat /\ Take(query) \in Nat
           /\ EndOfPage \in Nat /\ EndOfPage = Skip(query) + Take(query)
           /\ Succeeded => Passed = EndOfPage
           /\ ~Succeeded => Passed = Skip(query)
<1>1. IsQuery(query)
  BY DEF Base, WalkInv
<1>2. QED
  BY <1>1, PassedIs

-----------------------------------------------------------------------------
(* Where the rows of a page stand *)

LEMMA PositionStep ==
    ASSUME Base, Base', PositionInv, Next
    PROVE  PositionInv'
<1> USE ShownIn
<1> SUFFICES ASSUME at' # "idle", writes' \in {"none", "removes"}
             PROVE  /\ \A r \in Seqs!ToSet(shown') : Rank(r)' < Passed'
                    /\ Reading' => \A r \in Seqs!ToSet(page') : Rank(r)' < EndOfPage'
  BY DEF PositionInv, Reading
<1> DEFINE Goal == /\ \A r \in Seqs!ToSet(shown') : Rank(r)' < Passed'
                   /\ Reading' => \A r \in Seqs!ToSet(page') : Rank(r)' < EndOfPage'
<1>1. ASSUME NEW r \in Requests, NEW n \in PageSizes, NEW s \in Sorts, Ask(r, n, s)
      PROVE  Goal
  BY <1>1 DEF Ask
<1>2. CASE FindPage
  <2>1. /\ UNCHANGED <<rows, query, answer, shown, start, writes>> /\ at = "page"
        /\ at' \in {"load", "count"}
    BY <1>2 DEF FindPage
  <2>2. \A r : Rank(r)' = Rank(r)
    BY <2>1, RankStays
  <2>3. Passed = Skip(query) /\ Passed' = Skip(query) /\ EndOfPage' = EndOfPage
        /\ Skip(query) \in Nat /\ EndOfPage \in Nat
    BY <2>1, PassedNow, PassedNext DEF Succeeded
  <2>4. \A r \in Seqs!ToSet(shown) : Rank(r) < Passed
    BY <2>1 DEF PositionInv
  <2>5. ASSUME NEW r \in Seqs!ToSet(page')
        PROVE  Rank(r) < EndOfPage
    <3> DEFINE S == Selected(query.selection)
               sort == SortOf(query)
    <3>1. PICK s \in Answers(S, sort) :
             Seqs!ToSet(page') = {s[j] : j \in {k \in DOMAIN s : Skip(query) < k /\ k <= EndOfPage}}
      BY <1>2, PageFound DEF Base
    <3>2. PICK j \in DOMAIN s : r = s[j] /\ j <= EndOfPage
      BY <2>5, <3>1
    <3>3. IsFiniteSet(S) /\ \A x \in S : Sortable(rows[x])
      BY SelectedFinite DEF Base
    <3>4. sort \in Seq(SortColumn)
      BY <2>1, SortOfQuery DEF Base, WalkInv
    <3>5. /\ j \in Nat /\ Cardinality(Before(S, sort, s[j])) \in Nat
          /\ Cardinality(Before(S, sort, s[j])) <= j - 1
      <4> HIDE DEF S, sort
      <4>1. QED
        BY <3>3, <3>4, BeforePlace
    <3>6. Rank(r) = Cardinality(Before(S, sort, s[j]))
      BY <3>2 DEF Rank
    <3>7. QED
      BY <2>3, <3>2, <3>5, <3>6
  <2>6. QED
    BY <2>1, <2>2, <2>3, <2>4, <2>5
<1>3. CASE LoadPage
  <2>1. /\ UNCHANGED <<rows, query, answer, shown, start, writes>> /\ at = "load"
        /\ at' = "count"
    BY <1>3 DEF LoadPage
  <2>2. \A r : Rank(r)' = Rank(r)
    BY <2>1, RankStays
  <2>3. Passed' = Passed /\ EndOfPage' = EndOfPage
    BY <2>1, PassedNow, PassedNext DEF Succeeded
  <2>4. Seqs!ToSet(page') \subseteq Seqs!ToSet(page)
    BY <1>3, PageLoaded DEF Base
  <2>5. QED
    BY <2>1, <2>2, <2>3, <2>4 DEF PositionInv, Reading
<1>4. CASE CountRows
  <2>1. /\ UNCHANGED <<rows, query, start, writes>> /\ at = "count" /\ at' = "answered"
        /\ Seqs!ToSet(shown') = Seqs!ToSet(shown) \cup Seqs!ToSet(page)
    BY <1>4, CountShows
  <2>2. \A r : Rank(r)' = Rank(r)
    BY <2>1, RankStays
  <2>3. Passed = Skip(query) /\ Passed' = EndOfPage /\ EndOfPage = Skip(query) + Take(query)
        /\ Skip(query) \in Nat /\ Take(query) \in Nat
    <3>1. Succeeded'
      BY <1>4, CountTells DEF Base, Succeeded
    <3>2. QED
      BY <2>1, <3>1, PassedNow, PassedNext DEF Succeeded
  <2>4. /\ \A r \in Seqs!ToSet(shown) : Rank(r) < Skip(query) /\ Rank(r) \in Nat
        /\ \A r \in Seqs!ToSet(page) : Rank(r) < EndOfPage
    BY <2>1, <2>3, RankType DEF PositionInv, Reading, Base
  <2>5. QED
    BY <2>1, <2>2, <2>3, <2>4 DEF Reading
<1>5. CASE Refuse \/ QueryFails
  <2>1. /\ UNCHANGED <<rows, query, shown, start, writes>> /\ at \notin {"idle", "answered"}
        /\ at' = "answered" /\ page' = <<>> /\ ~Succeeded'
    BY <1>5, FailureTells
  <2>2. \A r : Rank(r)' = Rank(r)
    BY <2>1, RankStays
  <2>3. Passed' = Passed
    BY <2>1, PassedNow, PassedNext DEF Succeeded
  <2>4. QED
    BY <2>1, <2>2, <2>3 DEF PositionInv, Reading
<1>6. CASE AskNext
  <2>1. /\ UNCHANGED <<rows, page, shown, start, writes>> /\ Succeeded /\ at' = "page"
        /\ query' = [query EXCEPT !.pageNumber = @ + 1] /\ at # "idle"
    BY <1>6 DEF AskNext, Succeeded
  <2>2. /\ query'.selection = query.selection /\ SortOf(query') = SortOf(query)
        /\ Skip(query') = Skip(query) + Take(query)
    BY <2>1, PassedNow, NextPage
  <2>3. \A r : Rank(r)' = Rank(r)
    BY <2>1, <2>2, RankStays
  <2>4. Passed' = Passed
    BY <2>1, <2>2, PassedNow, PassedNext DEF Succeeded
  <2>5. QED
    BY <2>1, <2>3, <2>4 DEF PositionInv, Reading
<1>7. CASE AskAgain
  <2>1. /\ UNCHANGED <<rows, query, page, shown, start, writes>> /\ ~Succeeded /\ at' = "page"
        /\ at # "idle"
    BY <1>7 DEF AskAgain
  <2>2. \A r : Rank(r)' = Rank(r)
    BY <2>1, RankStays
  <2>3. Passed' = Passed
    BY <2>1, PassedNow, PassedNext DEF Succeeded
  <2>4. QED
    BY <2>1, <2>2, <2>3 DEF PositionInv, Reading
<1>8. CASE Leave
  BY <1>8 DEF Leave
<1>9. ASSUME NEW k \in Keys, NEW s \in Scopes, Insert(k, s) PROVE FALSE
  <2>1. writes' = "none" /\ at = "idle"
    BY <1>9, InsertWrites
  <2>2. at' = at
    BY <1>9 DEF Insert, walk
  <2>3. QED
    BY <2>1, <2>2
<1>10. ASSUME NEW i \in DOMAIN rows, Remove(i) PROVE Goal
  <2>1. UNCHANGED <<query, at, page, answer, shown, start>> /\ writes \in {"none", "removes"}
    <3>1. UNCHANGED <<query, at, page, answer, shown, start>>
      BY <1>10 DEF Remove, walk
    <3>2. QED
      BY <1>10, <3>1, RemoveWrites
  <2>2. ASSUME NEW r \in DOMAIN rows
        PROVE  Rank(r)' <= Rank(r) /\ Rank(r) \in Nat /\ Rank(r)' \in Nat
    <3>1. Rank(r)' <= Rank(r)
      BY <1>10, <2>1, RemoveRank
    <3>2. Rank(r) \in Nat
      BY RankType DEF Base
    <3>3. TypeOK'
      BY DEF Base
    <3>4. Rank(r)' \in Nat
      BY <3>3, RankTypeNext
    <3>5. QED
      BY <3>1, <3>2, <3>4
  <2>3. Passed' = Passed /\ EndOfPage' = EndOfPage /\ Passed \in Nat /\ EndOfPage \in Nat
    BY <2>1, PassedNow, PassedNext DEF Succeeded
  <2>4. Seqs!ToSet(shown) \subseteq DOMAIN rows /\ Seqs!ToSet(page) \subseteq DOMAIN rows
    BY DEF Base, WalkInv
  <2>5. /\ \A r \in Seqs!ToSet(shown) : Rank(r) < Passed
        /\ Reading => \A r \in Seqs!ToSet(page) : Rank(r) < EndOfPage
    BY <2>1 DEF PositionInv
  <2>6. Reading' = Reading
    BY <2>1 DEF Reading
  <2>7. QED
    BY <2>1, <2>2, <2>3, <2>4, <2>5, <2>6
<1>11. ASSUME NEW i \in DOMAIN rows, NEW k \in Keys, Change(i, k) PROVE FALSE
  <2>1. writes' = "none" /\ at = "idle"
    BY <1>11, ChangeWrites
  <2>2. at' = at
    BY <1>11 DEF Change, walk
  <2>3. QED
    BY <2>1, <2>2
<1>12. QED
  BY <1>1, <1>2, <1>3, <1>4, <1>5, <1>6, <1>7, <1>8, <1>9, <1>10, <1>11 DEF Next

-----------------------------------------------------------------------------
(* No row twice *)

\* Two lists without repetition that share nothing repeat nothing together.
LEMMA InjectiveTogether ==
    ASSUME NEW S, NEW s \in Seq(S), NEW t \in Seq(S),
           Seqs!IsInjective(s), Seqs!IsInjective(t), Seqs!ToSet(s) \cap Seqs!ToSet(t) = {}
    PROVE  Seqs!IsInjective(s \o t)
<1>1. /\ DOMAIN (s \o t) = 1..(Len(s) + Len(t)) /\ Len(s) \in Nat /\ Len(t) \in Nat
      /\ DOMAIN s = 1..Len(s) /\ DOMAIN t = 1..Len(t)
      /\ \A i \in 1..(Len(s) + Len(t)) :
            (s \o t)[i] = IF i <= Len(s) THEN s[i] ELSE t[i - Len(s)]
  OBVIOUS
<1>2. \A i \in DOMAIN (s \o t) :
        \/ i \in DOMAIN s /\ (s \o t)[i] = s[i] /\ (s \o t)[i] \in Seqs!ToSet(s)
        \/ /\ i - Len(s) \in DOMAIN t /\ (s \o t)[i] = t[i - Len(s)]
           /\ (s \o t)[i] \in Seqs!ToSet(t)
  <2>1. ASSUME NEW i \in DOMAIN (s \o t), i <= Len(s)
        PROVE  i \in DOMAIN s /\ (s \o t)[i] = s[i] /\ (s \o t)[i] \in Seqs!ToSet(s)
    BY <1>1, <2>1 DEF Seqs!ToSet
  <2>2. ASSUME NEW i \in DOMAIN (s \o t), ~(i <= Len(s))
        PROVE  /\ i - Len(s) \in DOMAIN t /\ (s \o t)[i] = t[i - Len(s)]
               /\ (s \o t)[i] \in Seqs!ToSet(t)
    <3>1. i - Len(s) \in DOMAIN t /\ (s \o t)[i] = t[i - Len(s)]
      BY <1>1, <2>2
    <3>2. QED
      BY <3>1 DEF Seqs!ToSet
  <2>3. QED
    BY <2>1, <2>2
<1>3. ASSUME NEW i \in DOMAIN (s \o t), NEW j \in DOMAIN (s \o t), (s \o t)[i] = (s \o t)[j]
      PROVE  i = j
  <2>1. i \in Int /\ j \in Int
    BY <1>1
  <2>2. CASE i \in DOMAIN s /\ (s \o t)[i] = s[i] /\ (s \o t)[i] \in Seqs!ToSet(s)
    BY <1>2, <1>3, <2>2 DEF Seqs!IsInjective
  <2>3. CASE /\ i - Len(s) \in DOMAIN t /\ (s \o t)[i] = t[i - Len(s)]
             /\ (s \o t)[i] \in Seqs!ToSet(t)
    <3>1. j - Len(s) \in DOMAIN t /\ (s \o t)[j] = t[j - Len(s)]
      BY <1>2, <1>3, <2>3
    <3>2. i - Len(s) = j - Len(s)
      BY <1>3, <2>3, <3>1 DEF Seqs!IsInjective
    <3>3. QED
      BY <1>1, <2>1, <3>2
  <2>4. QED
    BY <1>2, <2>2, <2>3
<1>4. QED
  BY <1>3 DEF Seqs!IsInjective

\* Without ties, the page read from place Skip on has no row of lower rank.
LEMMA FoundRanks ==
    ASSUME Base, FindPage, NoTies, NEW r \in Selected(query.selection)
    PROVE  /\ Rank(r) < Skip(query) => r \notin Seqs!ToSet(page')
           /\ \/ Rank(r) < Skip(query) \/ Rank(r) >= EndOfPage \/ r \in Seqs!ToSet(page')
<1> DEFINE S == Selected(query.selection)
           sort == SortOf(query)
<1>1. at # "idle" /\ IsQuery(query)
  BY DEF FindPage, Base, WalkInv
<1>2. PICK s \in Answers(S, sort) :
         Seqs!ToSet(page') = {s[j] : j \in {k \in DOMAIN s : Skip(query) < k /\ k <= EndOfPage}}
  BY PageFound DEF Base
<1>3. IsFiniteSet(S) /\ (\A x \in S : Sortable(rows[x])) /\ S \in SUBSET DOMAIN rows
  BY SelectedFinite DEF Base
<1>4. sort \in Seq(SortColumn) /\ \E n \in DOMAIN sort : sort[n].column = "id"
  BY <1>1, SortOfQuery DEF NoTies
<1>5. IdsInv
  BY DEF Base
<1>6. ASSUME NEW j \in DOMAIN s
      PROVE  j \in Nat /\ Rank(s[j]) \in Nat /\ Rank(s[j]) = j - 1
  <2> HIDE DEF S, sort
  <2>1. /\ j \in Nat /\ Cardinality(Before(S, sort, s[j])) \in Nat
        /\ Cardinality(Before(S, sort, s[j])) <= j - 1
    BY <1>3, <1>4, BeforePlace
  <2>2. j - 1 <= Cardinality(Before(S, sort, s[j]))
    BY <1>3, <1>4, <1>5, RankOfPlace
  <2>3. Rank(s[j]) = Cardinality(Before(S, sort, s[j]))
    BY DEF Rank, S, sort
  <2>4. QED
    BY <2>1, <2>2, <2>3
<1>7. \A i, j \in DOMAIN s : s[i] = s[j] => i = j
  <2> HIDE DEF S, sort
  <2>1. QED
    BY <1>3, AnswersAre
<1>8. PICK i \in DOMAIN s : s[i] = r
  <2>1. r \in S
    OBVIOUS
  <2> HIDE DEF S, sort
  <2>2. QED
    BY <1>3, <2>1, AnswersAre
<1>9. Skip(query) \in Nat /\ EndOfPage \in Nat
  BY <1>1, PassedIs
<1>10. ASSUME r \in Seqs!ToSet(page')
       PROVE  Skip(query) < i
  <2>1. PICK j \in DOMAIN s : r = s[j] /\ Skip(query) < j
    BY <1>2, <1>10
  <2>2. QED
    BY <1>7, <1>8, <2>1
<1>11. (Skip(query) < i /\ i <= EndOfPage) => r \in Seqs!ToSet(page')
  BY <1>2, <1>8
<1>12. i \in Nat /\ Rank(r) \in Nat /\ Rank(r) = i - 1
  BY <1>6, <1>8
<1>13. QED
  BY <1>9, <1>10, <1>11, <1>12

LEMMA NoTiesStays ==
    ASSUME query'.joined = query.joined, query'.sort = query.sort
    PROVE  NoTies' = NoTies
BY DEF NoTies

LEMMA RepeatsStep ==
    ASSUME Base, Base', PositionInv, RepeatsInv, Next
    PROVE  RepeatsInv'
<1> USE ShownIn
<1> SUFFICES ASSUME at' # "idle", NoTies', writes' \in {"none", "removes"}
             PROVE  /\ Seqs!IsInjective(shown') /\ Seqs!IsInjective(page')
                    /\ Seqs!ToSet(shown') \cap Seqs!ToSet(page') = {}
  BY DEF RepeatsInv
<1> DEFINE Goal == /\ Seqs!IsInjective(shown') /\ Seqs!IsInjective(page')
                   /\ Seqs!ToSet(shown') \cap Seqs!ToSet(page') = {}
<1>1. Seqs!IsInjective(<<>>)
  BY DEF Seqs!IsInjective
<1>2. ASSUME NEW r \in Requests, NEW n \in PageSizes, NEW s \in Sorts, Ask(r, n, s)
      PROVE  Goal
  BY <1>1, <1>2 DEF Ask
<1>3. ASSUME at # "idle", UNCHANGED <<query, shown, writes>>
      PROVE  /\ Seqs!IsInjective(shown) /\ Seqs!IsInjective(page)
             /\ Seqs!ToSet(shown) \cap Seqs!ToSet(page) = {}
  BY <1>3, NoTiesStays DEF RepeatsInv
<1>4. CASE FindPage
  <2>1. /\ UNCHANGED <<rows, query, answer, shown, start, writes>> /\ at = "page"
    BY <1>4 DEF FindPage
  <2>2. \A i, j \in DOMAIN page' : page'[i] = page'[j] => i = j
    BY <1>4, PageFound DEF Base
  <2>3. \A r \in Seqs!ToSet(shown) : Rank(r) < Skip(query)
    <3>1. Passed = Skip(query)
      BY <2>1, PassedNow DEF Succeeded
    <3>2. QED
      BY <2>1, <3>1 DEF PositionInv
  <2>4. \A r \in Seqs!ToSet(page') : r \in Selected(query.selection)
    BY <1>4, ReadSelects
  <2>5. NoTies
    BY <2>1, NoTiesStays
  <2>6. Seqs!ToSet(shown) \cap Seqs!ToSet(page') = {}
    BY <1>4, <2>3, <2>4, <2>5, FoundRanks
  <2>7. QED
    BY <1>3, <2>1, <2>2, <2>6 DEF Seqs!IsInjective
<1>5. CASE LoadPage
  <2>1. /\ UNCHANGED <<rows, query, answer, shown, start, writes>> /\ at = "load"
    BY <1>5 DEF LoadPage
  <2>2. /\ \A i, j \in DOMAIN page' : page'[i] = page'[j] => i = j
        /\ Seqs!ToSet(page') \subseteq Seqs!ToSet(page)
    BY <1>5, PageLoaded DEF Base
  <2>3. QED
    BY <1>3, <2>1, <2>2 DEF Seqs!IsInjective
<1>6. CASE CountRows
  <2>1. /\ UNCHANGED <<rows, query, start, writes>> /\ at = "count" /\ page' = <<>>
        /\ shown' = shown \o page /\ shown \in Seq(Ids) /\ page \in Seq(Ids)
    BY <1>6, CountShows
  <2>2. /\ Seqs!IsInjective(shown) /\ Seqs!IsInjective(page)
        /\ Seqs!ToSet(shown) \cap Seqs!ToSet(page) = {}
    BY <2>1, NoTiesStays DEF RepeatsInv
  <2>3. Seqs!IsInjective(shown \o page)
    BY <2>1, <2>2, InjectiveTogether
  <2>4. QED
    BY <1>1, <2>1, <2>3
<1>7. CASE Refuse \/ QueryFails
  <2>1. /\ UNCHANGED <<rows, query, shown, start, writes>> /\ at # "idle" /\ page' = <<>>
    BY <1>7, FailureTells
  <2>2. QED
    BY <1>1, <1>3, <2>1
<1>8. CASE AskNext \/ AskAgain
  <2>1. /\ UNCHANGED <<page, shown, writes>> /\ at # "idle"
        /\ query' = query \/ query' = [query EXCEPT !.pageNumber = @ + 1]
    BY <1>8 DEF AskNext, AskAgain, Succeeded
  <2>2. query'.joined = query.joined /\ query'.sort = query.sort
    BY <2>1, PassedNow, NextPage
  <2>3. NoTies
    BY <2>2, NoTiesStays
  <2>4. QED
    BY <2>1, <2>3 DEF RepeatsInv
<1>9. CASE Leave
  BY <1>9 DEF Leave
<1>10. ASSUME NEW k \in Keys, NEW s \in Scopes, Insert(k, s) PROVE FALSE
  <2>1. writes' = "none" /\ at = "idle"
    BY <1>10, InsertWrites
  <2>2. at' = at
    BY <1>10 DEF Insert, walk
  <2>3. QED
    BY <2>1, <2>2
<1>11. ASSUME NEW i \in DOMAIN rows, Remove(i) PROVE Goal
  <2>1. UNCHANGED <<query, at, page, answer, shown, start>> /\ writes \in {"none", "removes"}
    <3>1. UNCHANGED <<query, at, page, answer, shown, start>>
      BY <1>11 DEF Remove, walk
    <3>2. QED
      BY <1>11, <3>1, RemoveWrites
  <2>2. NoTies
    BY <2>1, NoTiesStays
  <2>3. QED
    BY <2>1, <2>2 DEF RepeatsInv
<1>12. ASSUME NEW i \in DOMAIN rows, NEW k \in Keys, Change(i, k) PROVE FALSE
  <2>1. writes' = "none" /\ at = "idle"
    BY <1>12, ChangeWrites
  <2>2. at' = at
    BY <1>12 DEF Change, walk
  <2>3. QED
    BY <2>1, <2>2
<1>13. QED
  BY <1>2, <1>4, <1>5, <1>6, <1>7, <1>8, <1>9, <1>10, <1>11, <1>12 DEF Next

-----------------------------------------------------------------------------
(* In order *)

\* No row of a page precedes a row of lower rank than where the page begins.
LEMMA FoundAfter ==
    ASSUME Base, FindPage, NEW r \in Seqs!ToSet(page'),
           NEW u \in DOMAIN rows, Rank(u) < Skip(query)
    PROVE  ~Precedes(query.sort, rows[r], rows[u])
<1> DEFINE S == Selected(query.selection)
           sort == SortOf(query)
<1>1. at # "idle" /\ IsQuery(query)
  BY DEF FindPage, Base, WalkInv
<1>2. PICK s \in Answers(S, sort) :
         Seqs!ToSet(page') = {s[j] : j \in {k \in DOMAIN s : Skip(query) < k /\ k <= EndOfPage}}
  BY PageFound DEF Base
<1>3. PICK j \in DOMAIN s : r = s[j] /\ Skip(query) < j
  BY <1>2
<1>4. IsFiniteSet(S) /\ (\A x \in S : Sortable(rows[x])) /\ Sortable(rows[u])
  BY SelectedFinite DEF Base
<1>5. sort \in Seq(SortColumn)
  BY <1>1, SortOfQuery
<1>6. /\ j \in Nat /\ j <= Cardinality(NotAfter(S, sort, r))
      /\ Cardinality(NotAfter(S, sort, r)) \in Nat /\ r \in S
  <2> HIDE DEF S, sort
  <2>1. r \in S
    BY <1>3, <1>4, AnswersAre
  <2>2. QED
    BY <1>3, <1>4, <1>5, <2>1, NotAfterPlace
<1>7. ASSUME Precedes(sort, rows[r], rows[u])
      PROVE  FALSE
  <2>1. NotAfter(S, sort, r) \in SUBSET Before(S, sort, u)
    <3> HIDE DEF S, sort
    <3>1. ASSUME NEW x \in S, ~Precedes(sort, rows[r], rows[x])
          PROVE  Precedes(sort, rows[x], rows[u])
      BY <1>4, <1>5, <1>6, <1>7, <3>1, PrecedesWeakly
    <3>2. QED
      BY <3>1 DEF NotAfter, Before
  <2>2. IsFiniteSet(Before(S, sort, u)) /\ Rank(u) \in Nat
        /\ Rank(u) = Cardinality(Before(S, sort, u))
    BY RankType DEF Base, Rank
  <2> HIDE DEF S, sort
  <2>3. Cardinality(NotAfter(S, sort, r)) <= Cardinality(Before(S, sort, u))
    BY <2>1, <2>2, FS_Subset
  <2>4. Skip(query) \in Nat
    BY <1>1, PassedIs
  <2>5. QED
    BY <1>3, <1>6, <2>2, <2>3, <2>4
<1>8. QED
  BY <1>1, <1>7, SortOfQuery

\* A page that is not sorted anew comes as the answer does.
LEMMA FoundSorted ==
    ASSUME Base, FindPage, at' = "count"
    PROVE  Sorted(page', query.sort)
<1>1. at # "idle" /\ IsQuery(query) /\ (page' = <<>> \/ ~query.joined)
  BY DEF FindPage, Base, WalkInv
<1>2. CASE page' = <<>>
  BY <1>2 DEF Sorted
<1>3. CASE ~query.joined
  <2> DEFINE S == Selected(query.selection)
  <2>1. SortOf(query) = query.sort
    BY <1>1, <1>3, SortOfQuery
  <2>2. PICK s \in Answers(S, SortOf(query)) :
           \A i \in DOMAIN page' :
              i \in Nat /\ Skip(query) + i \in DOMAIN s /\ page'[i] = s[Skip(query) + i]
    BY PageFound DEF Base
  <2>3. \A i, j \in DOMAIN s : i < j => ~Precedes(query.sort, rows[s[j]], rows[s[i]])
    <3>1. IsFiniteSet(S)
      BY SelectedFinite DEF Base
    <3>2. s \in Answers(S, query.sort)
      BY <2>1
    <3> HIDE DEF S
    <3>3. QED
      BY <3>1, <3>2, AnswersAre
  <2>4. Skip(query) \in Nat
    BY <1>1, PassedIs
  <2>5. ASSUME NEW m \in DOMAIN page', NEW n \in DOMAIN page', m < n
        PROVE  ~Precedes(query.sort, rows[page'[n]], rows[page'[m]])
    <3>1. Skip(query) + m < Skip(query) + n
      BY <2>2, <2>4, <2>5
    <3>2. QED
      BY <2>2, <2>3, <3>1
  <2>6. QED
    BY <2>5 DEF Sorted
<1>4. QED
  BY <1>1, <1>2, <1>3

\* Two sorted lists, no row of the second preceding one of the first, are sorted
\* together.
LEMMA SortedTogether ==
    ASSUME NEW S, NEW s \in Seq(S), NEW t \in Seq(S), NEW sort, Sorted(s, sort), Sorted(t, sort),
           \A r \in Seqs!ToSet(t), u \in Seqs!ToSet(s) : ~Precedes(sort, rows[r], rows[u])
    PROVE  Sorted(s \o t, sort)
<1>1. /\ DOMAIN (s \o t) = 1..(Len(s) + Len(t)) /\ Len(s) \in Nat /\ Len(t) \in Nat
      /\ DOMAIN s = 1..Len(s) /\ DOMAIN t = 1..Len(t)
      /\ \A i \in 1..(Len(s) + Len(t)) :
            (s \o t)[i] = IF i <= Len(s) THEN s[i] ELSE t[i - Len(s)]
  OBVIOUS
<1>2. ASSUME NEW m \in DOMAIN (s \o t), NEW n \in DOMAIN (s \o t), m < n
      PROVE  ~Precedes(sort, rows[(s \o t)[n]], rows[(s \o t)[m]])
  <2>1. CASE n <= Len(s)
    <3>1. m \in DOMAIN s /\ n \in DOMAIN s /\ (s \o t)[m] = s[m] /\ (s \o t)[n] = s[n]
      BY <1>1, <1>2, <2>1
    <3>2. QED
      BY <1>2, <3>1 DEF Sorted
  <2>2. CASE ~(m <= Len(s))
    <3>1. /\ m - Len(s) \in DOMAIN t /\ n - Len(s) \in DOMAIN t /\ m - Len(s) < n - Len(s)
          /\ (s \o t)[m] = t[m - Len(s)] /\ (s \o t)[n] = t[n - Len(s)]
      BY <1>1, <1>2, <2>2
    <3>2. QED
      BY <3>1 DEF Sorted
  <2>3. CASE m <= Len(s) /\ ~(n <= Len(s))
    <3>1. /\ m \in DOMAIN s /\ n - Len(s) \in DOMAIN t
          /\ (s \o t)[m] = s[m] /\ (s \o t)[n] = t[n - Len(s)]
      BY <1>1, <1>2, <2>3
    <3>2. (s \o t)[m] \in Seqs!ToSet(s) /\ (s \o t)[n] \in Seqs!ToSet(t)
      BY <3>1 DEF Seqs!ToSet
    <3>3. QED
      BY <3>2
  <2>4. m \in Int /\ n \in Int
    BY <1>1
  <2>5. QED
    BY <1>1, <1>2, <2>1, <2>2, <2>3, <2>4
<1>3. QED
  BY <1>2 DEF Sorted

LEMMA SortedStep ==
    ASSUME Base, Base', PositionInv, SortedInv, Next
    PROVE  SortedInv'
<1> USE ShownIn
<1> DEFINE After(s, t, q) ==
              \A r \in Seqs!ToSet(s), u \in Seqs!ToSet(t) : ~Precedes(q.sort, rows[r], rows[u])
           Goal == /\ Sorted(shown', query'.sort)
                   /\ at' = "count" => Sorted(page', query'.sort)
                   /\ After(page', shown', query')
<1> SUFFICES ASSUME at' # "idle", writes' = "none", rows' = rows
             PROVE  Goal
  <2>1. ASSUME at' # "idle", writes' = "none"
        PROVE  rows' = rows
    <3>1. ASSUME NEW k \in Keys, NEW s \in Scopes, Insert(k, s) PROVE FALSE
      BY <2>1, <3>1, InsertWrites DEF Insert, walk
    <3>2. ASSUME NEW i \in DOMAIN rows, Remove(i) PROVE FALSE
      BY <2>1, <3>2, RemoveWrites DEF Remove, walk
    <3>3. ASSUME NEW i \in DOMAIN rows, NEW k \in Keys, Change(i, k) PROVE FALSE
      BY <2>1, <3>3, ChangeWrites DEF Change, walk
    <3>4. ASSUME FindPage \/ LoadPage \/ CountRows \/ AskNext \/ AskAgain \/ Leave
          PROVE  rows' = rows
      BY <3>4 DEF FindPage, LoadPage, CountRows, AskNext, AskAgain, Leave
    <3>5. ASSUME Refuse \/ QueryFails PROVE rows' = rows
      BY <3>5, FailureTells
    <3>6. ASSUME NEW r \in Requests, NEW n \in PageSizes, NEW s \in Sorts, Ask(r, n, s)
          PROVE  rows' = rows
      BY <3>6 DEF Ask
    <3>7. QED
      BY <3>1, <3>2, <3>3, <3>4, <3>5, <3>6 DEF Next
  <2>2. QED
    BY <2>1 DEF SortedInv, Sorted
<1>1. Sorted(<<>>, query.sort) /\ Sorted(<<>>, query'.sort)
  BY DEF Sorted
<1>2. ASSUME NEW r \in Requests, NEW n \in PageSizes, NEW s \in Sorts, Ask(r, n, s)
      PROVE  Goal
  BY <1>1, <1>2 DEF Ask
<1>3. CASE FindPage
  <2>1. UNCHANGED <<rows, query, answer, shown, start, writes>> /\ at = "page"
    BY <1>3 DEF FindPage
  <2>2. \A u \in Seqs!ToSet(shown) : Rank(u) < Skip(query) /\ u \in DOMAIN rows
    <3>1. Passed = Skip(query)
      BY <2>1, PassedNow DEF Succeeded
    <3>2. QED
      BY <2>1, <3>1 DEF PositionInv, Base, WalkInv
  <2>3. After(page', shown, query)
    BY <1>3, <2>2, FoundAfter
  <2>4. at' = "count" => Sorted(page', query.sort)
    BY <1>3, FoundSorted
  <2>5. QED
    BY <2>1, <2>3, <2>4 DEF SortedInv
<1>4. CASE LoadPage
  <2>1. UNCHANGED <<rows, query, answer, shown, start, writes>> /\ at = "load"
    BY <1>4 DEF LoadPage
  <2>2. /\ Seqs!ToSet(page') \subseteq Seqs!ToSet(page)
        /\ Sorted(page', query.sort)
    BY <1>4, PageLoaded DEF Base, Sorted
  <2>3. QED
    BY <2>1, <2>2 DEF SortedInv
<1>5. CASE CountRows
  <2>1. /\ UNCHANGED <<rows, query, start, writes>> /\ at = "count" /\ page' = <<>>
        /\ shown' = shown \o page /\ shown \in Seq(Ids) /\ page \in Seq(Ids)
        /\ at' = "answered"
    BY <1>5, CountShows
  <2>2. Sorted(shown, query.sort) /\ Sorted(page, query.sort) /\ After(page, shown, query)
    BY <2>1 DEF SortedInv
  <2>3. Sorted(shown \o page, query.sort)
    BY <2>1, <2>2, SortedTogether
  <2>4. QED
    BY <2>1, <2>3
<1>6. CASE Refuse \/ QueryFails
  <2>1. /\ UNCHANGED <<rows, query, shown, start, writes>> /\ at # "idle" /\ page' = <<>>
        /\ at' = "answered"
    BY <1>6, FailureTells
  <2>2. QED
    BY <2>1 DEF SortedInv
<1>7. CASE AskNext \/ AskAgain
  <2>1. /\ UNCHANGED <<page, shown, writes>> /\ at # "idle" /\ at' = "page"
        /\ query' = query \/ query' = [query EXCEPT !.pageNumber = @ + 1]
    BY <1>7 DEF AskNext, AskAgain, Succeeded
  <2>2. query'.sort = query.sort
    BY <2>1, PassedNow, NextPage
  <2>3. QED
    BY <2>1, <2>2 DEF SortedInv
<1>8. CASE Leave
  BY <1>8 DEF Leave
<1>9. ASSUME NEW k \in Keys, NEW s \in Scopes, Insert(k, s) PROVE FALSE
  BY <1>9, InsertWrites DEF Insert, walk
<1>10. ASSUME NEW i \in DOMAIN rows, Remove(i) PROVE FALSE
  BY <1>10, RemoveWrites DEF Remove, walk
<1>11. ASSUME NEW i \in DOMAIN rows, NEW k \in Keys, Change(i, k) PROVE FALSE
  BY <1>11, ChangeWrites DEF Change, walk
<1>12. QED
  BY <1>2, <1>3, <1>4, <1>5, <1>6, <1>7, <1>8, <1>9, <1>10, <1>11 DEF Next

-----------------------------------------------------------------------------
(* Nothing missed *)

\* Fewer rows come before a selected row than are selected.
LEMMA RankBelowCount ==
    ASSUME Base, at # "idle", NEW r \in Selected(query.selection)
    PROVE  Rank(r) < Cardinality(Selected(query.selection))
<1> DEFINE S == Selected(query.selection)
           sort == SortOf(query)
<1>1. IsFiniteSet(S) /\ Cardinality(S) \in Nat /\ Sortable(rows[r])
  BY SelectedFinite DEF Base
<1>2. sort \in Seq(SortColumn)
  BY SortOfQuery DEF Base, WalkInv
<1>3. ~Precedes(sort, rows[r], rows[r])
  <2> HIDE DEF sort
  <2>1. QED
    BY <1>1, <1>2, PrecedesIrreflexive
<1>4. Before(S, sort, r) \in SUBSET S /\ Before(S, sort, r) # S
  <2>1. r \in S /\ r \notin Before(S, sort, r)
    BY <1>3 DEF Before
  <2>2. QED
    BY <2>1 DEF Before
<1>5. Rank(r) \in Nat
  BY RankType DEF Base
<1>6. Cardinality(Before(S, sort, r)) <= Cardinality(S)
      /\ Cardinality(Before(S, sort, r)) # Cardinality(S)
  <2> HIDE DEF S, sort
  <2>1. QED
    BY <1>1, <1>4, FS_Subset
<1>7. QED
  BY <1>1, <1>5, <1>6 DEF Rank

\* The last page ends after the last row.
LEMMA LastPageEnds ==
    ASSUME TypeOK, WalkInv, CountRows, query.pageSize # Unset, IsLast'
    PROVE  Cardinality(Selected(query.selection)) <= EndOfPage
<1> DEFINE n == Cardinality(Selected(query.selection))
           t == query.pageSize
           p == query.pageNumber
<1>1. n \in Nat
  BY SelectedFinite
<1>2. IsQuery(query) /\ query' = query
  BY DEF CountRows, WalkInv
<1>3. t \in Nat \ {0} /\ Take(query) = t
  BY <1>2, PageBounds
<1>4. p \in Nat
  BY <1>2 DEF IsQuery
<1>5. p >= Ceil(n, t)
  <2>1. TotalPages' = Pages(n, query)
    BY CountTells
  <2>2. Pages(n, query) = Ceil(n, t)
    BY DEF Pages
  <2>3. query'.pageNumber >= TotalPages'
    BY DEF IsLast
  <2>4. QED
    BY <1>2, <2>1, <2>2, <2>3
<1>6. EndOfPage = t * (p - 1) + t
  BY <1>3 DEF EndOfPage, Skip
<1> HIDE DEF n, t, p
<1>7. n <= t * p
  BY <1>1, <1>3, <1>4, <1>5, CeilCovers
<1>8. t * (p - 1) + t = t * p
  <2>1. \A x, y \in Nat : x * (y - 1) + x = x * y
    OBVIOUS
  <2>2. QED
    BY <1>3, <1>4, <2>1
<1>9. n <= EndOfPage
  BY <1>6, <1>7, <1>8
<1>10. QED
  BY <1>9 DEF n

LEMMA MissesStep ==
    ASSUME Base, Base', MissesInv, Next
    PROVE  MissesInv'
<1> USE ShownIn
<1> DEFINE S == Selected(query.selection)
           Kept == \A r \in start' \ Seqs!ToSet(shown') :
                        /\ Rank(r)' >= Passed'
                        /\ Reading' => r \in Seqs!ToSet(page') \/ Rank(r)' >= EndOfPage'
           Goal == /\ start' \subseteq S' /\ Seqs!ToSet(page') \subseteq S'
                   /\ Kept
                   /\ IsLast' => start' \subseteq Seqs!ToSet(shown')
<1> SUFFICES ASSUME at' # "idle", NoTies', query'.pageSize # Unset,
                    writes' \in {"none", "inserts"}
             PROVE  Goal
  BY DEF MissesInv, Reading
<1>1. \A r : Rank(r) \in Nat /\ Rank(r)' \in Nat
  BY RankType, RankTypeNext DEF Base
<1>2. ASSUME NEW r \in Requests, NEW n \in PageSizes, NEW s \in Sorts, Ask(r, n, s)
      PROVE  Goal
  <2>1. query'.selection = r.selection /\ query'.pageNumber = 1
    BY <1>2, AskedQuery DEF Ask
  <2>2. start' = S'
    BY <1>2, <2>1 DEF Ask, Selected
  <2>3. Passed' = 0 /\ ~Reading' /\ ~IsLast'
    <3>1. ~Succeeded'
      BY <1>2 DEF Ask, Succeeded
    <3>2. Skip(query') = 0
      BY <2>1, PassedNext, PageBounds
    <3>3. QED
      BY <1>2, <3>1, <3>2, PassedNext DEF Ask, Reading, IsLast
  <2>4. page' = <<>>
    BY <1>2 DEF Ask
  <2> HIDE DEF S
  <2>5. QED
    BY <1>1, <2>2, <2>3, <2>4
<1>3. ASSUME at # "idle", query'.joined = query.joined, query'.sort = query.sort,
             query'.pageSize = query.pageSize, writes \in {"none", "inserts"}
      PROVE  /\ NoTies
             /\ start \subseteq S /\ Seqs!ToSet(page) \subseteq S
             /\ \A r \in start \ Seqs!ToSet(shown) :
                        /\ Rank(r) >= Passed
                        /\ Reading => r \in Seqs!ToSet(page) \/ Rank(r) >= EndOfPage
             /\ IsLast => start \subseteq Seqs!ToSet(shown)
  <2>1. NoTies /\ query.pageSize # Unset
    BY <1>3, NoTiesStays
  <2>2. QED
    BY <1>3, <2>1 DEF MissesInv
<1>4. ASSUME UNCHANGED rows, query'.selection = query.selection, SortOf(query') = SortOf(query)
      PROVE  S' = S /\ \A r : Rank(r)' = Rank(r)
  <2>1. S' = S
    BY <1>4 DEF Selected
  <2>2. QED
    BY <1>4, <2>1, RankStays
<1>5. CASE FindPage
  <2>1. UNCHANGED <<rows, query, answer, shown, start, writes>> /\ at = "page"
        /\ at' \in {"load", "count"}
    BY <1>5 DEF FindPage
  <2>2. Passed = Skip(query) /\ Passed' = Passed /\ EndOfPage' = EndOfPage
        /\ ~IsLast' /\ Skip(query) \in Nat
    BY <2>1, PassedNow, PassedNext DEF Succeeded, IsLast
  <2>3. Seqs!ToSet(page') \subseteq S
    BY <1>5, ReadSelects
  <2>4. ASSUME NEW r \in start \ Seqs!ToSet(shown)
        PROVE  Rank(r) >= Passed /\ (r \in Seqs!ToSet(page') \/ Rank(r) >= EndOfPage)
    <3>1. NoTies /\ r \in S /\ Rank(r) >= Passed
      BY <1>3, <2>1
    <3>2. Rank(r) < Skip(query) \/ Rank(r) >= EndOfPage \/ r \in Seqs!ToSet(page')
      BY <1>5, <3>1, FoundRanks
    <3>3. QED
      BY <1>1, <2>2, <3>1, <3>2
  <2>5. start \subseteq S
    BY <1>3, <2>1
  <2>6. S' = S /\ \A r : Rank(r)' = Rank(r)
    BY <1>4, <2>1
  <2> HIDE DEF S
  <2>7. QED
    BY <2>1, <2>2, <2>3, <2>4, <2>5, <2>6
<1>6. CASE LoadPage
  <2>1. UNCHANGED <<rows, query, answer, shown, start, writes>> /\ at = "load"
        /\ at' = "count"
    BY <1>6 DEF LoadPage
  <2>2. Passed' = Passed /\ EndOfPage' = EndOfPage /\ ~IsLast'
    BY <2>1, PassedNow, PassedNext DEF Succeeded, IsLast
  <2>3. Seqs!ToSet(page') = S \cap Seqs!ToSet(page)
    BY <1>6, PageLoaded DEF Base
  <2>4. S' = S /\ \A r : Rank(r)' = Rank(r)
    BY <1>4, <2>1
  <2> HIDE DEF S
  <2>5. QED
    BY <1>3, <2>1, <2>2, <2>3, <2>4 DEF Reading
<1>7. CASE CountRows
  <2>1. /\ UNCHANGED <<rows, query, start, writes>> /\ at = "count" /\ at' = "answered"
        /\ Seqs!ToSet(shown') = Seqs!ToSet(shown) \cup Seqs!ToSet(page)
        /\ Seqs!ToSet(page') = {}
    BY <1>7, CountShows
  <2>2. S' = S /\ \A r : Rank(r)' = Rank(r)
    BY <1>4, <2>1
  <2>3. Passed' = EndOfPage /\ EndOfPage \in Nat /\ ~Reading'
    <3>1. Succeeded'
      BY <1>7, CountTells DEF Base, Succeeded
    <3>2. QED
      BY <2>1, <3>1, PassedNow, PassedNext DEF Reading
  <2>4. \A r \in start \ Seqs!ToSet(shown') : Rank(r) >= EndOfPage /\ r \in S
    BY <1>3, <2>1 DEF Reading
  <2>5. ASSUME IsLast', NEW r \in start \ Seqs!ToSet(shown')
        PROVE  FALSE
    <3>1. Cardinality(S) <= EndOfPage
      BY <1>7, <2>1, <2>5, LastPageEnds DEF Base
    <3>2. Rank(r) < Cardinality(S)
      BY <2>1, <2>4, <2>5, RankBelowCount
    <3>3. Cardinality(S) \in Nat
      BY SelectedFinite DEF Base
    <3>4. Rank(r) >= EndOfPage /\ Rank(r) \in Nat
      BY <1>1, <2>4, <2>5
    <3> HIDE DEF S
    <3>5. QED
      BY <2>3, <3>1, <3>2, <3>3, <3>4
  <2>6. start \subseteq S
    BY <1>3, <2>1
  <2> HIDE DEF S
  <2>7. QED
    BY <2>1, <2>2, <2>3, <2>4, <2>5, <2>6
<1>8. CASE Refuse \/ QueryFails
  <2>1. /\ UNCHANGED <<rows, query, shown, start, writes>> /\ at \notin {"idle", "answered"}
        /\ at' = "answered" /\ page' = <<>> /\ ~Succeeded'
    BY <1>8, FailureTells
  <2>2. S' = S /\ \A r : Rank(r)' = Rank(r)
    BY <1>4, <2>1
  <2>3. Passed' = Passed /\ ~Reading' /\ ~IsLast'
    BY <2>1, PassedNow, PassedNext DEF Succeeded, Reading, IsLast
  <2> HIDE DEF S
  <2>4. QED
    BY <1>3, <2>1, <2>2, <2>3
<1>9. CASE AskNext
  <2>1. /\ UNCHANGED <<rows, page, shown, start, writes>> /\ Succeeded /\ at' = "page"
        /\ query' = [query EXCEPT !.pageNumber = @ + 1] /\ at # "idle"
    BY <1>9 DEF AskNext, Succeeded
  <2>2. /\ query'.selection = query.selection /\ SortOf(query') = SortOf(query)
        /\ query'.joined = query.joined /\ query'.sort = query.sort
        /\ query'.pageSize = query.pageSize
        /\ Skip(query') = Skip(query) + Take(query)
    BY <2>1, PassedNow, NextPage
  <2>3. S' = S /\ \A r : Rank(r)' = Rank(r)
    BY <1>4, <2>1, <2>2
  <2>4. Passed' = Passed /\ ~Reading' /\ ~IsLast'
    BY <2>1, <2>2, PassedNow, PassedNext DEF Succeeded, Reading, IsLast
  <2> HIDE DEF S
  <2>5. QED
    BY <1>3, <2>1, <2>2, <2>3, <2>4
<1>10. CASE AskAgain
  <2>1. /\ UNCHANGED <<rows, query, page, shown, start, writes>> /\ ~Succeeded /\ at' = "page"
        /\ at # "idle"
    BY <1>10 DEF AskAgain
  <2>2. S' = S /\ \A r : Rank(r)' = Rank(r)
    BY <1>4, <2>1
  <2>3. Passed' = Passed /\ ~Reading' /\ ~IsLast'
    BY <2>1, PassedNow, PassedNext DEF Succeeded, Reading, IsLast
  <2> HIDE DEF S
  <2>4. QED
    BY <1>3, <2>1, <2>2, <2>3
<1>11. CASE Leave
  BY <1>11 DEF Leave
<1>12. ASSUME NEW k \in Keys, NEW s \in Scopes, Insert(k, s) PROVE Goal
  <2>1. UNCHANGED <<query, at, page, answer, shown, start>> /\ writes \in {"none", "inserts"}
    <3>1. UNCHANGED <<query, at, page, answer, shown, start>>
      BY <1>12 DEF Insert, walk
    <3>2. QED
      BY <1>12, <3>1, InsertWrites
  <2>2. /\ NoTies /\ start \subseteq S /\ Seqs!ToSet(page) \subseteq S
        /\ \A r \in start \ Seqs!ToSet(shown) :
                /\ Rank(r) >= Passed
                /\ Reading => r \in Seqs!ToSet(page) \/ Rank(r) >= EndOfPage
        /\ IsLast => start \subseteq Seqs!ToSet(shown)
    BY <1>3, <2>1
  <2>3. S \subseteq S' /\ \A r \in S : Rank(r) <= Rank(r)'
    <3>1. S \subseteq DOMAIN rows
      BY DEF Selected
    <3>2. S \subseteq S'
      BY <1>12, InsertWrites DEF Selected, Written, walk
    <3>3. \A r \in S : Rank(r) <= Rank(r)'
      BY <1>12, <2>1, <3>1, InsertRank
    <3>4. QED
      BY <3>2, <3>3
  <2>4. /\ Passed' = Passed /\ EndOfPage' = EndOfPage /\ Passed \in Nat /\ EndOfPage \in Nat
        /\ Reading' = Reading /\ IsLast' = IsLast
    BY <2>1, PassedNow, PassedNext DEF Succeeded, Reading, IsLast, TotalPages
  <2> HIDE DEF S
  <2>5. Kept
    <3>1. ASSUME NEW r \in start \ Seqs!ToSet(shown)
          PROVE  /\ Rank(r)' >= Passed
                 /\ Reading => r \in Seqs!ToSet(page) \/ Rank(r)' >= EndOfPage
      <4>1. Rank(r) <= Rank(r)' /\ Rank(r) >= Passed
            /\ (Reading => r \in Seqs!ToSet(page) \/ Rank(r) >= EndOfPage)
        BY <2>2, <2>3
      <4>2. QED
        BY <1>1, <2>4, <4>1
    <3>2. QED
      BY <2>1, <2>4, <3>1
  <2>6. QED
    BY <2>1, <2>2, <2>3, <2>4, <2>5
<1>13. ASSUME NEW i \in DOMAIN rows, Remove(i) PROVE FALSE
  BY <1>13, RemoveWrites DEF Remove, walk
<1>14. ASSUME NEW i \in DOMAIN rows, NEW k \in Keys, Change(i, k) PROVE FALSE
  BY <1>14, ChangeWrites DEF Change, walk
<1>15. QED
  BY <1>2, <1>5, <1>6, <1>7, <1>8, <1>9, <1>10, <1>11, <1>12, <1>13, <1>14 DEF Next

-----------------------------------------------------------------------------
(* The theorems *)

LEMMA IInvInit ==
    Init => IInv
<1> SUFFICES ASSUME Init PROVE IInv
  OBVIOUS
<1>1. Base /\ at = "idle" /\ shown = <<>> /\ page = <<>>
  BY TypesInit DEF Init
<1>2. ScopeInv /\ PositionInv /\ RepeatsInv /\ MissesInv /\ SortedInv
  BY <1>1, ShownIn DEF ScopeInv, PositionInv, RepeatsInv, MissesInv, SortedInv
<1>3. QED
  BY <1>1, <1>2 DEF IInv, Base

LEMMA IInvStep ==
    IInv /\ [Next]_vars => IInv'
<1> SUFFICES ASSUME IInv, [Next]_vars PROVE IInv'
  OBVIOUS
<1>1. CASE Next
  <2>1. Base
    BY DEF IInv, Base
  <2>2. Base'
    BY <1>1, <2>1, TypesStep
  <2>3. ScopeInv' /\ PositionInv' /\ RepeatsInv' /\ MissesInv' /\ SortedInv'
    BY <1>1, <2>1, <2>2, ScopeStep, PositionStep, RepeatsStep, MissesStep, SortedStep DEF IInv
  <2>4. QED
    BY <2>2, <2>3 DEF IInv, Base
<1>2. CASE UNCHANGED vars
  <2>1. UNCHANGED <<rows, query, at, page, answer, shown, start, writes>>
    BY <1>2 DEF vars, walk
  <2>2. TypeOK' /\ WalkInv' /\ IdsInv' /\ ScopeInv' /\ FailureIsTold'
    BY <2>1 DEF IInv, TypeOK, TotalPages, WalkInv, Reading, IdsInv, ScopeInv, FailureIsTold,
                 Succeeded, Enveloped
  <2>3. /\ \A r : Rank(r)' = Rank(r)
        /\ Passed' = Passed /\ EndOfPage' = EndOfPage /\ NoTies' = NoTies
        /\ Reading' = Reading /\ IsLast' = IsLast
    BY <2>1, RankStays, NoTiesStays
       DEF Passed, EndOfPage, Succeeded, Enveloped, Reading, IsLast, TotalPages
  <2>4. PositionInv' /\ RepeatsInv' /\ SortedInv'
    BY <2>1, <2>3 DEF IInv, PositionInv, RepeatsInv, SortedInv, Sorted
  <2>5. MissesInv'
    BY <2>1, <2>3 DEF IInv, MissesInv, Selected
  <2>6. QED
    BY <2>2, <2>4, <2>5 DEF IInv
<1>3. QED
  BY <1>1, <1>2

\* The inductive invariant holds: the page under way has the rows its offset says,
\* however the table has changed since the walk began.
THEOREM Inductive ==
    Spec => []IInv
<1>1. QED
  BY IInvInit, IInvStep, PTL DEF Spec

\* The table, the page and the answers have their types, and no page is longer
\* than asked for.
THEOREM TypeCorrect ==
    Spec => []TypeOK
<1>1. IInv => TypeOK
  BY DEF IInv
<1>2. QED
  BY <1>1, Inductive, PTL

\* A client gets rows of the scope that it asks for only, whatever it filters by.
THEOREM ScopeStays ==
    Spec => []ScopeIsKept
<1>1. IInv => ScopeIsKept
  BY DEF IInv, ScopeInv, ScopeIsKept, Seqs!ToSet
<1>2. QED
  BY <1>1, Inductive, PTL

\* A client is told of every failure, and what comes with success is a page.
THEOREM FailuresAreTold ==
    Spec => []FailureIsTold
<1>1. IInv => FailureIsTold
  BY DEF IInv
<1>2. QED
  BY <1>1, Inductive, PTL

\* A client that reads on until totalPages has seen every row that was there when
\* it began, whatever is inserted meanwhile and however often a page failed.
THEOREM NothingMissed ==
    Spec => []WalkMissesNothing
<1>1. IInv => WalkMissesNothing
  BY DEF IInv, MissesInv, WalkMissesNothing, IsLast, Succeeded
<1>2. QED
  BY <1>1, Inductive, PTL

\* A client sees no row twice, whatever is removed meanwhile.
THEOREM NothingTwice ==
    Spec => []WalkRepeatsNothing
<1>1. IInv => WalkRepeatsNothing
  BY DEF IInv, RepeatsInv, WalkRepeatsNothing
<1>2. QED
  BY <1>1, Inductive, PTL

\* The pages of a walk make one sorted list, ties or not, if nobody writes.
THEOREM PagesAreSorted ==
    Spec => []WalkIsSorted
<1>1. IInv => WalkIsSorted
  BY DEF IInv, SortedInv, Sorted, WalkIsSorted
<1>2. QED
  BY <1>1, Inductive, PTL
=============================================================================
