------------------------------ MODULE TagListProofs ------------------------------
(***************************************************************************)
(* Proofs about the list of tags: the merge of a new count, one row signal *)
(* at a time, for any tags and counts.                                     *)
(***************************************************************************)
EXTENDS TagListModel, FiniteSetTheorems, FunctionTheorems, TLAPS

LEMMA CardInterval ==
  ASSUME NEW n \in Nat
  PROVE  IsFiniteSet(1..n) /\ Cardinality(1..n) = n
<1>1. 1 \in Int /\ n \in Int
  OBVIOUS
<1>2. IsFiniteSet(1..n) /\ Cardinality(1..n) = IF 1 > n THEN 0 ELSE n - 1 + 1
  BY <1>1, FS_Interval
<1> QED
  BY <1>2

(* The place of a tag among others. *)
Before(S, t) == {u \in S : u < t}
Rank(S, t) == Cardinality(Before(S, t))

LEMMA RankTyped ==
  ASSUME NEW S, IsFiniteSet(S), S \subseteq Int, NEW t \in S
  PROVE  /\ Rank(S, t) \in Nat /\ Rank(S, t) < Cardinality(S) /\ Cardinality(S) \in Nat
         /\ IsFiniteSet(Before(S, t))
<1>1. Before(S, t) \subseteq S \ {t} /\ Before(S, t) \subseteq S
  BY DEF Before
<1>2. IsFiniteSet(Before(S, t)) /\ Cardinality(Before(S, t)) <= Cardinality(S)
  BY <1>1, FS_Subset
<1>3. Cardinality(S) = Cardinality(Before(S, t)) => S = Before(S, t)
  BY <1>1, FS_Subset
<1>4. Cardinality(S) # Cardinality(Before(S, t))
  BY <1>1, <1>3
<1>5. Cardinality(S) \in Nat /\ Cardinality(Before(S, t)) \in Nat
  BY <1>2, FS_CardinalityType
<1> QED
  BY <1>2, <1>4, <1>5 DEF Rank

LEMMA RankLess ==
  ASSUME NEW S, IsFiniteSet(S), S \subseteq Int, NEW t \in S, NEW u \in S, t < u
  PROVE  Rank(S, t) < Rank(S, u)
<1>1. /\ Before(S, t) \in SUBSET Before(S, u)
      /\ t \in Before(S, u) /\ t \notin Before(S, t)
  <2>1. t \in Int /\ u \in Int /\ \A v \in S : v \in Int
    OBVIOUS
  <2>2. \A v \in S : v < t => v < u
    BY <2>1
  <2>3. ~ (t < t)
    BY <2>1
  <2> QED
    BY <2>2, <2>3 DEF Before
<1>2. IsFiniteSet(Before(S, u)) /\ IsFiniteSet(Before(S, t))
  BY RankTyped
<1>3. /\ Cardinality(Before(S, t)) <= Cardinality(Before(S, u))
      /\ Cardinality(Before(S, u)) = Cardinality(Before(S, t)) => Before(S, u) = Before(S, t)
  BY <1>1, <1>2, FS_Subset
<1>4. Cardinality(Before(S, t)) \in Nat /\ Cardinality(Before(S, u)) \in Nat
  BY <1>2, FS_CardinalityType
<1> QED
  BY <1>1, <1>3, <1>4 DEF Rank

LEMMA RankSame ==
  ASSUME NEW S, IsFiniteSet(S), S \subseteq Int, NEW t \in S, NEW u \in S,
         Rank(S, t) = Rank(S, u)
  PROVE  t = u
<1>1. Rank(S, t) \in Nat
  BY RankTyped
<1>2. ASSUME t < u PROVE FALSE
  <2>1. Rank(S, t) < Rank(S, u)
    BY <1>2, RankLess
  <2> QED
    BY <1>1, <2>1
<1>3. ASSUME u < t PROVE FALSE
  <2>1. Rank(S, u) < Rank(S, t)
    BY <1>3, RankLess
  <2> QED
    BY <1>1, <2>1
<1>4. t \in Int /\ u \in Int
  OBVIOUS
<1> QED
  BY <1>2, <1>3, <1>4

\* Each place is taken.
LEMMA NthTag ==
  ASSUME NEW S, IsFiniteSet(S), S \subseteq Int, NEW n \in 1..Cardinality(S)
  PROVE  Nth(S, n) \in S /\ Rank(S, Nth(S, n)) = n - 1
<1> DEFINE m == Cardinality(S)
           f == [t \in S |-> Rank(S, t) + 1]
<1>1. m \in Nat /\ IsFiniteSet(1..m) /\ Cardinality(1..m) = m
  BY FS_CardinalityType, CardInterval
<1>2. f \in Injection(S, 1..m)
  <2>1. ASSUME NEW t \in S PROVE Rank(S, t) + 1 \in 1..m /\ Rank(S, t) \in Nat
    <3>1. Rank(S, t) \in Nat /\ Rank(S, t) < m
      BY RankTyped
    <3> QED
      BY <1>1, <3>1
  <2>2. f \in [S -> 1..m]
    BY <2>1
  <2>3. ASSUME NEW t \in S, NEW u \in S, f[t] = f[u] PROVE t = u
    <3>1. Rank(S, t) = Rank(S, u)
      BY <2>1, <2>3
    <3> QED
      BY <3>1, RankSame
  <2> HIDE DEF f
  <2> QED
    BY <2>2, <2>3 DEF Injection, IsInjective
<1> HIDE DEF f, m
<1>3. f \in Surjection(S, 1..m)
  BY <1>1, <1>2, FS_Injection DEF m
<1>4. PICK t \in S : f[t] = n
  BY <1>3 DEF Surjection, m
<1>5. Rank(S, t) = n - 1
  <2>1. f[t] = Rank(S, t) + 1
    BY DEF f
  <2>2. Rank(S, t) \in Nat
    BY RankTyped
  <2> QED
    BY <1>4, <2>1, <2>2
<1>6. \E u \in S : Cardinality({v \in S : v < u}) = n - 1
  BY <1>5 DEF Rank, Before
<1> QED
  BY <1>6 DEF Nth, Rank, Before
--------------------------------------------------------------------------------
(* Rows in the order of their names, and the rows that show a count. *)

NamesOf(rows) == {rows[n].name : n \in DOMAIN rows}
Ascending(rows) == \A n, k \in DOMAIN rows : n < k => rows[n].name < rows[k].name
Shows(rows, count, marked) ==
  /\ rows \in Seq(Tags) /\ Ascending(rows) /\ NamesOf(rows) = DOMAIN count
  /\ \A n \in DOMAIN rows : /\ rows[n].count = count[rows[n].name]
                            /\ rows[n].selected <=> rows[n].name \in marked

LEMMA NewTagsFacts ==
  ASSUME NEW count \in NewTags
  PROVE  /\ IsFiniteSet(DOMAIN count) /\ DOMAIN count \subseteq Names /\ DOMAIN count \subseteq Int
         /\ \A t \in DOMAIN count : count[t] \in 1..MaxCount
BY TagListAssumption DEF NewTags

LEMMA SortedShows ==
  ASSUME NEW count \in NewTags, NEW marked
  PROVE  Shows(Sorted(count, marked), count, marked)
<1> DEFINE S == DOMAIN count
           m == Cardinality(S)
<1>1. /\ IsFiniteSet(S) /\ S \subseteq Names /\ S \subseteq Int
      /\ \A t \in S : count[t] \in 1..MaxCount
  BY NewTagsFacts
<1>2. m \in Nat
  BY <1>1, FS_CardinalityType
<1>3. PICK rows : rows = Sorted(count, marked)
  OBVIOUS
<1>4. rows = [n \in 1..m |-> [name |-> Nth(S, n), count |-> count[Nth(S, n)],
                              selected |-> Nth(S, n) \in marked]]
  BY <1>3 DEF Sorted
<1> HIDE DEF S, m
<1>5. \A n \in 1..m : Nth(S, n) \in S /\ Rank(S, Nth(S, n)) = n - 1
  BY <1>1, NthTag DEF m
<1>6. DOMAIN rows = 1..m /\ \A n \in 1..m : /\ rows[n].name = Nth(S, n)
                                            /\ rows[n].count = count[Nth(S, n)]
                                            /\ rows[n].selected = (Nth(S, n) \in marked)
  BY <1>4
<1>7. rows \in Seq(Tags)
  <2>1. ASSUME NEW n \in 1..m PROVE rows[n] \in Tags
    <3>1. Nth(S, n) \in Names /\ count[Nth(S, n)] \in 1..MaxCount
      BY <1>1, <1>5
    <3>2. (Nth(S, n) \in marked) \in BOOLEAN
      OBVIOUS
    <3>3. rows[n] = [name |-> Nth(S, n), count |-> count[Nth(S, n)],
                     selected |-> Nth(S, n) \in marked]
      BY <1>4
    <3> HIDE <1>4
    <3> QED
      BY <3>1, <3>2, <3>3 DEF Tags
  <2>2. rows = [n \in 1..m |-> rows[n]]
    BY <1>4
  <2> QED
    BY <1>2, <2>1, <2>2
<1>8. Ascending(rows)
  <2>1. ASSUME NEW n \in 1..m, NEW k \in 1..m, n < k
        PROVE  Nth(S, n) < Nth(S, k)
    <3>1. Nth(S, n) # Nth(S, k)
      BY <1>5, <2>1
    <3>2. ~ (Nth(S, k) < Nth(S, n))
      <4>1. SUFFICES ASSUME Nth(S, k) < Nth(S, n) PROVE FALSE
        OBVIOUS
      <4>2. Rank(S, Nth(S, k)) < Rank(S, Nth(S, n))
        BY <1>1, <1>5, <4>1, RankLess
      <4> QED
        BY <1>5, <2>1, <4>2
    <3>3. Nth(S, n) \in Int /\ Nth(S, k) \in Int
      BY <1>1, <1>5
    <3> QED
      BY <3>1, <3>2, <3>3
  <2> QED
    BY <1>6, <2>1 DEF Ascending
<1>9. NamesOf(rows) = S
  <2>1. ASSUME NEW t \in S PROVE \E n \in 1..m : Nth(S, n) = t
    <3>0. Rank(S, t) \in Nat /\ Rank(S, t) < m
      BY <1>1, RankTyped DEF m
    <3>1. Rank(S, t) + 1 \in 1..m
      BY <1>2, <3>0
    <3>2. PICK n : n = Rank(S, t) + 1
      OBVIOUS
    <3>3. Nth(S, n) \in S /\ Rank(S, Nth(S, n)) = Rank(S, t)
      BY <1>2, <1>5, <3>0, <3>1, <3>2
    <3> QED
      BY <1>1, <3>1, <3>2, <3>3, RankSame
  <2> QED
    BY <1>5, <1>6, <2>1 DEF NamesOf
<1> QED
  BY <1>3, <1>6, <1>7, <1>8, <1>9 DEF Shows, S

\* There is one list that shows a count.
LEMMA ShowsSorted ==
  ASSUME NEW count \in NewTags, NEW marked, NEW rows, Shows(rows, count, marked)
  PROVE  rows = Sorted(count, marked)
<1> DEFINE S == DOMAIN count
           m == Len(rows)
<1>1. IsFiniteSet(S) /\ S \subseteq Int
  BY NewTagsFacts
<1>2. /\ rows \in Seq(Tags) /\ m \in Nat /\ DOMAIN rows = 1..m /\ Ascending(rows)
      /\ S = {rows[n].name : n \in 1..m}
      /\ \A n \in 1..m : rows[n].count = count[rows[n].name] /\ rows[n] \in Tags
      /\ \A n \in 1..m : rows[n].selected <=> rows[n].name \in marked
  <2>1. /\ rows \in Seq(Tags) /\ m \in Nat /\ DOMAIN rows = 1..m
        /\ \A n \in 1..m : rows[n] \in Tags
    BY DEF Shows
  <2>2. Ascending(rows) /\ S = {rows[n].name : n \in 1..m}
    BY <2>1 DEF Shows, NamesOf
  <2>3. /\ \A n \in 1..m : rows[n].count = count[rows[n].name]
        /\ \A n \in 1..m : rows[n].selected <=> rows[n].name \in marked
    BY <2>1 DEF Shows
  <2> QED
    BY <2>1, <2>2, <2>3
<1> HIDE DEF S, m
<1>3. \A n \in 1..m : rows[n].name \in S /\ rows[n].name \in Int
  BY <1>1, <1>2
<1>4. ASSUME NEW n \in 1..m, NEW k \in 1..m PROVE rows[n].name < rows[k].name <=> n < k
  <2>1. n < k => rows[n].name < rows[k].name
    BY <1>2 DEF Ascending
  <2>2. k < n => rows[k].name < rows[n].name
    BY <1>2 DEF Ascending
  <2> QED
    BY <1>3, <2>1, <2>2
<1>5. ASSUME NEW q \in 0..m, NEW T, T = {rows[k].name : k \in 1..q}
      PROVE  IsFiniteSet(T) /\ Cardinality(T) = q
  <2> DEFINE f == [k \in 1..q |-> rows[k].name]
  <2>1. f \in Surjection(1..q, T)
    <3>1. f \in [1..q -> T] /\ \A t \in T : \E k \in 1..q : f[k] = t
      BY <1>5
    <3> HIDE DEF f
    <3> QED
      BY <3>1 DEF Surjection
  <2>2. f \in Injection(1..q, T)
    <3>1. f \in [1..q -> T]
      BY <1>5
    <3>2. ASSUME NEW k \in 1..q, NEW l \in 1..q, f[k] = f[l] PROVE k = l
      <4>1. k \in 1..m /\ l \in 1..m /\ rows[k].name = rows[l].name
        BY <1>2, <3>2
      <4> QED
        BY <1>3, <1>4, <4>1
    <3> HIDE DEF f
    <3> QED
      BY <3>1, <3>2 DEF Injection, IsInjective
  <2>3. IsFiniteSet(1..q) /\ Cardinality(1..q) = q
    BY CardInterval
  <2> HIDE DEF f
  <2> QED
    BY <2>1, <2>2, <2>3, FS_Surjection
<1>6. Cardinality(S) = m
  BY <1>2, <1>5
<1>7. ASSUME NEW n \in 1..m PROVE Nth(S, n) = rows[n].name
  <2>1. Before(S, rows[n].name) = {rows[k].name : k \in 1..(n - 1)}
    <3>1. ASSUME NEW t \in Before(S, rows[n].name) PROVE t \in {rows[k].name : k \in 1..(n - 1)}
      <4>1. PICK k \in 1..m : t = rows[k].name /\ t < rows[n].name
        BY <1>2 DEF Before
      <4>2. k \in 1..(n - 1)
        BY <1>2, <1>4, <4>1
      <4> QED
        BY <4>1, <4>2
    <3>2. ASSUME NEW k \in 1..(n - 1) PROVE rows[k].name \in Before(S, rows[n].name)
      <4>1. k \in 1..m /\ k < n
        BY <1>2
      <4> QED
        BY <1>3, <1>4, <4>1 DEF Before
    <3> QED
      BY <3>1, <3>2
  <2>2. n - 1 \in 0..m
    BY <1>2
  <2>3. Rank(S, rows[n].name) = n - 1
    BY <1>5, <2>1, <2>2 DEF Rank
  <2>4. Nth(S, n) \in S /\ Rank(S, Nth(S, n)) = n - 1
    BY <1>1, <1>6, NthTag
  <2> QED
    BY <1>1, <1>3, <2>3, <2>4, RankSame
<1>8. Sorted(count, marked)
      = [n \in 1..m |-> [name |-> Nth(S, n), count |-> count[Nth(S, n)],
                         selected |-> Nth(S, n) \in marked]]
  BY <1>6 DEF Sorted, S
<1>9. ASSUME NEW n \in 1..m
      PROVE  rows[n] = [name |-> Nth(S, n), count |-> count[Nth(S, n)],
                        selected |-> Nth(S, n) \in marked]
  <2>1. rows[n] \in [name : Names, count : 1..MaxCount, selected : BOOLEAN]
    BY <1>2 DEF Tags
  <2>2. rows[n] = [name |-> rows[n].name, count |-> rows[n].count,
                   selected |-> rows[n].selected]
    BY <2>1
  <2>3. rows[n].selected = (rows[n].name \in marked)
    BY <1>2, <2>1
  <2> QED
    BY <1>2, <1>7, <2>2, <2>3
<1>10. rows = [n \in 1..m |-> rows[n]]
  BY <1>2
<1> QED
  BY <1>8, <1>9, <1>10
--------------------------------------------------------------------------------
(* Removing and inserting a row. *)

LEMMA Joined ==
  ASSUME NEW S, NEW a \in Seq(S), NEW b \in Seq(S)
  PROVE  /\ a \o b \in Seq(S) /\ Len(a \o b) = Len(a) + Len(b)
         /\ \A n \in 1..(Len(a) + Len(b)) :
              (a \o b)[n] = IF n <= Len(a) THEN a[n] ELSE b[n - Len(a)]
  OBVIOUS

RemovedAt(S, s, k, q) ==
  /\ q \in Seq(S) /\ Len(q) = Len(s) - 1 /\ DOMAIN q = 1..(Len(s) - 1)
  /\ \A n \in 1..(k - 1) : q[n] = s[n]
  /\ \A n \in k..(Len(s) - 1) : q[n] = s[n + 1]

LEMMA Removed ==
  ASSUME NEW S, NEW s \in Seq(S), NEW k \in 1..Len(s), NEW q, q = RemoveAt(s, k)
  PROVE  RemovedAt(S, s, k, q)
<1> DEFINE m == Len(s)
           a == SubSeq(s, 1, k - 1)
           b == SubSeq(s, k + 1, m)
<1>1. /\ m \in Nat /\ k \in Nat /\ k >= 1 /\ k <= m /\ \A n \in 1..m : s[n] \in S
      /\ DOMAIN s = 1..m
  OBVIOUS
<1>2. a = [n \in 1..(k - 1) |-> s[n]]
  BY <1>1
<1>3. b = [n \in 1..(m - k) |-> s[n + k]]
  BY <1>1
<1>4. q = a \o b
  BY DEF RemoveAt
<1> HIDE DEF a, b, m
<1>5. a \in Seq(S) /\ Len(a) = k - 1
  <2>1. k - 1 \in Nat /\ \A n \in 1..(k - 1) : s[n] \in S
    BY <1>1
  <2> QED
    BY <1>2, <2>1
<1>6. b \in Seq(S) /\ Len(b) = m - k
  <2>1. m - k \in Nat /\ \A n \in 1..(m - k) : s[n + k] \in S
    BY <1>1
  <2> QED
    BY <1>3, <2>1
<1>7. /\ q \in Seq(S) /\ Len(q) = (k - 1) + (m - k)
      /\ \A n \in 1..(k - 1) : q[n] = a[n]
      /\ \A n \in k..(m - 1) : q[n] = b[n - (k - 1)]
  <2>1. q \in Seq(S) /\ Len(q) = (k - 1) + (m - k)
    <3>1. a \in Seq(S) /\ b \in Seq(S)
      BY <1>5, <1>6
    <3>2. q \in Seq(S) /\ Len(q) = Len(a) + Len(b)
      BY <1>4, <3>1, Joined, Zenon
    <3> QED
      BY <1>5, <1>6, <3>2, Zenon
  <2>2. \A n \in 1..Len(q) : q[n] = IF n <= k - 1 THEN a[n] ELSE b[n - (k - 1)]
    BY <1>1, <1>4, <1>5, <1>6, <2>1, Joined
  <2>3. \A n \in 1..(k - 1) : n \in 1..Len(q) /\ n <= k - 1
    BY <1>1, <2>1
  <2>4. \A n \in k..(m - 1) : n \in 1..Len(q) /\ ~ (n <= k - 1)
    BY <1>1, <2>1
  <2> QED
    BY <2>1, <2>2, <2>3, <2>4
<1>8. \A n \in k..(m - 1) : n - (k - 1) \in 1..(m - k) /\ n - (k - 1) + k = n + 1
  BY <1>1
<1>9. \A n \in k..(m - 1) : q[n] = s[n + 1]
  BY <1>3, <1>7, <1>8
<1>10. \A n \in 1..(k - 1) : q[n] = s[n]
  BY <1>2, <1>7
<1>11. Len(q) = m - 1 /\ DOMAIN q = 1..(m - 1)
  BY <1>1, <1>7
<1> QED
  BY <1>7, <1>9, <1>10, <1>11 DEF m, RemovedAt

InsertedAt(S, s, k, e, q) ==
  /\ q \in Seq(S) /\ Len(q) = Len(s) + 1 /\ DOMAIN q = 1..(Len(s) + 1)
  /\ \A n \in 1..(k - 1) : q[n] = s[n]
  /\ q[k] = e
  /\ \A n \in (k + 1)..(Len(s) + 1) : q[n] = s[n - 1]

LEMMA Inserted ==
  ASSUME NEW S, NEW s \in Seq(S), NEW k \in 1..(Len(s) + 1), NEW e \in S,
         NEW q, q = InsertAt(s, k, e)
  PROVE  InsertedAt(S, s, k, e, q)
<1> DEFINE m == Len(s)
           a == SubSeq(s, 1, k - 1)
           b == SubSeq(s, k, m)
<1>1. /\ m \in Nat /\ k \in Nat /\ k >= 1 /\ k <= m + 1 /\ \A n \in 1..m : s[n] \in S
      /\ DOMAIN s = 1..m
  OBVIOUS
<1>2. a = [n \in 1..(k - 1) |-> s[n]]
  BY <1>1
<1>3. b = [n \in 1..(m - k + 1) |-> s[n + k - 1]]
  BY <1>1
<1>4. q = a \o <<e>> \o b
  BY DEF InsertAt
<1> HIDE DEF a, b, m
<1>5. a \in Seq(S) /\ Len(a) = k - 1
  <2>1. k - 1 \in Nat /\ \A n \in 1..(k - 1) : s[n] \in S
    BY <1>1
  <2> QED
    BY <1>2, <2>1
<1>6. b \in Seq(S) /\ Len(b) = m - k + 1
  <2>1. m - k + 1 \in Nat /\ \A n \in 1..(m - k + 1) : s[n + k - 1] \in S
    BY <1>1
  <2> QED
    BY <1>3, <2>1
<1>7. PICK c : c = a \o <<e>>
  OBVIOUS
<1>8. /\ c \in Seq(S) /\ Len(c) = k /\ c[k] = e
      /\ \A n \in 1..(k - 1) : c[n] = a[n]
  BY <1>1, <1>5, <1>7
<1>9. /\ q \in Seq(S) /\ Len(q) = k + (m - k + 1)
      /\ \A n \in 1..k : q[n] = c[n]
      /\ \A n \in (k + 1)..(m + 1) : q[n] = b[n - k]
  BY <1>1, <1>4, <1>6, <1>7, <1>8
<1>10. \A n \in (k + 1)..(m + 1) : n - k \in 1..(m - k + 1) /\ n - k + k - 1 = n - 1
  BY <1>1
<1>11. \A n \in (k + 1)..(m + 1) : q[n] = s[n - 1]
  BY <1>3, <1>9, <1>10
<1>12. \A n \in 1..(k - 1) : q[n] = s[n]
  <2>1. \A n \in 1..(k - 1) : n \in 1..k
    BY <1>1
  <2> QED
    BY <1>2, <1>8, <1>9, <2>1
<1>13. q[k] = e
  BY <1>1, <1>8, <1>9
<1>14. Len(q) = m + 1 /\ DOMAIN q = 1..(m + 1)
  BY <1>1, <1>9
<1> QED
  BY <1>9, <1>11, <1>12, <1>13, <1>14 DEF m, InsertedAt

LEMMA TagAppended ==
  ASSUME NEW S, NEW s \in Seq(S), NEW e \in S, NEW q, q = Append(s, e)
  PROVE  /\ q \in Seq(S) /\ Len(q) = Len(s) + 1 /\ Len(s) \in Nat
         /\ DOMAIN q = 1..(Len(s) + 1) /\ DOMAIN s = 1..Len(s)
         /\ q[Len(s) + 1] = e /\ \A n \in 1..Len(s) : q[n] = s[n]
  OBVIOUS

LEMMA FirstKey ==
  ASSUME NEW S, IsFiniteSet(S), S \subseteq Int, S # {},
         NEW t, t = CHOOSE x \in S : \A u \in S : x <= u
  PROVE  t \in S /\ \A u \in S : t <= u
<1>1. Cardinality(S) \in Nat /\ Cardinality(S) # 0
  BY FS_CardinalityType, FS_EmptySet
<1>2. PICK x \in S : Rank(S, x) = 0
  <2>1. 1 \in 1..Cardinality(S)
    BY <1>1
  <2>2. Nth(S, 1) \in S /\ Rank(S, Nth(S, 1)) = 1 - 1
    BY <2>1, NthTag
  <2>3. 1 - 1 = 0
    OBVIOUS
  <2>4. Rank(S, Nth(S, 1)) = 0
    BY <2>2, <2>3
  <2> QED
    BY <2>2, <2>4, Zenon
<1>3. Before(S, x) = {}
  BY <1>2, RankTyped, FS_EmptySet DEF Rank
<1>4. ASSUME NEW u \in S PROVE x <= u
  <2>1. ~ (u < x)
    BY <1>3 DEF Before
  <2>2. u \in Int /\ x \in Int
    OBVIOUS
  <2> QED
    BY <2>1, <2>2
<1>5. \E y \in S : \A u \in S : y <= u
  BY <1>4
<1> QED
  BY <1>5
--------------------------------------------------------------------------------
(* The merge: rows is the list, count the new count, keys those that newIter has *)
(* not passed, marked the tags that were checked when the merge began, k the row. *)

\* A mark stays with its name, and a checked tag that stays in use is there.
Marked(rows, count, marked) ==
  /\ \A n \in DOMAIN rows : rows[n].selected <=> rows[n].name \in marked
  /\ \A t \in marked : t \in DOMAIN count => t \in NamesOf(rows)

\* The first m rows have their new counts; their tags are in use; and their tags are the
\* keys passed, before all others.
Counted(rows, count, m) ==
  \A n \in 1..m : rows[n].name \in DOMAIN count => rows[n].count = count[rows[n].name]
InUse(rows, count, m) == \A n \in 1..m : rows[n].name \in DOMAIN count
Passed(rows, count, keys, m) ==
  /\ \A t \in DOMAIN count : t \in keys \/ \E n \in 1..m : rows[n].name = t
  /\ \A n \in 1..m : \A u \in keys : rows[n].name < u

MergeTypes(rows, count, keys, marked, k) ==
  /\ rows \in Seq(Tags) /\ Ascending(rows) /\ count \in NewTags /\ keys \subseteq DOMAIN count
  /\ marked \subseteq Names /\ k \in 1..(Len(rows) + 1)

MergeOK(loop, rows, count, keys, marked, k) ==
  CASE loop = "idle" -> TRUE
    [] loop = "count"  -> /\ Marked(rows, count, marked) /\ keys = DOMAIN count
                          /\ Counted(rows, count, k - 1)
    [] loop = "remove" -> /\ Marked(rows, count, marked) /\ keys = DOMAIN count
                          /\ Counted(rows, count, Len(rows)) /\ InUse(rows, count, k - 1)
    [] loop = "insert" -> /\ Marked(rows, count, marked) /\ Counted(rows, count, Len(rows))
                          /\ InUse(rows, count, Len(rows)) /\ Passed(rows, count, keys, k - 1)
    [] loop = "append" -> /\ Marked(rows, count, marked) /\ Counted(rows, count, Len(rows))
                          /\ InUse(rows, count, Len(rows)) /\ Passed(rows, count, keys, Len(rows))

MergeInv == /\ pc \in {"idle", "count", "remove", "insert", "append"}
            /\ uses \in 0..MaxUses /\ view = tags
            /\ MergeTypes(tags, newTags, left, chosen, i)
            /\ MergeOK(pc, tags, newTags, left, chosen, i)

LEMMA Row ==
  ASSUME NEW rows \in Seq(Tags)
  PROVE  /\ Len(rows) \in Nat /\ DOMAIN rows = 1..Len(rows)
         /\ \A n \in 1..Len(rows) : /\ rows[n] \in Tags /\ rows[n].name \in Names
                                    /\ rows[n].name \in Int /\ rows[n].count \in 1..MaxCount
                                    /\ rows[n].selected \in BOOLEAN
<1>1. /\ Len(rows) \in Nat /\ DOMAIN rows = 1..Len(rows)
      /\ \A n \in 1..Len(rows) : rows[n] \in Tags
  OBVIOUS
<1> QED
  BY <1>1, TagListAssumption DEF Tags

\* The count of row k is updated, if its tag is in use.
LEMMA CountStep ==
  ASSUME NEW rows, NEW count, NEW keys, NEW marked, NEW k \in 1..Len(rows), NEW q,
         MergeTypes(rows, count, keys, marked, k), MergeOK("count", rows, count, keys, marked, k),
         q = IF rows[k].name \in DOMAIN count
             THEN [rows EXCEPT ![k].count = count[rows[k].name]] ELSE rows
  PROVE  /\ MergeTypes(q, count, keys, marked, k + 1)
         /\ MergeOK("count", q, count, keys, marked, k + 1)
<1>1. /\ rows \in Seq(Tags) /\ Ascending(rows) /\ count \in NewTags /\ keys \subseteq DOMAIN count
      /\ marked \subseteq Names
  BY DEF MergeTypes
<1>2. /\ Marked(rows, count, marked) /\ keys = DOMAIN count /\ Counted(rows, count, k - 1)
  BY DEF MergeOK
<1>3. /\ Len(rows) \in Nat /\ DOMAIN rows = 1..Len(rows) /\ \A n \in 1..Len(rows) : rows[n] \in Tags
  BY <1>1, Row
<1>4. ASSUME rows[k].name \in DOMAIN count
      PROVE  /\ q \in Seq(Tags) /\ Len(q) = Len(rows) /\ DOMAIN q = DOMAIN rows
             /\ \A n \in DOMAIN rows : q[n].name = rows[n].name /\ q[n].selected = rows[n].selected
             /\ \A n \in DOMAIN rows : n # k => q[n].count = rows[n].count
             /\ q[k].count = count[rows[k].name]
  <2>1. PICK c : c = count[rows[k].name]
    OBVIOUS
  <2>2. c \in 1..MaxCount
    BY <1>1, <1>4, <2>1, NewTagsFacts
  <2>3. PICK e : e = [rows[k] EXCEPT !.count = c]
    OBVIOUS
  <2>4. rows[k] \in [name : Names, count : 1..MaxCount, selected : BOOLEAN]
    BY <1>3 DEF Tags
  <2>5. e.name = rows[k].name /\ e.selected = rows[k].selected /\ e.count = c /\ e \in Tags
    BY <2>2, <2>3, <2>4 DEF Tags
  <2>6. q = [rows EXCEPT ![k] = e]
    BY <1>4, <2>1, <2>3
  <2>7. /\ q \in Seq(Tags) /\ Len(q) = Len(rows) /\ DOMAIN q = DOMAIN rows
        /\ q[k] = e /\ \A n \in DOMAIN rows : n # k => q[n] = rows[n]
    BY <1>1, <1>3, <2>5, <2>6
  <2> QED
    BY <2>1, <2>5, <2>7
<1>5. /\ q \in Seq(Tags) /\ Len(q) = Len(rows) /\ DOMAIN q = DOMAIN rows
      /\ \A n \in DOMAIN rows : q[n].name = rows[n].name /\ q[n].selected = rows[n].selected
      /\ \A n \in DOMAIN rows : n # k => q[n].count = rows[n].count
      /\ rows[k].name \in DOMAIN count => q[k].count = count[rows[k].name]
  BY <1>1, <1>4
<1>6. Ascending(q)
  BY <1>1, <1>5 DEF Ascending
<1>7. MergeTypes(q, count, keys, marked, k + 1)
  <2>1. k + 1 \in 1..(Len(q) + 1)
    BY <1>3, <1>5
  <2> QED
    BY <1>1, <1>5, <1>6, <2>1 DEF MergeTypes
<1>8. Marked(q, count, marked)
  <2>1. NamesOf(q) = NamesOf(rows)
    BY <1>5 DEF NamesOf
  <2> QED
    BY <1>2, <1>5, <2>1 DEF Marked
<1>9. Counted(q, count, k)
  <2>1. ASSUME NEW n \in 1..k, q[n].name \in DOMAIN count PROVE q[n].count = count[q[n].name]
    <3>1. n \in DOMAIN rows /\ (n = k \/ n \in 1..(k - 1))
      BY <1>3
    <3>2. CASE n = k
      BY <1>3, <1>5, <2>1, <3>2
    <3>3. CASE n \in 1..(k - 1)
      <4>1. n # k
        BY <1>3, <3>3
      <4> QED
        BY <1>2, <1>5, <2>1, <3>1, <3>3, <4>1 DEF Counted
    <3> QED
      BY <3>1, <3>2, <3>3
  <2> QED
    BY <2>1 DEF Counted
<1>10. k + 1 - 1 = k
  BY <1>3
<1> QED
  BY <1>2, <1>7, <1>8, <1>9, <1>10 DEF MergeOK

\* Row k is removed if its tag is out of use.
LEMMA RemoveStep ==
  ASSUME NEW rows, NEW count, NEW keys, NEW marked, NEW k \in 1..Len(rows),
         MergeTypes(rows, count, keys, marked, k), MergeOK("remove", rows, count, keys, marked, k),
         rows[k].name \notin DOMAIN count, NEW q, q = RemoveAt(rows, k)
  PROVE  /\ MergeTypes(q, count, keys, marked, k)
         /\ MergeOK("remove", q, count, keys, marked, k)
<1>1. /\ rows \in Seq(Tags) /\ Ascending(rows) /\ count \in NewTags /\ keys \subseteq DOMAIN count
      /\ marked \subseteq Names
  BY DEF MergeTypes
<1>2. /\ Marked(rows, count, marked) /\ keys = DOMAIN count /\ Counted(rows, count, Len(rows))
      /\ InUse(rows, count, k - 1)
  BY DEF MergeOK
<1>3. Len(rows) \in Nat /\ DOMAIN rows = 1..Len(rows) /\ k \in Nat
  BY <1>1, Row
<1>4. /\ q \in Seq(Tags) /\ Len(q) = Len(rows) - 1 /\ DOMAIN q = 1..(Len(rows) - 1)
      /\ \A n \in 1..(k - 1) : q[n] = rows[n]
      /\ \A n \in k..(Len(rows) - 1) : q[n] = rows[n + 1]
  <2>1. rows \in Seq(Tags) /\ k \in 1..Len(rows) /\ q = RemoveAt(rows, k)
    BY <1>1
  <2> HIDE <1>1
  <2>2. RemovedAt(Tags, rows, k, q)
    BY <2>1, Removed
  <2> QED
    BY <2>2 DEF RemovedAt
\* Where each row was.
<1>5. PICK f : f = [n \in DOMAIN q |-> IF n < k THEN n ELSE n + 1]
  OBVIOUS
<1>6. /\ \A n \in DOMAIN q : f[n] \in DOMAIN rows /\ f[n] # k /\ q[n] = rows[f[n]]
      /\ \A n, l \in DOMAIN q : n < l => f[n] < f[l]
      /\ \A l \in DOMAIN rows : l # k => \E n \in DOMAIN q : f[n] = l
  <2>1. ASSUME NEW n \in DOMAIN q
        PROVE  f[n] \in DOMAIN rows /\ f[n] # k /\ q[n] = rows[f[n]]
    <3>1. CASE n < k
      <4>1. f[n] = n /\ n \in 1..(k - 1)
        BY <1>3, <1>4, <1>5, <3>1
      <4> QED
        BY <1>3, <1>4, <3>1, <4>1
    <3>2. CASE ~ (n < k)
      <4>1. f[n] = n + 1 /\ n \in k..(Len(rows) - 1)
        BY <1>3, <1>4, <1>5, <3>2
      <4> QED
        BY <1>3, <1>4, <3>2, <4>1
    <3> QED
      BY <3>1, <3>2
  <2>2. \A n, l \in DOMAIN q : n < l => f[n] < f[l]
    BY <1>3, <1>4, <1>5
  <2>3. ASSUME NEW l \in DOMAIN rows, l # k PROVE \E n \in DOMAIN q : f[n] = l
    <3>1. CASE l < k
      <4>1. l \in DOMAIN q /\ f[l] = l
        BY <1>3, <1>4, <1>5, <3>1
      <4> QED
        BY <4>1
    <3>2. CASE l > k
      <4>1. l - 1 \in DOMAIN q /\ f[l - 1] = l
        BY <1>3, <1>4, <1>5, <3>2
      <4> QED
        BY <4>1
    <3> QED
      BY <1>3, <2>3, <3>1, <3>2
  <2> QED
    BY <2>1, <2>2, <2>3
<1>7. Ascending(q)
  BY <1>1, <1>6 DEF Ascending
<1>8. MergeTypes(q, count, keys, marked, k)
  <2>1. k \in 1..(Len(q) + 1)
    BY <1>3, <1>4
  <2> QED
    BY <1>1, <1>4, <1>7, <2>1 DEF MergeTypes
<1>9. Marked(q, count, marked)
  <2>1. \A n \in DOMAIN q : q[n].selected <=> q[n].name \in marked
    BY <1>2, <1>6 DEF Marked
  <2>2. ASSUME NEW t \in marked, t \in DOMAIN count PROVE t \in NamesOf(q)
    <3>1. PICK l \in DOMAIN rows : rows[l].name = t
      BY <1>2, <2>2 DEF Marked, NamesOf
    <3>2. l # k
      BY <2>2, <3>1
    <3>3. PICK n \in DOMAIN q : f[n] = l
      BY <1>6, <3>2
    <3> QED
      BY <1>6, <3>1, <3>3 DEF NamesOf
  <2> QED
    BY <2>1, <2>2 DEF Marked
<1>10. Counted(q, count, Len(q))
  <2>1. \A n \in 1..Len(q) : f[n] \in 1..Len(rows) /\ q[n] = rows[f[n]]
    BY <1>3, <1>4, <1>6
  <2> QED
    BY <1>2, <2>1 DEF Counted
<1>11. InUse(q, count, k - 1)
  BY <1>2, <1>4 DEF InUse
<1> QED
  BY <1>2, <1>8, <1>9, <1>10, <1>11 DEF MergeOK

\* A row of a tag in use stays.
LEMMA KeepStep ==
  ASSUME NEW rows, NEW count, NEW keys, NEW marked, NEW k \in 1..Len(rows),
         MergeTypes(rows, count, keys, marked, k), MergeOK("remove", rows, count, keys, marked, k),
         rows[k].name \in DOMAIN count
  PROVE  /\ MergeTypes(rows, count, keys, marked, k + 1)
         /\ MergeOK("remove", rows, count, keys, marked, k + 1)
<1>1. rows \in Seq(Tags) /\ Len(rows) \in Nat
  BY Row DEF MergeTypes
<1>2. MergeTypes(rows, count, keys, marked, k + 1)
  <2>1. k + 1 \in 1..(Len(rows) + 1)
    BY <1>1
  <2> QED
    BY <2>1 DEF MergeTypes
<1>3. InUse(rows, count, k)
  <2>1. InUse(rows, count, k - 1)
    BY DEF MergeOK
  <2>2. \A n \in 1..k : n = k \/ n \in 1..(k - 1)
    BY <1>1
  <2> QED
    BY <2>1, <2>2 DEF InUse
<1>4. k + 1 - 1 = k
  BY <1>1
<1> QED
  BY <1>2, <1>3, <1>4 DEF MergeOK

\* The smallest of the keys that are left.
FirstOf(keys) == CHOOSE t \in keys : \A u \in keys : t <= u

LEMMA FirstOfKeys ==
  ASSUME NEW count \in NewTags, NEW keys, keys \subseteq DOMAIN count, keys # {}
  PROVE  /\ FirstOf(keys) \in keys /\ \A u \in keys : FirstOf(keys) <= u
         /\ FirstOf(keys) \in Int /\ FirstOf(keys) \in Names
         /\ \A u \in keys : u \in Int
<1>1. /\ IsFiniteSet(DOMAIN count) /\ DOMAIN count \subseteq Names /\ DOMAIN count \subseteq Int
  BY NewTagsFacts
<1>2. IsFiniteSet(keys) /\ keys \subseteq Int
  BY <1>1, FS_Subset
<1>3. PICK t : t = FirstOf(keys)
  OBVIOUS
<1>4. t \in keys /\ \A u \in keys : t <= u
  BY <1>2, <1>3, FirstKey DEF FirstOf
<1> QED
  BY <1>1, <1>2, <1>3, <1>4

\* In the loop that inserts there is a key for the row, and it is not behind the row.
LEMMA KeyForRow ==
  ASSUME NEW rows, NEW count, NEW keys, NEW marked, NEW k \in 1..Len(rows),
         MergeTypes(rows, count, keys, marked, k), MergeOK("insert", rows, count, keys, marked, k)
  PROVE  /\ rows[k].name \in keys /\ FirstOf(keys) <= rows[k].name
         /\ \A n \in k..Len(rows) : rows[n].name \in keys
<1>1. /\ rows \in Seq(Tags) /\ Ascending(rows) /\ count \in NewTags /\ keys \subseteq DOMAIN count
  BY DEF MergeTypes
<1>2. InUse(rows, count, Len(rows)) /\ Passed(rows, count, keys, k - 1)
  BY DEF MergeOK
<1>3. /\ Len(rows) \in Nat /\ DOMAIN rows = 1..Len(rows)
      /\ \A n \in 1..Len(rows) : rows[n].name \in Int
  BY <1>1, Row
<1>4. ASSUME NEW n \in k..Len(rows) PROVE rows[n].name \in keys
  <2>1. n \in 1..Len(rows) /\ rows[n].name \in DOMAIN count
    BY <1>2, <1>3 DEF InUse
  <2>2. ASSUME NEW l \in 1..(k - 1) PROVE rows[l].name # rows[n].name
    <3>1. l \in 1..Len(rows) /\ l < n
      BY <1>3
    <3>2. rows[l].name < rows[n].name
      BY <1>1, <1>3, <2>1, <3>1 DEF Ascending
    <3> QED
      BY <1>3, <2>1, <3>1, <3>2
  <2> QED
    BY <1>2, <2>1, <2>2 DEF Passed
<1>5. k \in k..Len(rows)
  BY <1>3
<1>6. rows[k].name \in keys
  BY <1>4, <1>5
<1> QED
  BY <1>1, <1>4, <1>6, FirstOfKeys

\* The key is the row's: both are passed.
LEMMA PassStep ==
  ASSUME NEW rows, NEW count, NEW keys, NEW marked, NEW k \in 1..Len(rows),
         MergeTypes(rows, count, keys, marked, k), MergeOK("insert", rows, count, keys, marked, k),
         ~ (FirstOf(keys) < rows[k].name), NEW less, less = keys \ {FirstOf(keys)}
  PROVE  /\ MergeTypes(rows, count, less, marked, k + 1)
         /\ MergeOK("insert", rows, count, less, marked, k + 1)
<1>1. /\ rows \in Seq(Tags) /\ count \in NewTags /\ keys \subseteq DOMAIN count
  BY DEF MergeTypes
<1>2. Passed(rows, count, keys, k - 1)
  BY DEF MergeOK
<1>3. Len(rows) \in Nat /\ k \in 1..Len(rows) /\ rows[k].name \in Int
  BY <1>1, Row
<1>4. rows[k].name \in keys /\ FirstOf(keys) <= rows[k].name
  BY KeyForRow
<1>5. /\ FirstOf(keys) \in keys /\ \A u \in keys : FirstOf(keys) <= u
      /\ FirstOf(keys) \in Int /\ \A u \in keys : u \in Int
  BY <1>1, <1>4, FirstOfKeys
<1>6. FirstOf(keys) = rows[k].name
  BY <1>3, <1>4, <1>5
<1>7. Passed(rows, count, less, k)
  <2>1. ASSUME NEW t \in DOMAIN count PROVE t \in less \/ \E n \in 1..k : rows[n].name = t
    <3>1. k \in 1..k /\ \A n \in 1..(k - 1) : n \in 1..k
      BY <1>3
    <3>2. t \in keys \/ \E n \in 1..(k - 1) : rows[n].name = t
      BY <1>2 DEF Passed
    <3> QED
      BY <1>6, <3>1, <3>2
  <2>2. ASSUME NEW n \in 1..k, NEW u \in less PROVE rows[n].name < u
    <3>1. n = k \/ n \in 1..(k - 1)
      BY <1>3
    <3>2. CASE n = k
      BY <1>5, <1>6, <3>2
    <3>3. CASE n \in 1..(k - 1)
      BY <1>2, <3>3 DEF Passed
    <3> QED
      BY <3>1, <3>2, <3>3
  <2> QED
    BY <2>1, <2>2 DEF Passed
<1>8. MergeTypes(rows, count, less, marked, k + 1)
  <2>1. k + 1 \in 1..(Len(rows) + 1) /\ less \subseteq DOMAIN count
    BY <1>1, <1>3
  <2> QED
    BY <2>1 DEF MergeTypes
<1>9. k + 1 - 1 = k
  BY <1>3
<1> QED
  BY <1>7, <1>8, <1>9 DEF MergeOK

\* The row of a key that is new.
LEMMA NewRow ==
  ASSUME NEW count \in NewTags, NEW t \in DOMAIN count,
         NEW e, e = [name |-> t, count |-> count[t], selected |-> FALSE]
  PROVE  e \in Tags /\ e.name = t /\ e.count = count[t] /\ e.selected = FALSE
<1>1. t \in Names /\ count[t] \in 1..MaxCount
  BY NewTagsFacts
<1> QED
  BY <1>1 DEF Tags

\* Where the rows of a list are found after a row was inserted at k.
Places(f, s, q, k) ==
  /\ \A n \in DOMAIN q : n # k => /\ f[n] \in DOMAIN s /\ q[n] = s[f[n]]
                                  /\ n < k => f[n] < k
                                  /\ n > k => ~ (f[n] < k)
  /\ \A n, l \in DOMAIN q : n < l /\ n # k /\ l # k => f[n] < f[l]
  /\ \A l \in DOMAIN s : \E n \in DOMAIN q : n # k /\ f[n] = l

Insertion(S, s, k, e, q) ==
  /\ q \in Seq(S) /\ Len(q) = Len(s) + 1 /\ DOMAIN q = 1..(Len(s) + 1)
  /\ q[k] = e /\ \A n \in 1..(k - 1) : q[n] = s[n]
  /\ \E f : Places(f, s, q, k)

LEMMA InsertedPlaces ==
  ASSUME NEW S, NEW s \in Seq(S), NEW k \in 1..(Len(s) + 1), NEW e \in S,
         NEW q, q = InsertAt(s, k, e)
  PROVE  Insertion(S, s, k, e, q)
<1>0. InsertedAt(S, s, k, e, q)
  BY Inserted
<1>1. /\ q \in Seq(S) /\ Len(q) = Len(s) + 1 /\ DOMAIN q = 1..(Len(s) + 1)
      /\ \A n \in 1..(k - 1) : q[n] = s[n]
      /\ q[k] = e
      /\ \A n \in (k + 1)..(Len(s) + 1) : q[n] = s[n - 1]
  BY <1>0 DEF InsertedAt
<1>2. Len(s) \in Nat /\ DOMAIN s = 1..Len(s) /\ k \in Nat /\ 1 <= k /\ k <= Len(s) + 1
  OBVIOUS
<1>3. PICK m \in Nat : m = Len(s)
  BY <1>2
<1>4. PICK f : f = [n \in 1..(m + 1) |-> IF n < k THEN n ELSE n - 1]
  OBVIOUS
<1>5. ASSUME NEW n \in 1..(m + 1), n # k
      PROVE  /\ f[n] \in 1..m /\ q[n] = s[f[n]]
             /\ n < k => f[n] < k
             /\ n > k => ~ (f[n] < k)
  <2>1. CASE n < k
    <3>1. f[n] = n /\ n \in 1..(k - 1) /\ n \in 1..m /\ ~ (n > k)
      BY <1>2, <1>3, <1>4, <2>1
    <3>2. q[n] = s[n]
      BY <1>1, <3>1
    <3> QED
      BY <2>1, <3>1, <3>2
  <2>2. CASE n > k
    <3>1. /\ f[n] = n - 1 /\ n \in (k + 1)..(m + 1) /\ n - 1 \in 1..m
          /\ ~ (n < k) /\ ~ (n - 1 < k)
      BY <1>2, <1>3, <1>4, <2>2
    <3>2. q[n] = s[n - 1]
      BY <1>1, <1>3, <3>1
    <3> QED
      BY <2>2, <3>1, <3>2
  <2> QED
    BY <1>2, <1>3, <1>5, <2>1, <2>2
<1>6. \A n, l \in 1..(m + 1) : n < l /\ n # k /\ l # k => f[n] < f[l]
  BY <1>2, <1>3, <1>4
<1>7. ASSUME NEW l \in 1..m PROVE \E n \in 1..(m + 1) : n # k /\ f[n] = l
  <2>1. CASE l < k
    <3>1. l \in 1..(m + 1) /\ l # k /\ f[l] = l
      BY <1>2, <1>3, <1>4, <2>1
    <3> QED
      BY <3>1
  <2>2. CASE ~ (l < k)
    <3>1. l + 1 \in 1..(m + 1) /\ l + 1 # k /\ f[l + 1] = l
      BY <1>2, <1>3, <1>4, <2>2
    <3> QED
      BY <3>1
  <2> QED
    BY <2>1, <2>2
<1>8. DOMAIN q = 1..(m + 1) /\ DOMAIN s = 1..m
  BY <1>1, <1>2, <1>3
<1>9. Places(f, s, q, k)
  BY <1>5, <1>6, <1>7, <1>8, Zenon DEF Places
<1> QED
  BY <1>1, <1>9, Zenon DEF Insertion

LEMMA OneMore ==
  ASSUME NEW m \in Nat, NEW k \in 1..m
  PROVE  k \in 1..(m + 1) /\ k + 1 \in 1..(m + 1 + 1) /\ \A n \in 1..(m + 1) : n \in Nat
OBVIOUS

\* The key is before the row: it gets a row of its own.
LEMMA InsertStep ==
  ASSUME NEW rows, NEW count, NEW keys, NEW marked, NEW k \in 1..Len(rows),
         MergeTypes(rows, count, keys, marked, k), MergeOK("insert", rows, count, keys, marked, k),
         NEW t, t = FirstOf(keys), t < rows[k].name, NEW less, less = keys \ {t},
         NEW e, e = [name |-> t, count |-> count[t], selected |-> FALSE],
         NEW q, q = InsertAt(rows, k, e)
  PROVE  /\ MergeTypes(q, count, less, marked, k + 1)
         /\ MergeOK("insert", q, count, less, marked, k + 1)
<1>1. /\ rows \in Seq(Tags) /\ Ascending(rows) /\ count \in NewTags /\ keys \subseteq DOMAIN count
      /\ marked \subseteq Names
  BY DEF MergeTypes
<1>2. /\ Marked(rows, count, marked) /\ Counted(rows, count, Len(rows))
      /\ InUse(rows, count, Len(rows)) /\ Passed(rows, count, keys, k - 1)
  BY DEF MergeOK
<1>3. /\ Len(rows) \in Nat /\ DOMAIN rows = 1..Len(rows) /\ k \in Nat /\ 1 <= k /\ k <= Len(rows)
      /\ \A n \in 1..Len(rows) : rows[n].name \in Int
  BY <1>1, Row
<1>4. keys # {}
  BY KeyForRow
<1>5. /\ t \in keys /\ (\A u \in keys : t <= u) /\ (\A u \in keys : u \in Int)
      /\ t \in Int /\ t \in DOMAIN count
  BY <1>1, <1>4, FirstOfKeys
<1>6. e \in Tags /\ e.name = t /\ e.count = count[t] /\ e.selected = FALSE
  BY <1>1, <1>5, NewRow
<1>7. /\ q \in Seq(Tags) /\ Len(q) = Len(rows) + 1 /\ DOMAIN q = 1..(Len(rows) + 1)
      /\ q[k] = e /\ \A n \in 1..(k - 1) : q[n] = rows[n]
      /\ \E f : Places(f, rows, q, k)
  <2>1. k \in 1..(Len(rows) + 1)
    BY <1>3, OneMore
  <2>2. rows \in Seq(Tags) /\ e \in Tags
    BY <1>1, <1>6
  <2>3. Insertion(Tags, rows, k, e, q)
    BY <2>1, <2>2, InsertedPlaces, Zenon
  <2> QED
    BY <2>3, Zenon DEF Insertion
<1>8. PICK f : Places(f, rows, q, k)
  BY <1>7
\* The rows before k, and those from k on.
<1>9. ASSUME NEW n \in DOMAIN rows
      PROVE  /\ n < k => rows[n].name < t
             /\ ~ (n < k) => t < rows[n].name
             /\ rows[n].name # t
  <2>1. ASSUME n < k PROVE rows[n].name < t
    <3>1. n \in 1..(k - 1)
      BY <1>3, <2>1
    <3> QED
      BY <1>2, <1>5, <3>1 DEF Passed
  <2>2. ASSUME ~ (n < k) PROVE t < rows[n].name
    <3>1. n = k \/ k < n
      BY <1>3, <2>2
    <3>2. k < n => rows[k].name < rows[n].name
      BY <1>1, <1>3 DEF Ascending
    <3> QED
      BY <1>3, <1>5, <3>1, <3>2
  <2> QED
    BY <1>3, <1>5, <2>1, <2>2
<1>10. k \in DOMAIN q /\ \A n \in DOMAIN q : n \in Nat
  <2>1. k \in 1..(Len(rows) + 1) /\ \A n \in 1..(Len(rows) + 1) : n \in Nat
    BY <1>3, OneMore
  <2> QED
    BY <1>7, <2>1, Zenon
<1>11. Ascending(q)
  <2>1. ASSUME NEW n \in DOMAIN q, NEW l \in DOMAIN q, n < l PROVE q[n].name < q[l].name
    <3>1. n \in Nat /\ l \in Nat
      BY <1>10
    <3>2. CASE n # k /\ l # k
      <4>1. /\ f[n] \in DOMAIN rows /\ f[l] \in DOMAIN rows /\ f[n] < f[l]
            /\ q[n] = rows[f[n]] /\ q[l] = rows[f[l]]
        BY <1>8, <2>1, <3>2 DEF Places
      <4> QED
        BY <1>1, <4>1 DEF Ascending
    <3>3. CASE n = k
      <4>1. l # k /\ l > k
        BY <1>3, <2>1, <3>1, <3>3
      <4>2. f[l] \in DOMAIN rows /\ q[l] = rows[f[l]] /\ ~ (f[l] < k)
        BY <1>8, <4>1 DEF Places
      <4> QED
        BY <1>6, <1>7, <1>9, <3>3, <4>2
    <3>4. CASE l = k
      <4>1. n # k /\ n < k
        BY <1>3, <2>1, <3>1, <3>4
      <4>2. f[n] \in DOMAIN rows /\ q[n] = rows[f[n]] /\ f[n] < k
        BY <1>8, <4>1 DEF Places
      <4> QED
        BY <1>6, <1>7, <1>9, <3>4, <4>2
    <3> QED
      BY <3>2, <3>3, <3>4
  <2> QED
    BY <2>1 DEF Ascending
<1>12. MergeTypes(q, count, less, marked, k + 1)
  <2>1. k + 1 \in 1..(Len(q) + 1) /\ less \subseteq DOMAIN count
    BY <1>1, <1>3, <1>7
  <2> QED
    BY <1>1, <1>7, <1>11, <2>1 DEF MergeTypes
<1>13. Marked(q, count, marked)
  <2>1. t \notin marked
    BY <1>2, <1>5, <1>9 DEF Marked, NamesOf
  <2>2. ASSUME NEW n \in DOMAIN q PROVE q[n].selected <=> q[n].name \in marked
    <3>1. CASE n = k
      BY <1>6, <1>7, <2>1, <3>1
    <3>2. CASE n # k
      <4>1. f[n] \in DOMAIN rows /\ q[n] = rows[f[n]]
        BY <1>8, <3>2 DEF Places
      <4>2. \A l \in DOMAIN rows : rows[l].selected <=> rows[l].name \in marked
        BY <1>2 DEF Marked
      <4> QED
        BY <4>1, <4>2, Zenon
    <3> QED
      BY <3>1, <3>2
  <2>3. NamesOf(rows) \subseteq NamesOf(q)
    <3>1. ASSUME NEW l \in DOMAIN rows PROVE rows[l].name \in NamesOf(q)
      <4>1. PICK n \in DOMAIN q : n # k /\ f[n] = l
        BY <1>8 DEF Places
      <4>2. q[n] = rows[l]
        BY <1>8, <4>1 DEF Places
      <4> QED
        BY <4>2 DEF NamesOf
    <3> QED
      BY <3>1 DEF NamesOf
  <2> QED
    BY <1>2, <2>2, <2>3 DEF Marked
<1>14. ASSUME NEW n \in DOMAIN q
       PROVE  q[n].name \in DOMAIN count /\ q[n].count = count[q[n].name]
  <2>1. \A l \in DOMAIN rows : /\ rows[l].name \in DOMAIN count
                               /\ rows[l].count = count[rows[l].name]
    BY <1>2, <1>3 DEF Counted, InUse
  <2>2. CASE n = k
    <3>1. q[n] = e
      BY <1>7, <2>2
    <3> QED
      BY <1>5, <1>6, <3>1
  <2>3. CASE n # k
    <3>1. f[n] \in DOMAIN rows /\ q[n] = rows[f[n]]
      BY <1>8, <2>3 DEF Places
    <3> QED
      BY <2>1, <3>1, Zenon
  <2> QED
    BY <2>2, <2>3
<1>15. Counted(q, count, Len(q)) /\ InUse(q, count, Len(q))
  <2>1. DOMAIN q = 1..Len(q)
    BY <1>7
  <2> QED
    BY <2>1, <1>14 DEF Counted, InUse
<1>16. Passed(q, count, less, k)
  <2>1. ASSUME NEW x \in DOMAIN count PROVE x \in less \/ \E n \in 1..k : q[n].name = x
    <3>1. k \in 1..k /\ 1..(k - 1) \subseteq 1..k
      BY <1>3
    <3>2. x \in keys \/ \E n \in 1..(k - 1) : rows[n].name = x
      BY <1>2 DEF Passed
    <3>3. CASE x \in keys
      BY <1>6, <1>7, <3>1, <3>3
    <3>4. CASE \E n \in 1..(k - 1) : rows[n].name = x
      BY <1>7, <3>1, <3>4
    <3> QED
      BY <3>2, <3>3, <3>4
  <2>2. ASSUME NEW n \in 1..k, NEW u \in less PROVE q[n].name < u
    <3>1. n = k \/ n \in 1..(k - 1)
      BY <1>3
    <3>2. t < u
      BY <1>5
    <3>3. CASE n = k
      BY <1>6, <1>7, <3>2, <3>3
    <3>4. CASE n \in 1..(k - 1)
      BY <1>2, <1>7, <3>4 DEF Passed
    <3> QED
      BY <3>1, <3>3, <3>4
  <2> QED
    BY <2>1, <2>2 DEF Passed
<1>17. k + 1 - 1 = k
  BY <1>3
<1> QED
  BY <1>12, <1>13, <1>15, <1>16, <1>17 DEF MergeOK

\* The keys are behind all rows: the first of them is appended.
LEMMA AppendStep ==
  ASSUME NEW rows, NEW count, NEW keys, NEW marked, NEW k,
         MergeTypes(rows, count, keys, marked, k), MergeOK("append", rows, count, keys, marked, k),
         keys # {}, NEW t, t = FirstOf(keys), NEW less, less = keys \ {t},
         NEW e, e = [name |-> t, count |-> count[t], selected |-> FALSE],
         NEW q, q = Append(rows, e)
  PROVE  /\ MergeTypes(q, count, less, marked, k)
         /\ MergeOK("append", q, count, less, marked, k)
<1>1. /\ rows \in Seq(Tags) /\ Ascending(rows) /\ count \in NewTags /\ keys \subseteq DOMAIN count
      /\ marked \subseteq Names /\ k \in 1..(Len(rows) + 1)
  BY DEF MergeTypes
<1>2. /\ Marked(rows, count, marked) /\ Counted(rows, count, Len(rows))
      /\ InUse(rows, count, Len(rows)) /\ Passed(rows, count, keys, Len(rows))
  BY DEF MergeOK
<1>3. /\ t \in keys /\ (\A u \in keys : t <= u) /\ (\A u \in keys : u \in Int)
      /\ t \in Int /\ t \in DOMAIN count
  BY <1>1, FirstOfKeys
<1>4. e \in Tags /\ e.name = t /\ e.count = count[t] /\ e.selected = FALSE
  BY <1>1, <1>3, NewRow
<1>5. PICK m : m = Len(rows)
  OBVIOUS
<1>6. /\ q \in Seq(Tags) /\ Len(q) = m + 1 /\ m \in Nat
      /\ DOMAIN q = 1..(m + 1) /\ DOMAIN rows = 1..m
      /\ q[m + 1] = e /\ \A n \in 1..m : q[n] = rows[n]
  <2>1. rows \in Seq(Tags) /\ e \in Tags /\ q = Append(rows, e)
    BY <1>1, <1>4
  <2> QED
    BY <1>5, <2>1, TagAppended
<1>7. ASSUME NEW n \in 1..m PROVE rows[n].name < t /\ rows[n].name \in Int
  BY <1>1, <1>2, <1>3, <1>5, Row DEF Passed
<1>8. /\ \A n \in 1..(m + 1) : n = m + 1 \/ n \in 1..m
      /\ \A n \in 1..m : n \in 1..(m + 1) /\ n < m + 1 /\ n \in Nat
      /\ m + 1 \in 1..(m + 1)
  BY <1>6
<1>9. Ascending(q)
  <2>1. ASSUME NEW n \in 1..(m + 1), NEW l \in 1..(m + 1), n < l PROVE q[n].name < q[l].name
    <3>1. n \in 1..m
      BY <1>6, <2>1
    <3>2. CASE l = m + 1
      BY <1>4, <1>6, <1>7, <3>1, <3>2
    <3>3. CASE l \in 1..m
      BY <1>1, <1>6, <2>1, <3>1, <3>3 DEF Ascending
    <3> QED
      BY <1>8, <3>2, <3>3
  <2> QED
    BY <1>6, <2>1 DEF Ascending
<1>10. MergeTypes(q, count, less, marked, k)
  <2>1. k \in 1..(Len(q) + 1) /\ less \subseteq DOMAIN count
    BY <1>1, <1>5, <1>6
  <2> QED
    BY <1>1, <1>6, <1>9, <2>1 DEF MergeTypes
<1>11. Marked(q, count, marked)
  <2>1. t \notin NamesOf(rows)
    <3>1. ASSUME NEW n \in 1..m PROVE rows[n].name # t
      BY <1>3, <1>7
    <3> QED
      BY <1>6, <3>1 DEF NamesOf
  <2>2. t \notin marked
    BY <1>2, <1>3, <2>1 DEF Marked
  <2>3. ASSUME NEW n \in 1..(m + 1) PROVE q[n].selected <=> q[n].name \in marked
    <3>1. CASE n = m + 1
      BY <1>4, <1>6, <2>2, <3>1
    <3>2. CASE n \in 1..m
      BY <1>2, <1>6, <3>2 DEF Marked
    <3> QED
      BY <1>8, <3>1, <3>2
  <2>4. NamesOf(rows) \subseteq NamesOf(q)
    BY <1>6, <1>8 DEF NamesOf
  <2> QED
    BY <1>2, <1>6, <2>3, <2>4 DEF Marked
<1>12. ASSUME NEW n \in 1..(m + 1)
       PROVE  q[n].name \in DOMAIN count /\ q[n].count = count[q[n].name]
  <2>1. CASE n = m + 1
    BY <1>3, <1>4, <1>6, <2>1
  <2>2. CASE n \in 1..m
    BY <1>2, <1>5, <1>6, <2>2 DEF Counted, InUse
  <2> QED
    BY <1>8, <2>1, <2>2
<1>13. Counted(q, count, Len(q)) /\ InUse(q, count, Len(q))
  BY <1>6, <1>12 DEF Counted, InUse
<1>14. Passed(q, count, less, m + 1)
  <2>1. ASSUME NEW x \in DOMAIN count PROVE x \in less \/ \E n \in 1..(m + 1) : q[n].name = x
    <3>1. x \in keys \/ \E n \in 1..m : rows[n].name = x
      BY <1>2, <1>5 DEF Passed
    <3>2. CASE x = t
      BY <1>4, <1>6, <1>8, <3>2
    <3>3. CASE x \in keys /\ x # t
      BY <3>3
    <3>4. CASE \E n \in 1..m : rows[n].name = x
      BY <1>6, <1>8, <3>4
    <3> QED
      BY <3>1, <3>2, <3>3, <3>4
  <2>2. ASSUME NEW n \in 1..(m + 1), NEW u \in less PROVE q[n].name < u
    <3>1. u \in keys /\ t < u
      BY <1>3
    <3>2. CASE n = m + 1
      BY <1>4, <1>6, <3>1, <3>2
    <3>3. CASE n \in 1..m
      BY <1>2, <1>5, <1>6, <3>1, <3>3 DEF Passed
    <3> QED
      BY <1>8, <3>2, <3>3
  <2> QED
    BY <2>1, <2>2 DEF Passed
<1> QED
  BY <1>6, <1>10, <1>11, <1>13, <1>14 DEF MergeOK

\* From loop to loop.
LEMMA LeaveStep ==
  ASSUME NEW rows, NEW count, NEW keys, NEW marked, NEW k, ~ (k <= Len(rows)),
         MergeTypes(rows, count, keys, marked, k)
  PROVE  /\ MergeTypes(rows, count, keys, marked, 1)
         /\ MergeOK("count", rows, count, keys, marked, k)
              => MergeOK("remove", rows, count, keys, marked, 1)
         /\ MergeOK("remove", rows, count, keys, marked, k)
              => MergeOK("insert", rows, count, keys, marked, 1)
         /\ MergeOK("insert", rows, count, keys, marked, k)
              => MergeOK("append", rows, count, keys, marked, 1)
<1>1. rows \in Seq(Tags) /\ k \in 1..(Len(rows) + 1) /\ Len(rows) \in Nat
  BY Row DEF MergeTypes
<1>2. k - 1 = Len(rows) /\ 1 \in 1..(Len(rows) + 1)
  BY <1>1
<1>3. MergeTypes(rows, count, keys, marked, 1)
  BY <1>2 DEF MergeTypes
<1>4. 1..(1 - 1) = {}
  OBVIOUS
<1>5. InUse(rows, count, 1 - 1)
  BY <1>4 DEF InUse
<1>6. keys = DOMAIN count => Passed(rows, count, keys, 1 - 1)
  BY <1>4 DEF Passed
<1> QED
  BY <1>2, <1>3, <1>5, <1>6 DEF MergeOK

\* When there is no key left, the list shows the new count.
LEMMA MergeShows ==
  ASSUME NEW rows, NEW count, NEW marked, NEW k, MergeTypes(rows, count, {}, marked, k),
         MergeOK("append", rows, count, {}, marked, k)
  PROVE  Shows(rows, count, marked)
<1>1. /\ rows \in Seq(Tags) /\ Ascending(rows) /\ DOMAIN rows = 1..Len(rows)
  BY Row DEF MergeTypes
<1>2. /\ Marked(rows, count, marked) /\ Counted(rows, count, Len(rows))
      /\ InUse(rows, count, Len(rows)) /\ Passed(rows, count, {}, Len(rows))
  BY DEF MergeOK
<1>3. NamesOf(rows) = DOMAIN count
  <2>1. ASSUME NEW t \in DOMAIN count PROVE t \in NamesOf(rows)
    BY <1>1, <1>2 DEF Passed, NamesOf
  <2>2. ASSUME NEW n \in DOMAIN rows PROVE rows[n].name \in DOMAIN count
    BY <1>1, <1>2 DEF InUse
  <2> QED
    BY <2>1, <2>2 DEF NamesOf
<1>4. \A n \in DOMAIN rows : /\ rows[n].count = count[rows[n].name]
                             /\ rows[n].selected <=> rows[n].name \in marked
  BY <1>1, <1>2 DEF Counted, InUse, Marked
<1> QED
  BY <1>1, <1>3, <1>4 DEF Shows

\* In a list with ascending names the checked tags are those of the checked rows.
LEMMA CheckedRows ==
  ASSUME NEW rows \in Seq(Tags)
  PROVE  /\ Checked(rows) \subseteq Names
         /\ Ascending(rows) => Marked(rows, [t \in {} |-> t], Checked(rows))
         /\ \A t \in Checked(rows) : t \in NamesOf(rows)
<1>1. Checked(rows) = {rows[n].name : n \in {n \in DOMAIN rows : rows[n].selected}}
  BY DEF Checked, ToSet
<1>2. DOMAIN rows = 1..Len(rows) /\ Len(rows) \in Nat
      /\ \A n \in DOMAIN rows : rows[n].name \in Names /\ rows[n].name \in Int
  BY Row
<1>3. ASSUME Ascending(rows), NEW n \in DOMAIN rows
      PROVE  rows[n].selected <=> rows[n].name \in Checked(rows)
  <2>1. ASSUME NEW l \in DOMAIN rows, rows[l].name = rows[n].name PROVE l = n
    <3>1. ~ (l < n) /\ ~ (n < l)
      BY <1>2, <1>3, <2>1 DEF Ascending
    <3> QED
      BY <1>2, <3>1
  <2> QED
    BY <1>1, <2>1
<1> QED
  BY <1>1, <1>2, <1>3 DEF Marked, NamesOf

\* An empty list, and a count of no tags.
LEMMA NoRows ==
  ASSUME NEW count \in NewTags, NEW rows, rows = <<>> \/ DOMAIN count = {}
  PROVE  Sorted(count, Checked(rows)) = Sorted(count, {})
<1>1. CASE rows = <<>>
  <2>1. Checked(rows) = {}
    BY <1>1 DEF Checked, ToSet
  <2> QED
    BY <2>1
<1>2. CASE DOMAIN count = {}
  <2>1. Cardinality(DOMAIN count) = 0 /\ 1..0 = {}
    BY <1>2, FS_EmptySet
  <2> QED
    BY <2>1 DEF Sorted
<1> QED
  BY <1>1, <1>2

LEMMA EmptyList ==
  /\ <<>> \in Seq(Tags) /\ Len(<<>>) = 0 /\ DOMAIN <<>> = {} /\ <<>> \in NewTags
<1>1. <<>> \in [{} -> 1..MaxCount] /\ {} \in SUBSET Names /\ IsFiniteSet({})
  BY FS_EmptySet
<1>2. <<>> \in NewTags
  BY <1>1 DEF NewTags
<1> QED
  BY <1>2

Clicks(rows, n, q, p) == /\ q = [rows EXCEPT ![n].selected = ~@]
                         /\ p = [rows EXCEPT ![n].selected = q[n].selected]

\* A click flips the mark of one row; the view is told of the new mark.
LEMMA Clicked ==
  ASSUME NEW rows, NEW count, NEW keys, NEW marked, NEW k, NEW n \in DOMAIN rows,
         MergeTypes(rows, count, keys, marked, k),
         NEW q, NEW p, Clicks(rows, n, q, p)
  PROVE  MergeTypes(q, count, keys, marked, k) /\ p = q
<1>1. rows \in Seq(Tags) /\ Ascending(rows) /\ k \in 1..(Len(rows) + 1)
  BY DEF MergeTypes
<1>2. PICK e : e = [rows[n] EXCEPT !.selected = ~ rows[n].selected]
  OBVIOUS
<1>3. rows[n] \in [name : Names, count : 1..MaxCount, selected : BOOLEAN]
  BY <1>1, Row DEF Tags
<1>4. e \in Tags /\ e.name = rows[n].name /\ e.selected = ~ rows[n].selected
  BY <1>2, <1>3 DEF Tags
<1>5. q = [rows EXCEPT ![n] = e]
  BY <1>2 DEF Clicks
<1>6. /\ q \in Seq(Tags) /\ Len(q) = Len(rows) /\ DOMAIN q = DOMAIN rows
      /\ \A l \in DOMAIN rows : q[l].name = rows[l].name
      /\ q[n] = e
  BY <1>1, <1>4, <1>5
<1>7. Ascending(q)
  BY <1>1, <1>6 DEF Ascending
<1>8. p = [rows EXCEPT ![n] = e]
  <2>1. q[n].selected = ~ rows[n].selected
    BY <1>4, <1>6
  <2> QED
    BY <1>2, <2>1 DEF Clicks
<1> QED
  BY <1>5, <1>6, <1>7, <1>8 DEF MergeTypes

\* An update that resets the list, and one that begins to merge.
LEMMA UpdateReset ==
  ASSUME NEW count \in NewTags, NEW marked, marked \subseteq Names,
         NEW rows, rows = Sorted(count, {})
  PROVE  MergeTypes(rows, count, DOMAIN count, marked, 1)
<1>1. Shows(rows, count, {})
  BY SortedShows
<1>2. rows \in Seq(Tags) /\ Ascending(rows)
  BY <1>1 DEF Shows
<1>3. 1 \in 1..(Len(rows) + 1)
  BY <1>2, Row
<1> QED
  BY <1>2, <1>3 DEF MergeTypes

LEMMA UpdateBegins ==
  ASSUME NEW count \in NewTags, NEW rows, NEW old, NEW keys, NEW marked, NEW k,
         MergeTypes(rows, old, keys, marked, k), NEW now, now = Checked(rows)
  PROVE  /\ MergeTypes(rows, count, DOMAIN count, now, 1)
         /\ MergeOK("count", rows, count, DOMAIN count, now, 1)
<1>1. rows \in Seq(Tags) /\ Ascending(rows)
  BY DEF MergeTypes
<1>2. 1 \in 1..(Len(rows) + 1) /\ 1..(1 - 1) = {}
  BY <1>1, Row
<1>3. MergeTypes(rows, count, DOMAIN count, now, 1)
  BY <1>1, <1>2, CheckedRows DEF MergeTypes
<1>4. Marked(rows, count, now)
  BY <1>1, CheckedRows DEF Marked
<1>5. Counted(rows, count, 1 - 1)
  BY <1>2 DEF Counted
<1> QED
  BY <1>3, <1>4, <1>5 DEF MergeOK
--------------------------------------------------------------------------------
(* The invariant of the merge. *)

LEMMA KeyIsFirst == Key = FirstOf(left)
BY DEF Key, FirstOf

LEMMA MergeInit == Init => MergeInv
<1> SUFFICES ASSUME Init PROVE MergeInv
  OBVIOUS
<1>1. /\ tags = <<>> /\ view = <<>> /\ newTags = <<>> /\ left = {}
      /\ pc = "idle" /\ i = 1 /\ chosen = {} /\ uses = 0
  BY DEF Init
<1>2. Ascending(tags) /\ 1 \in 1..(Len(tags) + 1)
  BY <1>1, EmptyList DEF Ascending
<1>3. MergeTypes(tags, newTags, left, chosen, i)
  BY <1>1, <1>2, EmptyList DEF MergeTypes
<1>4. MergeOK(pc, tags, newTags, left, chosen, i)
  BY <1>1 DEF MergeOK
<1>5. uses \in 0..MaxUses
  BY <1>1, TagListAssumption
<1> QED
  BY <1>1, <1>3, <1>4, <1>5 DEF MergeInv

LEMMA MergeNext == MergeInv /\ [Next]_vars => MergeInv'
<1> SUFFICES ASSUME MergeInv, [Next]_vars PROVE MergeInv'
  OBVIOUS
<1>1. /\ pc \in {"idle", "count", "remove", "insert", "append"}
      /\ uses \in 0..MaxUses /\ view = tags
      /\ MergeTypes(tags, newTags, left, chosen, i)
      /\ MergeOK(pc, tags, newTags, left, chosen, i)
  BY DEF MergeInv
<1>2. tags \in Seq(Tags) /\ Len(tags) \in Nat /\ i \in 1..(Len(tags) + 1) /\ newTags \in NewTags
  BY <1>1, Row DEF MergeTypes
<1>3. i <= Len(tags) => i \in 1..Len(tags)
  BY <1>2
<1>4. uses < MaxUses /\ uses' = uses + 1 => uses' \in 0..MaxUses
  BY <1>1, TagListAssumption
<1>5. ASSUME NEW n \in DOMAIN tags, setData(n) PROVE MergeInv'
  <2>1. /\ tags' = [tags EXCEPT ![n].selected = ~@]
        /\ view' = [tags EXCEPT ![n].selected = tags'[n].selected]
        /\ newTags' = newTags /\ left' = left /\ pc' = pc /\ i' = i /\ chosen' = chosen
        /\ pc = "idle" /\ uses' \in 0..MaxUses
    BY <1>1, <1>4, <1>5 DEF setData
  <2>2. MergeTypes(tags', newTags, left, chosen, i) /\ view' = tags'
    <3>1. Clicks(tags, n, tags', view')
      BY <2>1 DEF Clicks
    <3> QED
      BY <1>1, <1>5, <3>1, Clicked
  <2>3. MergeOK("idle", tags', newTags, left, chosen, i)
    BY DEF MergeOK
  <2> QED
    BY <1>1, <2>1, <2>2, <2>3 DEF MergeInv
<1>6. ASSUME NEW count \in NewTags, Update(count) PROVE MergeInv'
  <2>1. /\ newTags' = count /\ left' = DOMAIN count /\ chosen' = Checked(tags) /\ i' = 1
        /\ pc = "idle" /\ uses' \in 0..MaxUses
    BY <1>4, <1>6 DEF Update, selectedTags
  <2>2. CASE DOMAIN count = {} \/ tags = <<>>
    <3>1. tags' = Sorted(count, {}) /\ view' = tags' /\ pc' = "idle"
      BY <1>6, <2>1, <2>2 DEF Update
    <3>2. Checked(tags) \subseteq Names
      BY <1>2, CheckedRows
    <3>3. MergeTypes(tags', count, DOMAIN count, Checked(tags), 1)
      BY <3>1, <3>2, UpdateReset
    <3>4. MergeOK("idle", tags', count, DOMAIN count, Checked(tags), 1)
      BY DEF MergeOK
    <3> QED
      BY <2>1, <3>1, <3>3, <3>4 DEF MergeInv
  <2>3. CASE ~ (DOMAIN count = {} \/ tags = <<>>)
    <3>1. tags' = tags /\ view' = view /\ pc' = "count"
      BY <1>6, <2>3 DEF Update
    <3>2. /\ MergeTypes(tags, count, DOMAIN count, Checked(tags), 1)
          /\ MergeOK("count", tags, count, DOMAIN count, Checked(tags), 1)
      BY <1>1, UpdateBegins
    <3> QED
      BY <1>1, <2>1, <3>1, <3>2 DEF MergeInv
  <2> QED
    BY <2>2, <2>3
<1>7. CASE UpdateCount
  <2>1. /\ pc = "count" /\ i \in 1..Len(tags) /\ i' = i + 1
        /\ newTags' = newTags /\ left' = left /\ pc' = pc /\ chosen' = chosen /\ uses' = uses
    BY <1>3, <1>7 DEF UpdateCount, Within
  <2>2. tags' = IF tags[i].name \in DOMAIN newTags
                THEN [tags EXCEPT ![i].count = newTags[tags[i].name]] ELSE tags
    BY <1>7 DEF UpdateCount, Known
  <2>3. /\ MergeTypes(tags', newTags, left, chosen, i + 1)
        /\ MergeOK("count", tags', newTags, left, chosen, i + 1)
    BY <1>1, <2>1, <2>2, CountStep
  <2>4. view' = tags'
    <3>1. CASE Known
      <4>1. /\ tags' = [tags EXCEPT ![i].count = newTags[tags[i].name]]
            /\ view' = [tags EXCEPT ![i].count = tags'[i].count]
        BY <1>1, <1>7, <3>1 DEF UpdateCount
      <4>2. PICK c : c = newTags[tags[i].name]
        OBVIOUS
      <4>3. c \in 1..MaxCount
        BY <1>2, <3>1, <4>2, NewTagsFacts DEF Known
      <4>4. tags'[i].count = c
        <5>1. PICK e : e = [tags[i] EXCEPT !.count = c]
          OBVIOUS
        <5>2. tags[i] \in [name : Names, count : 1..MaxCount, selected : BOOLEAN]
              /\ i \in DOMAIN tags
          BY <1>2, <2>1, Row DEF Tags
        <5>3. e.count = c
          BY <5>1, <5>2
        <5>4. tags' = [tags EXCEPT ![i] = e]
          BY <4>1, <4>2, <5>1
        <5> QED
          BY <5>2, <5>3, <5>4
      <4> QED
        BY <4>1, <4>2, <4>4
    <3>2. CASE ~ Known
      BY <1>1, <1>7, <3>2 DEF UpdateCount
    <3> QED
      BY <3>1, <3>2
  <2> QED
    BY <1>1, <2>1, <2>3, <2>4 DEF MergeInv
<1>8. CASE RemoveRow
  <2>1. /\ pc = "remove" /\ i \in 1..Len(tags)
        /\ newTags' = newTags /\ left' = left /\ pc' = pc /\ chosen' = chosen /\ uses' = uses
    BY <1>3, <1>8 DEF RemoveRow, Within
  <2>2. CASE Known
    <3>1. tags' = tags /\ view' = view /\ i' = i + 1
      BY <1>8, <2>2 DEF RemoveRow
    <3>2. /\ MergeTypes(tags, newTags, left, chosen, i + 1)
          /\ MergeOK("remove", tags, newTags, left, chosen, i + 1)
      BY <1>1, <2>1, <2>2, KeepStep DEF Known
    <3> QED
      BY <1>1, <2>1, <3>1, <3>2 DEF MergeInv
  <2>3. CASE ~ Known
    <3>1. tags' = RemoveAt(tags, i) /\ view' = RemoveAt(view, i) /\ i' = i
      BY <1>8, <2>3 DEF RemoveRow
    <3>2. /\ MergeTypes(tags', newTags, left, chosen, i)
          /\ MergeOK("remove", tags', newTags, left, chosen, i)
      BY <1>1, <2>1, <2>3, <3>1, RemoveStep DEF Known
    <3> QED
      BY <1>1, <2>1, <3>1, <3>2 DEF MergeInv
  <2> QED
    BY <2>2, <2>3
<1>9. CASE InsertRow
  <2>1. /\ pc = "insert" /\ i \in 1..Len(tags) /\ i' = i + 1 /\ left' = left \ {FirstOf(left)}
        /\ newTags' = newTags /\ pc' = pc /\ chosen' = chosen /\ uses' = uses
    BY <1>3, <1>9, KeyIsFirst DEF InsertRow, Within
  <2>2. CASE Key < tags[i].name
    <3>1. PICK t : t = FirstOf(left)
      OBVIOUS
    <3>2. PICK e : e = [name |-> t, count |-> newTags[t], selected |-> FALSE]
      OBVIOUS
    <3>3. tags' = InsertAt(tags, i, e) /\ view' = InsertAt(view, i, e)
      BY <1>9, <2>2, <3>1, <3>2, KeyIsFirst DEF InsertRow, Tag
    <3>4. t < tags[i].name /\ left' = left \ {t}
      BY <2>1, <2>2, <3>1, KeyIsFirst
    <3>5. /\ MergeTypes(tags', newTags, left', chosen, i + 1)
          /\ MergeOK("insert", tags', newTags, left', chosen, i + 1)
      BY <1>1, <2>1, <3>1, <3>2, <3>3, <3>4, InsertStep
    <3> QED
      BY <1>1, <2>1, <3>3, <3>5 DEF MergeInv
  <2>3. CASE ~ (Key < tags[i].name)
    <3>1. tags' = tags /\ view' = view
      BY <1>9, <2>3 DEF InsertRow
    <3>2. ~ (FirstOf(left) < tags[i].name)
      BY <2>3, KeyIsFirst
    <3>3. /\ MergeTypes(tags, newTags, left', chosen, i + 1)
          /\ MergeOK("insert", tags, newTags, left', chosen, i + 1)
      BY <1>1, <2>1, <3>2, PassStep
    <3> QED
      BY <1>1, <2>1, <3>1, <3>3 DEF MergeInv
  <2> QED
    BY <2>2, <2>3
<1>10. CASE AppendRow
  <2>1. PICK t : t = FirstOf(left)
    OBVIOUS
  <2>2. PICK e : e = [name |-> t, count |-> newTags[t], selected |-> FALSE]
    OBVIOUS
  <2>3. /\ pc = "append" /\ left # {} /\ i' = i /\ left' = left \ {t}
        /\ newTags' = newTags /\ pc' = pc /\ chosen' = chosen /\ uses' = uses
        /\ tags' = Append(tags, e) /\ view' = Append(view, e)
    BY <1>10, <2>1, <2>2, KeyIsFirst DEF AppendRow, Tag
  <2>4. /\ MergeTypes(tags', newTags, left', chosen, i)
        /\ MergeOK("append", tags', newTags, left', chosen, i)
    BY <1>1, <2>1, <2>2, <2>3, AppendStep
  <2> QED
    BY <1>1, <2>3, <2>4 DEF MergeInv
<1>11. CASE Leave
  <2>1. /\ ~ (i <= Len(tags)) /\ i' = 1 /\ tags' = tags /\ view' = view /\ newTags' = newTags
        /\ left' = left /\ chosen' = chosen /\ uses' = uses
    BY <1>11 DEF Leave, Within
  <2>2. \/ pc = "count" /\ pc' = "remove"
        \/ pc = "remove" /\ pc' = "insert"
        \/ pc = "insert" /\ pc' = "append"
    BY <1>11 DEF Leave
  <2>3. /\ MergeTypes(tags, newTags, left, chosen, 1)
        /\ MergeOK(pc', tags, newTags, left, chosen, 1)
    BY <1>1, <2>1, <2>2, LeaveStep
  <2>4. pc' \in {"idle", "count", "remove", "insert", "append"}
    BY <2>2
  <2> QED
    BY <1>1, <2>1, <2>3, <2>4 DEF MergeInv
<1>12. CASE Return
  <2>1. /\ pc' = "idle" /\ tags' = tags /\ view' = view /\ newTags' = newTags
        /\ left' = left /\ i' = i /\ chosen' = chosen /\ uses' = uses
    BY <1>12 DEF Return
  <2>2. MergeOK("idle", tags, newTags, left, chosen, i)
    BY DEF MergeOK
  <2> QED
    BY <1>1, <2>1, <2>2 DEF MergeInv
<1>13. CASE UNCHANGED vars
  BY <1>1, <1>13 DEF vars, MergeInv
<1> QED
  BY <1>5, <1>6, <1>7, <1>8, <1>9, <1>10, <1>11, <1>12, <1>13 DEF Next

LEMMA Merging == Spec => []MergeInv
BY MergeInit, MergeNext, PTL DEF Spec

\* A list of tags and the view's copy of it hold rows of tags in use, and the merge's
\* iterators stay within their lists.
THEOREM TypesCorrect == Spec => []TypeOK
<1>1. MergeInv => TypeOK
  <2> SUFFICES ASSUME MergeInv PROVE TypeOK
    OBVIOUS
  <2>1. /\ pc \in {"idle", "count", "remove", "insert", "append"}
        /\ uses \in 0..MaxUses /\ view = tags
        /\ MergeTypes(tags, newTags, left, chosen, i)
    BY DEF MergeInv
  <2> QED
    BY <2>1 DEF MergeTypes, TypeOK
<1> QED
  BY <1>1, Merging, PTL

\* The assertions of the merge (taglist.cpp 100 and 103) hold for all tags and counts, and
\* each signal is right when it is sent: the view's copy is the list after every row.
THEOREM MergeKeepsStep == Spec => []MergeInStep
<1>1. MergeInv => MergeInStep
  <2> SUFFICES ASSUME MergeInv PROVE MergeInStep
    OBVIOUS
  <2>1. /\ view = tags
        /\ MergeTypes(tags, newTags, left, chosen, i)
        /\ MergeOK(pc, tags, newTags, left, chosen, i)
    BY DEF MergeInv
  <2>2. ASSUME pc = "insert", Within PROVE left # {} /\ Key <= tags[i].name
    <3>1. i \in 1..Len(tags)
      <4>1. tags \in Seq(Tags) /\ Len(tags) \in Nat /\ i \in 1..(Len(tags) + 1)
        BY <2>1, Row DEF MergeTypes
      <4> QED
        BY <2>2, <4>1 DEF Within
    <3>2. tags[i].name \in left /\ FirstOf(left) <= tags[i].name
      BY <2>1, <2>2, <3>1, KeyForRow
    <3> QED
      BY <3>2, KeyIsFirst
  <2> QED
    BY <2>1, <2>2 DEF MergeInStep
<1> QED
  BY <1>1, Merging, PTL
--------------------------------------------------------------------------------
(* The merge implements a list that is given a count at once. *)

LEMMA SameRows ==
  /\ List!NewTags = NewTags
  /\ \A rows : List!Checked(rows) = Checked(rows)
  /\ \A count, marked : List!Sorted(count, marked) = Sorted(count, marked)
<1>0. /\ \A S : List!IsFiniteSet(S) = IsFiniteSet(S)
      /\ \A S : List!Cardinality(S) = Cardinality(S)
      /\ \A s : List!ToSet(s) = ToSet(s)
  BY DEF List!IsFiniteSet, IsFiniteSet, List!Cardinality, Cardinality, List!ToSet, ToSet
<1>1. List!NewTags = NewTags
  BY <1>0 DEF List!NewTags, NewTags
<1>2. \A rows : List!Checked(rows) = Checked(rows)
  BY <1>0 DEF List!Checked, Checked
<1>3. \A S, n : List!Nth(S, n) = Nth(S, n)
  BY <1>0 DEF List!Nth, Nth
<1>4. \A count, marked : List!Sorted(count, marked) = Sorted(count, marked)
  BY <1>0, <1>3 DEF List!Sorted, Sorted
<1> QED
  BY <1>1, <1>2, <1>4

\* What is shown before and after a step.
ListStep(before, after) ==
  \/ \E n \in DOMAIN before : after = [before EXCEPT ![n].selected = ~@] /\ newTags' = newTags
  \/ \E count \in NewTags : newTags' = count /\ after = Sorted(count, Checked(before))
  \/ newTags' = newTags /\ after = before

LEMMA MergeIsListStep ==
  ASSUME MergeInv, [Next]_vars,
         NEW before, before = IF pc = "idle" THEN view ELSE Sorted(newTags, chosen),
         NEW after, after = IF pc' = "idle" THEN view' ELSE Sorted(newTags', chosen')
  PROVE  ListStep(before, after)
<1>1. /\ view = tags /\ MergeTypes(tags, newTags, left, chosen, i)
      /\ MergeOK(pc, tags, newTags, left, chosen, i)
  BY DEF MergeInv
<1>2. MergeInv'
  BY MergeNext
<1>3. view' = tags' /\ newTags \in NewTags
  BY <1>1, <1>2 DEF MergeInv, MergeTypes
<1>4. ASSUME NEW n \in DOMAIN tags, setData(n) PROVE ListStep(before, after)
  <2>1. /\ before = tags /\ after = tags' /\ newTags' = newTags
        /\ tags' = [tags EXCEPT ![n].selected = ~@]
    BY <1>1, <1>3, <1>4 DEF setData
  <2> QED
    BY <1>4, <2>1, Zenon DEF ListStep
<1>5. ASSUME NEW count \in NewTags, Update(count) PROVE ListStep(before, after)
  <2>1. before = tags /\ newTags' = count /\ chosen' = Checked(tags)
    BY <1>1, <1>5 DEF Update, selectedTags
  <2>2. after = Sorted(count, Checked(tags))
    <3>1. CASE DOMAIN count = {} \/ tags = <<>>
      <4>1. tags' = Sorted(count, {}) /\ after = tags'
        BY <1>3, <1>5, <3>1 DEF Update
      <4> QED
        BY <3>1, <4>1, NoRows
    <3>2. CASE ~ (DOMAIN count = {} \/ tags = <<>>)
      BY <1>5, <2>1, <3>2 DEF Update
    <3> QED
      BY <3>1, <3>2
  <2> QED
    BY <2>1, <2>2, Zenon DEF ListStep
<1>6. CASE Return
  <2>1. /\ pc = "append" /\ left = {} /\ pc' = "idle" /\ view' = view
        /\ newTags' = newTags
    BY <1>6 DEF Return
  <2>2. Shows(tags, newTags, chosen)
    BY <1>1, <2>1, MergeShows
  <2>3. tags = Sorted(newTags, chosen)
    BY <1>3, <2>2, ShowsSorted
  <2> QED
    BY <1>1, <2>1, <2>3 DEF ListStep
<1>7. CASE UpdateCount \/ RemoveRow \/ InsertRow \/ AppendRow \/ Leave
  <2>1. /\ pc # "idle" /\ pc' # "idle" /\ newTags' = newTags /\ chosen' = chosen
    BY <1>7 DEF UpdateCount, RemoveRow, InsertRow, AppendRow, Leave
  <2> QED
    BY <2>1 DEF ListStep
<1>8. CASE UNCHANGED vars
  BY <1>8 DEF vars, ListStep
<1> QED
  BY <1>4, <1>5, <1>6, <1>7, <1>8 DEF Next

\* From signal to signal the view arrives at the sorted count that was passed, with the
\* marks of the tags that stay in use: for all tags, counts and sequences of updates and
\* clicks, the merge implements a list that is given its count at once.
THEOREM MergeIsUpdate == Spec => ImplementsTagList
<1>1. Init => List!Init
  BY DEF Init, List!Init
<1>2. MergeInv /\ [Next]_vars
        => [List!Next]_<<newTags, IF pc = "idle" THEN view ELSE Sorted(newTags, chosen)>>
  <2> SUFFICES ASSUME MergeInv, [Next]_vars
               PROVE  [List!Next]_<<newTags, IF pc = "idle" THEN view
                                             ELSE Sorted(newTags, chosen)>>
    OBVIOUS
  <2>1. PICK before : before = IF pc = "idle" THEN view ELSE Sorted(newTags, chosen)
    OBVIOUS
  <2>2. PICK after : after = IF pc' = "idle" THEN view' ELSE Sorted(newTags', chosen')
    OBVIOUS
  <2>3. ListStep(before, after)
    BY <2>1, <2>2, MergeIsListStep
  <2>4. ASSUME NEW n \in DOMAIN before, after = [before EXCEPT ![n].selected = ~@],
               newTags' = newTags
        PROVE  List!Next
    <3>1. List!Click(n)
      BY <2>1, <2>2, <2>4 DEF List!Click
    <3> QED
      BY <2>1, <2>4, <3>1 DEF List!Next
  <2>5. ASSUME NEW count \in NewTags, newTags' = count, after = Sorted(count, Checked(before))
        PROVE  List!Next
    <3>1. List!Update(count)
      BY <2>1, <2>2, <2>5, SameRows DEF List!Update
    <3> QED
      BY <2>5, <3>1, SameRows DEF List!Next
  <2>6. ASSUME newTags' = newTags, after = before
        PROVE  UNCHANGED <<newTags, IF pc = "idle" THEN view ELSE Sorted(newTags, chosen)>>
    BY <2>1, <2>2, <2>6
  <2> QED
    BY <2>3, <2>4, <2>5, <2>6 DEF ListStep
<1> QED
  BY <1>1, <1>2, Merging, PTL DEF Spec, ImplementsTagList, List!Spec
================================================================================
