-------------------------- MODULE PrefixScanProofs --------------------------
(***************************************************************************)
(* A scan by prefix finds the rows it should, in order and each once, for  *)
(* any bytes, any length of keys, any content of the two tiers and any     *)
(* order of the databases.                                                 *)
(***************************************************************************)
EXTENDS PrefixScan, TLAPS, FiniteSetTheorems, SequenceTheorems, NaturalsInduction

-----------------------------------------------------------------------------
\* Listing a finite set in order

\* less orders S: strictly, and any two members.
Orders(less, S) ==
    /\ \A x \in S : <<x, x>> \notin less
    /\ \A x, y, z \in S : <<x, y>> \in less /\ <<y, z>> \in less => <<x, z>> \in less
    /\ \A x, y \in S : x # y => <<x, y>> \in less \/ <<y, x>> \in less

\* The members that come before x.
Below(less, S, x) == {y \in S : <<y, x>> \in less}

LEMMA RankRises ==
    ASSUME NEW S, IsFiniteSet(S), NEW less, Orders(less, S), NEW x \in S, NEW y \in S,
           <<x, y>> \in less
    PROVE  Cardinality(Below(less, S, x)) < Cardinality(Below(less, S, y))
<1> DEFINE B == Below(less, S, x)
           C == Below(less, S, y)
<1>1. B \subseteq S /\ C \subseteq S /\ x \notin B /\ B \cup {x} \subseteq C
  BY DEF Below, Orders
<1> HIDE DEF B, C
<1>2. IsFiniteSet(B) /\ IsFiniteSet(C)
  BY <1>1, FS_Subset
<1>3. Cardinality(B) \in Nat /\ Cardinality(C) \in Nat
  BY <1>2, FS_CardinalityType
<1>4. Cardinality(B \cup {x}) = Cardinality(B) + 1
  BY <1>1, <1>2, FS_AddElement
<1>5. Cardinality(B \cup {x}) <= Cardinality(C)
  BY <1>1, <1>2, FS_Subset
<1>6. Cardinality(B) < Cardinality(C)
  BY <1>3, <1>4, <1>5
<1> QED
  BY <1>6 DEF B, C

LEMMA RankBounds ==
    ASSUME NEW S, IsFiniteSet(S), NEW less, Orders(less, S), NEW x \in S
    PROVE  Cardinality(Below(less, S, x)) + 1 \in 1..Cardinality(S)
<1> DEFINE B == Below(less, S, x)
<1>1. B \subseteq S /\ x \notin B /\ B \cup {x} \subseteq S
  BY DEF Below, Orders
<1> HIDE DEF B
<1>2. IsFiniteSet(B) /\ Cardinality(B) \in Nat /\ Cardinality(S) \in Nat
  BY <1>1, FS_Subset, FS_CardinalityType
<1>3. Cardinality(B \cup {x}) = Cardinality(B) + 1
  BY <1>1, <1>2, FS_AddElement
<1>4. Cardinality(B \cup {x}) <= Cardinality(S)
  BY <1>1, FS_Subset
<1>5. Cardinality(B) + 1 \in 1..Cardinality(S)
  BY <1>2, <1>3, <1>4
<1> QED
  BY <1>5 DEF B

\* The ranks of the members are the numbers from 1 on, so every place has its member: the
\* list has all of them, each once, in order.
LEMMA InOrderLists ==
    ASSUME NEW S, IsFiniteSet(S), NEW less, Orders(less, S)
    PROVE  LET s == InOrder(S, less)
               n == Cardinality(S)
           IN  /\ n \in Nat /\ s \in [1..n -> S]
               /\ \A p, q \in 1..n : p < q => <<s[p], s[q]>> \in less
               /\ \A x \in S : \E p \in 1..n : s[p] = x
<1> DEFINE s == InOrder(S, less)
           n == Cardinality(S)
           rank(x) == Cardinality(Below(less, S, x))
           f == [x \in S |-> rank(x) + 1]
<1>1. n \in Nat
  BY FS_CardinalityType
<1>2. \A x \in S : rank(x) \in Int /\ rank(x) + 1 \in 1..n
  <2> SUFFICES ASSUME NEW x \in S PROVE rank(x) \in Int /\ rank(x) + 1 \in 1..n
    OBVIOUS
  <2>1. Below(less, S, x) \subseteq S
    BY DEF Below
  <2>2. rank(x) \in Nat
    BY <2>1, FS_Subset, FS_CardinalityType
  <2> QED
    BY <2>2, RankBounds
<1>3. \A x, y \in S : <<x, y>> \in less => rank(x) < rank(y)
  BY RankRises
<1> HIDE DEF rank, n
<1>4. \A x, y \in S : rank(x) = rank(y) => x = y
  <2> SUFFICES ASSUME NEW x \in S, NEW y \in S, rank(x) = rank(y), x # y PROVE FALSE
    OBVIOUS
  <2>1. rank(x) < rank(y) \/ rank(y) < rank(x)
    BY <1>3 DEF Orders
  <2> QED
    BY <1>2, <2>1
<1>5. f \in Injection(S, 1..n)
  BY <1>2, <1>4 DEF Injection, IsInjective
<1>6. IsFiniteSet(1..n) /\ Cardinality(1..n) = n
  BY <1>1, FS_Interval
<1>7. f \in Surjection(S, 1..n)
  BY <1>5, <1>6, FS_Injection DEF n
<1>8. \A p \in 1..n : \E x \in S : rank(x) = p - 1
  <2> SUFFICES ASSUME NEW p \in 1..n PROVE \E x \in S : rank(x) = p - 1
    OBVIOUS
  <2>1. PICK x \in S : f[x] = p
    BY <1>7 DEF Surjection
  <2> QED
    BY <1>1, <1>2, <2>1
<1>9. s = [p \in 1..n |-> CHOOSE x \in S : rank(x) = p - 1]
  BY DEF InOrder, n, rank, Below
<1>10. \A p \in 1..n : s[p] \in S /\ rank(s[p]) = p - 1
  BY <1>8, <1>9
<1> HIDE DEF s
<1>11. s \in [1..n -> S]
  BY <1>9, <1>10
<1>12. ASSUME NEW p \in 1..n, NEW q \in 1..n, p < q PROVE <<s[p], s[q]>> \in less
  <2>1. rank(s[p]) < rank(s[q]) /\ s[p] \in S /\ s[q] \in S
    BY <1>1, <1>10, <1>12
  <2>2. s[p] # s[q] /\ <<s[q], s[p]>> \notin less
    BY <1>2, <1>3, <2>1
  <2> QED
    BY <2>1, <2>2 DEF Orders
<1>13. ASSUME NEW x \in S PROVE \E p \in 1..n : s[p] = x
  <2>1. rank(x) + 1 \in 1..n /\ rank(x) \in Int
    BY <1>2
  <2>2. s[rank(x) + 1] \in S /\ rank(s[rank(x) + 1]) = rank(x)
    BY <1>10, <2>1
  <2> QED
    BY <1>4, <2>1, <2>2
<1> QED
  BY <1>1, <1>11, <1>12, <1>13 DEF s, n

-----------------------------------------------------------------------------
\* The order of byte strings

LEMMA StringType ==
    ASSUME NEW k \in Strings
    PROVE  /\ Len(k) \in Nat /\ \A i \in 1..Len(k) : k[i] \in Nat
           /\ \A l \in Strings : Len(k) = Len(l) /\ (\A i \in 1..Len(k) : k[i] = l[i]) => k = l
<1>1. \A l \in Strings : \E m \in Nat : l \in [1..m -> Bytes] /\ Len(l) = m
  <2> SUFFICES ASSUME NEW l \in Strings PROVE \E m \in Nat : l \in [1..m -> Bytes] /\ Len(l) = m
    OBVIOUS
  <2>1. PICK m \in 0..MaxLen : l \in [1..m -> Bytes]
    BY DEF Strings, BoundedSeq, SeqOf
  <2>2. m \in Nat /\ Len(l) = m
    BY <2>1, BytesAssumption
  <2> QED
    BY <2>1, <2>2
<1>2. PICK m \in Nat : k \in [1..m -> Bytes] /\ Len(k) = m
  BY <1>1
<1>3. \A i \in 1..m : k[i] \in Nat
  BY <1>2, BytesAssumption
<1>4. ASSUME NEW l \in Strings, Len(k) = Len(l), \A i \in 1..Len(k) : k[i] = l[i] PROVE k = l
  <2>1. l \in [1..m -> Bytes]
    BY <1>1, <1>2, <1>4
  <2> QED
    BY <1>2, <1>4, <2>1
<1> QED
  BY <1>2, <1>3, <1>4

LEMMA BeforeIrreflexive ==
    ASSUME NEW a \in Strings
    PROVE  ~Before(a, a)
BY StringType DEF Before

LEMMA BeforeTransitive ==
    ASSUME NEW a \in Strings, NEW b \in Strings, NEW c \in Strings, Before(a, b), Before(b, c)
    PROVE  Before(a, c)
<1>1. /\ Len(a) \in Nat /\ Len(b) \in Nat /\ Len(c) \in Nat
      /\ (\A i \in 1..Len(a) : a[i] \in Nat) /\ (\A i \in 1..Len(b) : b[i] \in Nat)
      /\ \A i \in 1..Len(c) : c[i] \in Nat
  BY StringType
<1>2. PICK i \in 1..Len(b) : /\ \A j \in 1..i-1 : j <= Len(a) /\ a[j] = b[j]
                             /\ i > Len(a) \/ a[i] < b[i]
  BY DEF Before
<1>3. PICK k \in 1..Len(c) : /\ \A j \in 1..k-1 : j <= Len(b) /\ b[j] = c[j]
                             /\ k > Len(b) \/ b[k] < c[k]
  BY DEF Before
<1>4. CASE i < k
  <2>1. i \in 1..Len(c) /\ b[i] = c[i] /\ \A j \in 1..i-1 : j <= Len(a) /\ a[j] = c[j]
    BY <1>1, <1>2, <1>3, <1>4
  <2>2. i > Len(a) \/ a[i] < c[i]
    BY <1>2, <2>1
  <2> QED
    BY <2>1, <2>2 DEF Before
<1>5. CASE i = k
  <2>1. \A j \in 1..k-1 : j <= Len(a) /\ a[j] = c[j]
    BY <1>1, <1>2, <1>3, <1>5
  <2>2. k > Len(a) \/ a[k] < c[k]
    <3>1. b[k] < c[k]
      BY <1>1, <1>2, <1>3, <1>5
    <3>2. ASSUME ~(k > Len(a)) PROVE a[k] < c[k]
      <4>1. a[k] < b[k] /\ k \in 1..Len(a) /\ k \in 1..Len(b)
        BY <1>1, <1>2, <1>5, <3>2
      <4> QED
        BY <1>1, <3>1, <4>1
    <3> QED
      BY <3>2
  <2> QED
    BY <2>1, <2>2 DEF Before
<1>6. CASE k < i
  <2>1. \A j \in 1..k-1 : j <= Len(a) /\ a[j] = c[j]
    BY <1>1, <1>2, <1>3, <1>6
  <2>2. a[k] < c[k]
    <3>1. a[k] = b[k] /\ ~(k > Len(b))
      BY <1>1, <1>2, <1>3, <1>6
    <3> QED
      BY <1>3, <3>1
  <2> QED
    BY <2>1, <2>2 DEF Before
<1> QED
  BY <1>1, <1>2, <1>3, <1>4, <1>5, <1>6

\* A non-empty set of numbers has a least one.
LEMMA LeastOf ==
    ASSUME NEW T, T \subseteq Nat, T # {}
    PROVE  \E x \in T : \A y \in T : x <= y
<1> DEFINE Less == {p \in Nat \X Nat : p[1] < p[2]}
<1>1. IsWellFoundedOn(Less, Nat)
  BY NatLessThanWellFounded DEF OpToRel
<1>2. \A x, y \in Nat : <<y, x>> \in Less <=> y < x
  OBVIOUS
<1> HIDE DEF Less
<1>3. PICK x \in T : \A y \in T : ~(<<y, x>> \in Less)
  BY <1>1, WFMin
<1>4. ASSUME NEW y \in T PROVE x <= y
  <2>1. x \in Nat /\ y \in Nat /\ ~(<<y, x>> \in Less)
    BY <1>3
  <2>2. ~(y < x)
    BY <1>2, <2>1
  <2> QED
    BY <2>1, <2>2
<1> QED
  BY <1>4

LEMMA BeforeTotal ==
    ASSUME NEW a \in Strings, NEW b \in Strings, a # b
    PROVE  Before(a, b) \/ Before(b, a)
<1> DEFINE D == {i \in Nat \ {0} : i > Len(a) \/ i > Len(b) \/ a[i] # b[i]}
<1>1. /\ Len(a) \in Nat /\ Len(b) \in Nat
      /\ (\A i \in 1..Len(a) : a[i] \in Nat) /\ (\A i \in 1..Len(b) : b[i] \in Nat)
      /\ (Len(a) = Len(b) /\ \A i \in 1..Len(a) : a[i] = b[i]) => a = b
  BY StringType
<1>2. Len(a) + 1 \in D
  BY <1>1
<1>3. PICK d \in D : \A y \in D : d <= y
  BY <1>2, LeastOf
<1>4. \A j \in 1..d-1 : j <= Len(a) /\ j <= Len(b) /\ a[j] = b[j]
  BY <1>1, <1>3
<1>5. d \in Nat \ {0} /\ (d > Len(a) \/ d > Len(b) \/ a[d] # b[d])
  BY <1>3
<1> HIDE DEF D
<1>6. CASE d > Len(a) /\ d > Len(b)
  <2>1. Len(a) = d - 1 /\ Len(b) = d - 1
    <3>1. d - 1 = 0 \/ d - 1 \in 1..d-1
      BY <1>5
    <3> QED
      BY <1>1, <1>4, <1>5, <1>6, <3>1
  <2> QED
    BY <1>1, <1>4, <2>1
<1>7. CASE d > Len(a) /\ d <= Len(b)
  BY <1>1, <1>4, <1>5, <1>7 DEF Before
<1>8. CASE d <= Len(a) /\ d > Len(b)
  BY <1>1, <1>4, <1>5, <1>8 DEF Before
<1>9. CASE d <= Len(a) /\ d <= Len(b)
  <2>1. d \in 1..Len(a) /\ d \in 1..Len(b) /\ (a[d] < b[d] \/ b[d] < a[d])
    BY <1>1, <1>5, <1>9
  <2> QED
    BY <1>4, <2>1 DEF Before
<1> QED
  BY <1>1, <1>5, <1>6, <1>7, <1>8, <1>9

\* No key before the prefix starts with it.
LEMMA NoneBeforePrefix ==
    ASSUME NEW k \in Strings, NEW p \in Strings, starts_with(k, p)
    PROVE  ~Before(k, p)
<1>1. Len(k) \in Nat /\ Len(p) \in Nat /\ \A i \in 1..Len(k) : k[i] \in Nat
  BY StringType
<1> QED
  BY <1>1 DEF Before, starts_with

\* Once a key from the prefix on does not start with it, no later one does.
LEMMA PrefixesTogether ==
    ASSUME NEW p \in Strings, NEW k \in Strings, NEW l \in Strings,
           ~Before(k, p), ~starts_with(k, p), Before(k, l)
    PROVE  ~starts_with(l, p)
<1> SUFFICES ASSUME starts_with(l, p) PROVE FALSE
  OBVIOUS
<1>1. /\ Len(k) \in Nat /\ Len(p) \in Nat /\ Len(l) \in Nat
      /\ (\A i \in 1..Len(k) : k[i] \in Nat) /\ \A i \in 1..Len(p) : p[i] \in Nat
  BY StringType
<1>2. starts_with(p, p)
  BY <1>1 DEF starts_with
<1>3. Before(p, k)
  BY <1>2, BeforeTotal
<1>4. PICK i \in 1..Len(k) : /\ \A j \in 1..i-1 : j <= Len(p) /\ p[j] = k[j]
                             /\ i > Len(p) \/ p[i] < k[i]
  BY <1>3 DEF Before
<1>5. i \in 1..Len(p)
  <2> SUFFICES ASSUME i > Len(p) PROVE FALSE
    BY <1>1
  <2>1. starts_with(k, p)
    BY <1>1, <1>4 DEF starts_with
  <2> QED
    BY <2>1
<1>6. PICK m \in 1..Len(l) : /\ \A j \in 1..m-1 : j <= Len(k) /\ k[j] = l[j]
                             /\ m > Len(k) \/ k[m] < l[m]
  BY DEF Before
<1>7. p[i] < k[i] /\ l[i] = p[i] /\ k[i] \in Nat /\ p[i] \in Nat
  BY <1>1, <1>4, <1>5 DEF starts_with
<1>8. CASE m < i
  <2>1. m \in 1..Len(k) /\ m \in 1..Len(p) /\ l[m] = p[m] /\ p[m] = k[m]
    BY <1>1, <1>4, <1>5, <1>6, <1>8 DEF starts_with
  <2> QED
    BY <1>1, <1>6, <2>1
<1>9. CASE m = i
  BY <1>1, <1>6, <1>7, <1>9
<1>10. CASE m > i
  <2>1. k[i] = l[i]
    BY <1>1, <1>6, <1>10
  <2> QED
    BY <1>7, <2>1
<1> QED
  BY <1>1, <1>8, <1>9, <1>10

-----------------------------------------------------------------------------
\* Lists of rows

\* rows is a list of the rows in R, all of them.
Lists(rows, R) ==
    /\ Len(rows) \in Nat /\ rows \in [1..Len(rows) -> R]
    /\ \A r \in R : \E i \in 1..Len(rows) : rows[i] = r

Ascending(rows) == \A i, j \in 1..Len(rows) : i < j => RowBefore(rows[i], rows[j])

KeysOnce(rows) == \A i, j \in 1..Len(rows) : rows[i][1] = rows[j][1] => i = j

Keyed(R) == \A r \in R : r[1] \in Strings

LEMMA AscendingOnce ==
    ASSUME NEW rows, NEW R, Lists(rows, R), Keyed(R), Ascending(rows)
    PROVE  KeysOnce(rows)
<1> SUFFICES ASSUME NEW i \in 1..Len(rows), NEW j \in 1..Len(rows), rows[i][1] = rows[j][1], i < j
             PROVE  FALSE
  BY DEF KeysOnce, Lists
<1>1. rows[i][1] \in Strings
  BY DEF Lists, Keyed
<1> QED
  BY <1>1, BeforeIrreflexive DEF Ascending, RowBefore

\* The rows of a map are listed by ascending key.
LEMMA RowsOfLists ==
    ASSUME NEW m, IsFiniteSet(DOMAIN m), DOMAIN m \subseteq Strings
    PROVE  Lists(RowsOf(m), {<<k, m[k]>> : k \in DOMAIN m}) /\ Ascending(RowsOf(m))
<1> DEFINE K == DOMAIN m
           less == {e \in K \X K : Before(e[1], e[2])}
           keys == InOrder(K, less)
           n == Cardinality(K)
           rows == RowsOf(m)
<1>1. \A x, y \in K : <<x, y>> \in less <=> Before(x, y)
  OBVIOUS
<1>2. Orders(less, K)
  <2> HIDE DEF less, K
  <2>1. K \subseteq Strings
    BY DEF K
  <2>2. \A x \in K : <<x, x>> \notin less
    BY <1>1, <2>1, BeforeIrreflexive
  <2>3. \A x, y, z \in K : <<x, y>> \in less /\ <<y, z>> \in less => <<x, z>> \in less
    BY <1>1, <2>1, BeforeTransitive
  <2>4. \A x, y \in K : x # y => <<x, y>> \in less \/ <<y, x>> \in less
    BY <1>1, <2>1, BeforeTotal
  <2> QED
    BY <2>2, <2>3, <2>4 DEF Orders
<1> HIDE DEF less
<1>3. /\ n \in Nat /\ keys \in [1..n -> K]
      /\ \A p, q \in 1..n : p < q => <<keys[p], keys[q]>> \in less
      /\ \A x \in K : \E p \in 1..n : keys[p] = x
  BY <1>2, InOrderLists
<1>4. rows = [p \in 1..n |-> <<keys[p], m[keys[p]]>>]
  BY DEF RowsOf, less
<1> HIDE DEF keys, n, rows, K
<1>5. Len(rows) = n /\ DOMAIN rows = 1..n /\ \A p \in 1..n : rows[p] = <<keys[p], m[keys[p]]>>
  BY <1>3, <1>4
<1>6. Lists(rows, {<<k, m[k]>> : k \in K})
  <2>1. rows \in [1..Len(rows) -> {<<k, m[k]>> : k \in K}]
    BY <1>3, <1>4, <1>5
  <2>2. ASSUME NEW r \in {<<k, m[k]>> : k \in K} PROVE \E i \in 1..Len(rows) : rows[i] = r
    <3>1. PICK k \in K : r = <<k, m[k]>>
      OBVIOUS
    <3>2. PICK i \in 1..n : keys[i] = k
      BY <1>3
    <3>3. rows[i] = r
      BY <1>5, <3>1, <3>2
    <3> QED
      BY <1>5, <3>3
  <2>3. Len(rows) \in Nat
    BY <1>3, <1>5
  <2> QED
    BY <2>1, <2>2, <2>3 DEF Lists
<1>7. Ascending(rows)
  <2> SUFFICES ASSUME NEW i \in 1..n, NEW j \in 1..n, i < j PROVE Before(rows[i][1], rows[j][1])
    BY <1>5 DEF Ascending, RowBefore
  <2>1. rows[i][1] = keys[i] /\ rows[j][1] = keys[j] /\ keys[i] \in K /\ keys[j] \in K
    BY <1>3, <1>5
  <2>2. Before(keys[i], keys[j])
    BY <1>1, <1>3, <2>1
  <2> QED
    BY <2>1, <2>2
<1> QED
  BY <1>6, <1>7 DEF rows, K

\* take_while stops where the keys with the prefix end: none comes later.
LEMMA TakeWhileLists ==
    ASSUME NEW rows, NEW R, Lists(rows, R), Keyed(R), Ascending(rows), NEW p \in Strings,
           \A r \in R : ~Before(r[1], p)
    PROVE  LET t == take_while(rows, p)
           IN  Lists(t, {r \in R : starts_with(r[1], p)}) /\ Ascending(t)
<1> DEFINE n == Len(rows)
           taken == {i \in 1..n : \A j \in 1..i : starts_with(rows[j][1], p)}
           t == take_while(rows, p)
           Q == {r \in R : starts_with(r[1], p)}
<1>1. n \in Nat /\ rows \in [1..n -> R] /\ \A r \in R : \E i \in 1..n : rows[i] = r
  BY DEF Lists
<1>2. \A i \in 1..n : rows[i] \in R /\ rows[i][1] \in Strings /\ ~Before(rows[i][1], p)
  BY <1>1 DEF Keyed
<1>3. \A i, j \in 1..n : i < j => Before(rows[i][1], rows[j][1])
  BY DEF Ascending, RowBefore
<1>4. t = [i \in taken |-> rows[i]]
  BY DEF take_while
<1> HIDE DEF n
<1>5. ASSUME NEW i \in 1..n, starts_with(rows[i][1], p) PROVE i \in taken
  <2> SUFFICES ASSUME NEW j \in 1..i, ~starts_with(rows[j][1], p) PROVE FALSE
    OBVIOUS
  <2>1. j \in 1..n /\ j < i
    BY <1>1, <1>5
  <2> QED
    BY <1>2, <1>3, <1>5, <2>1, PrefixesTogether
<1>6. \A i \in taken : i \in 1..n /\ starts_with(rows[i][1], p)
  BY <1>1
<1>7. \A i \in taken, j \in 1..n : j <= i => j \in taken
  BY <1>1
<1> HIDE DEF taken
<1>8. PICK m \in 0..n : taken = 1..m
  <2> DEFINE stops == (1..n) \ taken
  <2>1. CASE stops = {}
    <3>1. taken = 1..n
      BY <1>6, <2>1
    <3> QED
      BY <1>1, <3>1
  <2>2. CASE stops # {}
    <3>1. stops \subseteq Nat
      BY <1>1
    <3>2. PICK d \in stops : \A y \in stops : d <= y
      BY <2>2, <3>1, LeastOf
    <3>3. d \in 1..n /\ d \notin taken
      OBVIOUS
    <3>4. \A i \in taken : i < d
      BY <1>1, <1>6, <1>7, <3>3
    <3>5. \A i \in 1..d-1 : i \in taken
      BY <1>1, <3>2, <3>3
    <3>6. taken = 1..d-1
      <4>1. \A i \in taken : i \in Nat /\ i > 0
        BY <1>1, <1>6
      <4>2. d \in Nat
        BY <1>1, <3>3
      <4>3. taken \subseteq 1..d-1
        BY <3>4, <4>1, <4>2
      <4>4. 1..d-1 \subseteq taken
        BY <3>5
      <4> QED
        BY <4>3, <4>4
    <3> QED
      BY <1>1, <3>3, <3>6
  <2> QED
    BY <2>1, <2>2
<1>9. m \in Nat /\ m <= n /\ t = [i \in 1..m |-> rows[i]]
  BY <1>1, <1>4, <1>8
<1> HIDE DEF t
<1>10. Len(t) = m /\ \A i \in 1..m : t[i] = rows[i] /\ i \in 1..n
  BY <1>1, <1>9
<1>11. \A i \in 1..m : rows[i] \in Q
  BY <1>2, <1>6, <1>8, <1>10
<1>12. t \in [1..m -> Q]
  BY <1>9, <1>11
<1>13. ASSUME NEW r \in Q PROVE \E i \in 1..m : t[i] = r
  <2>1. PICK i \in 1..n : rows[i] = r
    BY <1>1
  <2> QED
    BY <1>5, <1>8, <1>10, <2>1
<1>14. Lists(t, Q)
  BY <1>9, <1>10, <1>12, <1>13 DEF Lists
<1>15. Ascending(t)
  BY <1>3, <1>10 DEF Ascending, RowBefore
<1> QED
  BY <1>14, <1>15 DEF t

\* sort_by lists the same rows, by ascending key if no two have the same.
LEMMA SortLists ==
    ASSUME NEW rows, NEW R, Lists(rows, R), Keyed(R), KeysOnce(rows)
    PROVE  Lists(SortByKey(rows), R) /\ Ascending(SortByKey(rows))
<1> DEFINE n == Len(rows)
           S == 1..n
           ahead == {e \in S \X S :
                       \/ RowBefore(rows[e[1]], rows[e[2]])
                       \/ rows[e[1]][1] = rows[e[2]][1] /\ e[1] < e[2]}
           place == InOrder(S, ahead)
           s == SortByKey(rows)
<1>1. n \in Nat /\ rows \in [1..n -> R] /\ \A r \in R : \E i \in 1..n : rows[i] = r
  BY DEF Lists
<1>2. \A i \in S : rows[i] \in R /\ rows[i][1] \in Strings
  BY <1>1 DEF Keyed
<1>3. IsFiniteSet(S) /\ Cardinality(S) = n
  <2> HIDE DEF n
  <2>1. IsFiniteSet(1..n) /\ Cardinality(1..n) = IF 1 > n THEN 0 ELSE n - 1 + 1
    BY <1>1, FS_Interval
  <2> QED
    BY <1>1, <2>1
<1>4. \A i, j \in S : <<i, j>> \in ahead <=> Before(rows[i][1], rows[j][1])
  BY DEF KeysOnce, RowBefore
<1>5. s = [p \in 1..n |-> rows[place[p]]]
  BY DEF SortByKey
<1> HIDE DEF ahead, n, s
<1>6. Orders(ahead, S)
  <2>1. \A x \in S : <<x, x>> \notin ahead
    BY <1>2, <1>4, BeforeIrreflexive
  <2>2. \A x, y, z \in S : <<x, y>> \in ahead /\ <<y, z>> \in ahead => <<x, z>> \in ahead
    BY <1>2, <1>4, BeforeTransitive
  <2>3. \A x, y \in S : x # y => <<x, y>> \in ahead \/ <<y, x>> \in ahead
    <3> SUFFICES ASSUME NEW x \in S, NEW y \in S, x # y
                 PROVE  <<x, y>> \in ahead \/ <<y, x>> \in ahead
      OBVIOUS
    <3>1. rows[x][1] # rows[y][1]
      BY DEF KeysOnce, n
    <3> QED
      BY <1>2, <1>4, <3>1, BeforeTotal
  <2> QED
    BY <2>1, <2>2, <2>3 DEF Orders
<1>7. /\ place \in [1..n -> S]
      /\ \A p, q \in 1..n : p < q => <<place[p], place[q]>> \in ahead
      /\ \A x \in S : \E p \in 1..n : place[p] = x
  BY <1>3, <1>6, InOrderLists
<1> HIDE DEF place
<1>8. Len(s) = n /\ \A p \in 1..n : s[p] = rows[place[p]] /\ place[p] \in S
  <2>1. Len(s) = n
    BY <1>1, <1>5
  <2>2. \A p \in 1..n : s[p] = rows[place[p]]
    BY <1>5
  <2>3. \A p \in 1..n : place[p] \in S
    BY <1>7
  <2> QED
    BY <2>1, <2>2, <2>3
<1>9. s \in [1..n -> R]
  BY <1>2, <1>5, <1>7
<1>10. \A r \in R : \E i \in 1..n : s[i] = r
  BY <1>1, <1>7, <1>8
<1>11. Lists(s, R)
  BY <1>1, <1>8, <1>9, <1>10 DEF Lists
<1>12. Ascending(s)
  <2> SUFFICES ASSUME NEW i \in 1..n, NEW j \in 1..n, i < j PROVE Before(s[i][1], s[j][1])
    BY <1>8 DEF Ascending, RowBefore
  <2>1. s[i] = rows[place[i]] /\ s[j] = rows[place[j]] /\ place[i] \in S /\ place[j] \in S
    BY <1>8
  <2>2. <<place[i], place[j]>> \in ahead
    BY <1>7
  <2>3. Before(rows[place[i]][1], rows[place[j]][1])
    BY <1>4, <2>1, <2>2
  <2> QED
    BY <2>1, <2>3
<1> QED
  BY <1>11, <1>12 DEF s

LEMMA ConcatLists ==
    ASSUME NEW s, NEW t, NEW A, NEW B, Lists(s, A), Lists(t, B), KeysOnce(s), KeysOnce(t),
           \A r \in A, q \in B : r[1] # q[1]
    PROVE  Lists(s \o t, A \cup B) /\ KeysOnce(s \o t)
<1> DEFINE m == Len(s)
           n == Len(t)
           u == s \o t
<1>1. m \in Nat /\ n \in Nat /\ s \in [1..m -> A] /\ t \in [1..n -> B]
  BY DEF Lists
<1>2. s \in Seq(A \cup B) /\ t \in Seq(A \cup B)
  <2>1. s \in [1..m -> A \cup B] /\ t \in [1..n -> A \cup B]
    BY <1>1
  <2> HIDE DEF m, n
  <2> QED
    BY <1>1, <2>1, SeqDef
<1>3. /\ u \in Seq(A \cup B) /\ Len(u) = m + n
      /\ \A i \in 1..m : u[i] = s[i]
      /\ \A i \in m + 1..m + n : u[i] = t[i - m]
  BY <1>2
<1> HIDE DEF m, n, u
<1>4. \A i \in 1..m + n : i \in 1..m \/ (i \in m + 1..m + n /\ i - m \in 1..n)
  BY <1>1
<1>5. Lists(u, A \cup B)
  <2>1. u \in [1..m + n -> A \cup B]
    BY <1>3, LenProperties
  <2>2. ASSUME NEW r \in A \cup B PROVE \E i \in 1..m + n : u[i] = r
    <3>1. CASE r \in A
      <4>1. PICK i \in 1..m : s[i] = r
        BY <3>1 DEF Lists, m
      <4>2. i \in 1..m + n /\ u[i] = r
        BY <1>1, <1>3, <4>1
      <4> QED
        BY <4>2
    <3>2. CASE r \in B
      <4>1. PICK i \in 1..n : t[i] = r
        BY <3>2 DEF Lists, n
      <4>2. m + i \in m + 1..m + n /\ m + i \in 1..m + n /\ (m + i) - m = i
        BY <1>1
      <4>3. u[m + i] = r
        BY <1>3, <4>1, <4>2
      <4> QED
        BY <4>2, <4>3
    <3> QED
      BY <3>1, <3>2
  <2>3. m + n \in Nat
    BY <1>1
  <2> QED
    BY <1>3, <2>1, <2>2, <2>3 DEF Lists
<1>6. KeysOnce(u)
  <2> SUFFICES ASSUME NEW i \in 1..m + n, NEW j \in 1..m + n, u[i][1] = u[j][1]
               PROVE  i = j
    BY <1>3 DEF KeysOnce
  <2>1. CASE i \in 1..m /\ j \in 1..m
    BY <1>3, <2>1 DEF KeysOnce, m
  <2>2. CASE i \in 1..m /\ j \in m + 1..m + n /\ j - m \in 1..n
    <3>1. u[i] \in A /\ u[j] \in B
      BY <1>1, <1>3, <2>2
    <3> QED
      BY <3>1
  <2>3. CASE j \in 1..m /\ i \in m + 1..m + n /\ i - m \in 1..n
    <3>1. u[j] \in A /\ u[i] \in B
      BY <1>1, <1>3, <2>3
    <3> QED
      BY <3>1
  <2>4. CASE /\ i \in m + 1..m + n /\ i - m \in 1..n
             /\ j \in m + 1..m + n /\ j - m \in 1..n
    <3>1. t[i - m][1] = t[j - m][1]
      BY <1>3, <2>4
    <3>2. i - m = j - m
      BY <2>4, <3>1 DEF KeysOnce, n
    <3> QED
      BY <1>1, <2>4, <3>2
  <2> QED
    BY <1>4, <2>1, <2>2, <2>3, <2>4
<1> QED
  BY <1>5, <1>6 DEF u

LEMMA RowsAtLists ==
    ASSUME NEW rows, NEW R, Lists(rows, R), KeysOnce(rows), NEW places, places \subseteq 1..Len(rows)
    PROVE  LET t == RowsAt(rows, places)
           IN  Lists(t, {rows[i] : i \in places}) /\ KeysOnce(t)
<1> DEFINE less == {e \in places \X places : e[1] < e[2]}
           place == InOrder(places, less)
           n == Cardinality(places)
           t == RowsAt(rows, places)
<1>1. Len(rows) \in Nat /\ \A i \in places : i \in Nat
  BY DEF Lists
<1>2. IsFiniteSet(places)
  <2>1. IsFiniteSet(1..Len(rows))
    BY <1>1, FS_Interval
  <2> QED
    BY <2>1, FS_Subset
<1>3. \A i, j \in places : <<i, j>> \in less <=> i < j
  OBVIOUS
<1>4. t = [p \in 1..n |-> rows[place[p]]]
  BY DEF RowsAt
<1> HIDE DEF less, t
<1>5. Orders(less, places)
  BY <1>1, <1>3 DEF Orders
<1>6. /\ n \in Nat /\ place \in [1..n -> places]
      /\ \A p, q \in 1..n : p < q => <<place[p], place[q]>> \in less
      /\ \A x \in places : \E p \in 1..n : place[p] = x
  BY <1>2, <1>5, InOrderLists
<1> HIDE DEF place, n
<1>7. Len(t) = n
  BY <1>4, <1>6
<1>8. \A p \in 1..n : t[p] = rows[place[p]] /\ place[p] \in places
  BY <1>4, <1>6
<1> DEFINE Q == {rows[i] : i \in places}
<1>9. Lists(t, Q)
  <2>1. \A i \in places : rows[i] \in Q
    OBVIOUS
  <2>2. ASSUME NEW r \in Q PROVE \E p \in 1..n : t[p] = r
    <3>1. PICK i \in places : r = rows[i]
      OBVIOUS
    <3>2. PICK p \in 1..n : place[p] = i
      BY <1>6
    <3>3. t[p] = r
      BY <1>8, <3>1, <3>2
    <3> QED
      BY <3>3
  <2> HIDE DEF Q
  <2>3. t \in [1..n -> Q]
    BY <1>4, <1>6, <2>1
  <2> QED
    BY <1>6, <1>7, <2>2, <2>3 DEF Lists
<1>10. KeysOnce(t)
  <2> SUFFICES ASSUME NEW p \in 1..n, NEW q \in 1..n, t[p][1] = t[q][1] PROVE p = q
    BY <1>7 DEF KeysOnce
  <2>1. place[p] = place[q] /\ place[p] \in places /\ place[q] \in places
    <3>1. /\ t[p] = rows[place[p]] /\ t[q] = rows[place[q]]
          /\ place[p] \in places /\ place[q] \in places
      BY <1>8
    <3>2. rows[place[p]][1] = rows[place[q]][1]
      BY <3>1
    <3> QED
      BY <3>1, <3>2 DEF KeysOnce
  <2>2. ~(p < q) /\ ~(q < p)
    <3>1. ~(<<place[p], place[q]>> \in less) /\ ~(<<place[q], place[p]>> \in less)
      <4>1. ~(place[p] < place[q]) /\ ~(place[q] < place[p])
        <5>1. PICK x \in Nat : place[p] = x /\ place[q] = x
          BY <1>1, <2>1
        <5>2. ~(x < x)
          OBVIOUS
        <5> QED
          BY <5>1, <5>2
      <4> QED
        BY <1>3, <2>1, <4>1
    <3> QED
      BY <1>6, <3>1
  <2> QED
    BY <1>6, <2>2
<1> QED
  BY <1>9, <1>10 DEF t

-----------------------------------------------------------------------------
\* The scans

\* The rows of map m whose key starts with p.
Matching(m, p) == {<<k, m[k]>> : k \in {x \in DOMAIN m : starts_with(x, p)}}

LEMMA TransientFindLists ==
    ASSUME NEW data, IsFiniteSet(DOMAIN data), DOMAIN data \subseteq Strings, NEW p \in Strings
    PROVE  Lists(transient_find(data, p), Matching(data, p)) /\ Ascending(transient_find(data, p))
<1> DEFINE m == [k \in {x \in DOMAIN data : ~Before(x, p)} |-> data[k]]
           R == {<<k, m[k]>> : k \in DOMAIN m}
           rows == RowsOf(m)
<1>1. DOMAIN m = {k \in DOMAIN data : ~Before(k, p)} /\ \A k \in DOMAIN m : m[k] = data[k]
  OBVIOUS
<1>2. transient_find(data, p) = take_while(rows, p)
  BY DEF transient_find, range
<1> HIDE DEF m
<1>3. IsFiniteSet(DOMAIN m) /\ DOMAIN m \subseteq Strings
  BY <1>1, FS_Subset
<1>4. Lists(rows, R) /\ Ascending(rows)
  BY <1>3, RowsOfLists
<1>5. Keyed(R) /\ \A r \in R : ~Before(r[1], p)
  BY <1>1, <1>3 DEF Keyed
<1> HIDE DEF R, rows
<1>6. Lists(take_while(rows, p), {r \in R : starts_with(r[1], p)}) /\ Ascending(take_while(rows, p))
  BY <1>4, <1>5, TakeWhileLists
<1>7. {r \in R : starts_with(r[1], p)} = Matching(data, p)
  <2>1. ASSUME NEW r \in R, starts_with(r[1], p) PROVE r \in Matching(data, p)
    <3>1. PICK k \in DOMAIN m : r = <<k, m[k]>>
      BY DEF R
    <3>2. r = <<k, data[k]>> /\ k \in DOMAIN data /\ starts_with(k, p)
      BY <1>1, <2>1, <3>1
    <3> QED
      BY <3>2 DEF Matching
  <2>2. ASSUME NEW r \in Matching(data, p) PROVE r \in R /\ starts_with(r[1], p)
    <3>1. PICK k \in DOMAIN data : r = <<k, data[k]>> /\ starts_with(k, p)
      BY DEF Matching
    <3>2. k \in DOMAIN m /\ r = <<k, m[k]>>
      BY <1>1, <3>1, NoneBeforePrefix
    <3> QED
      BY <3>1, <3>2 DEF R
  <2> QED
    BY <2>1, <2>2
<1> QED
  BY <1>2, <1>6, <1>7

\* An ascending list of the matching rows is what the properties ask for.
LEMMA ListIsScan ==
    ASSUME NEW rows, NEW m, Lists(rows, Matching(m, prefix)), Ascending(rows)
    PROVE  IsScanOf(rows, m)
<1>1. \A i \in 1..(Len(rows) - 1) : RowBefore(rows[i], rows[i + 1])
  <2> SUFFICES ASSUME NEW i \in 1..(Len(rows) - 1) PROVE RowBefore(rows[i], rows[i + 1])
    OBVIOUS
  <2>1. i \in 1..Len(rows) /\ i + 1 \in 1..Len(rows) /\ i < i + 1
    BY DEF Lists
  <2> QED
    BY <2>1 DEF Ascending
<1>2. {rows[i] : i \in 1..Len(rows)} = Matching(m, prefix)
  BY DEF Lists
<1> QED
  BY <1>1, <1>2 DEF IsScanOf, Matching

\* However the HashMap orders the databases, each comes once.
LEMMA OrderCovers ==
    ASSUME NEW order \in SetToSeqs(Namespaces)
    PROVE  LET c == Cardinality(Namespaces)
           IN  /\ c \in Nat /\ Len(order) = c /\ order \in [1..c -> Namespaces]
               /\ \A i, j \in 1..c : order[i] = order[j] => i = j
               /\ \A n \in Namespaces : \E i \in 1..c : order[i] = n
<1> DEFINE c == Cardinality(Namespaces)
<1>1. c \in Nat
  BY NamespacesAssumption, FS_CardinalityType
<1>2. order \in [1..c -> Namespaces] /\ \A i, j \in 1..c : i # j => order[i] # order[j]
  BY DEF SetToSeqs
<1> HIDE DEF c
<1>3. order \in Injection(1..c, Namespaces)
  BY <1>2 DEF Injection, IsInjective
<1>4. Cardinality(1..c) = c
  BY <1>1, FS_Interval
<1>5. order \in Surjection(1..c, Namespaces)
  BY <1>3, <1>4, NamespacesAssumption, FS_Injection DEF c
<1>6. \A n \in Namespaces : \E i \in 1..c : order[i] = n
  BY <1>5 DEF Surjection
<1>7. Len(order) = c
  BY <1>1, <1>2
<1> QED
  BY <1>1, <1>2, <1>6, <1>7 DEF c

\* The keys of all databases, and what is stored under them.
AllKeys(dbs) == UNION {DOMAIN dbs[n] : n \in Namespaces}

\* No key is in two databases.
Separate(dbs) ==
    \A n, o \in Namespaces : \A k \in DOMAIN dbs[n] : k \in DOMAIN dbs[o] => n = o

LEMMA PushedLists ==
    ASSUME NEW dbs, NEW order \in SetToSeqs(Namespaces), NEW p, NEW v,
           IsFiniteSet(AllKeys(dbs)), AllKeys(dbs) \subseteq Strings, Separate(dbs),
           \A n \in Namespaces : \A k \in DOMAIN dbs[n] : dbs[n][k] = v
    PROVE  LET all  == [k \in AllKeys(dbs) |-> v]
               rows == Pushed(dbs, order, p)
           IN  Lists(rows, Matching(all, p)) /\ KeysOnce(rows)
<1> DEFINE U == AllKeys(dbs)
           all == [k \in U |-> v]
           rows == Pushed(dbs, order, p)
           c == Cardinality(Namespaces)
           found == {h \in (1..c) \X U : h[2] \in DOMAIN dbs[order[h[1]]] /\ starts_with(h[2], p)}
           earlier == {e \in found \X found :
                         \/ e[1][1] < e[2][1]
                         \/ e[1][1] = e[2][1] /\ Before(e[1][2], e[2][2])}
           hits == InOrder(found, earlier)
           n == Cardinality(found)
<1>1. /\ c \in Nat /\ Len(order) = c /\ order \in [1..c -> Namespaces]
      /\ \A i, j \in 1..c : order[i] = order[j] => i = j
      /\ \A d \in Namespaces : \E i \in 1..c : order[i] = d
  BY OrderCovers
<1>2. rows = [q \in 1..n |-> <<hits[q][2], dbs[order[hits[q][1]]][hits[q][2]]>>]
  BY <1>1 DEF Pushed, AllKeys
<1>3. /\ \A k \in U : \E d \in Namespaces : k \in DOMAIN dbs[d]
      /\ \A d \in Namespaces : \A k \in DOMAIN dbs[d] : k \in U
  BY DEF AllKeys
<1> HIDE DEF U, c
<1>4. \A h \in found : /\ h[1] \in 1..c /\ h[2] \in U /\ h[2] \in Strings /\ order[h[1]] \in Namespaces
                       /\ h[2] \in DOMAIN dbs[order[h[1]]] /\ starts_with(h[2], p)
                       /\ h[1] \in Nat /\ h = <<h[1], h[2]>>
  BY <1>1 DEF U
<1>5. IsFiniteSet(found)
  <2>1. IsFiniteSet(1..c)
    BY <1>1, FS_Interval
  <2>2. IsFiniteSet((1..c) \X U)
    BY <2>1, FS_Product DEF U
  <2> QED
    BY <2>2, FS_Subset
<1>6. \A x, y \in found : <<x, y>> \in earlier <=> x[1] < y[1] \/ (x[1] = y[1] /\ Before(x[2], y[2]))
  OBVIOUS
<1>7. \A i \in 1..c, k \in U : k \in DOMAIN dbs[order[i]] /\ starts_with(k, p) => <<i, k>> \in found
  OBVIOUS
<1> HIDE DEF found, earlier, rows, n
<1>8. Orders(earlier, found)
  <2>1. \A x \in found : <<x, x>> \notin earlier
    BY <1>4, <1>6, BeforeIrreflexive
  <2>2. ASSUME NEW x \in found, NEW y \in found, NEW z \in found,
               <<x, y>> \in earlier, <<y, z>> \in earlier
        PROVE  <<x, z>> \in earlier
    <3>1. x[1] \in Nat /\ y[1] \in Nat /\ z[1] \in Nat
      BY <1>4
    <3>2. (x[1] < y[1] \/ (x[1] = y[1] /\ Before(x[2], y[2])))
          /\ (y[1] < z[1] \/ (y[1] = z[1] /\ Before(y[2], z[2])))
      BY <1>6, <2>2
    <3>3. Before(x[2], y[2]) /\ Before(y[2], z[2]) => Before(x[2], z[2])
      BY <1>4, BeforeTransitive
    <3>4. x[1] < z[1] \/ (x[1] = z[1] /\ Before(x[2], z[2]))
      BY <3>1, <3>2, <3>3
    <3> QED
      BY <1>6, <3>4
  <2>3. ASSUME NEW x \in found, NEW y \in found, x # y
        PROVE  <<x, y>> \in earlier \/ <<y, x>> \in earlier
    <3>1. x[1] \in Nat /\ y[1] \in Nat
      BY <1>4
    <3>2. CASE x[1] # y[1]
      <4>1. x[1] < y[1] \/ y[1] < x[1]
        BY <3>1, <3>2
      <4> QED
        BY <1>6, <4>1
    <3>3. CASE x[1] = y[1]
      <4>1. x[2] # y[2]
        BY <1>4, <2>3, <3>3
      <4>2. Before(x[2], y[2]) \/ Before(y[2], x[2])
        BY <1>4, <4>1, BeforeTotal
      <4> QED
        BY <1>6, <3>3, <4>2
    <3> QED
      BY <3>2, <3>3
  <2> QED
    BY <2>1, <2>2, <2>3 DEF Orders
<1>9. /\ n \in Nat /\ hits \in [1..n -> found]
      /\ \A q, r \in 1..n : q < r => <<hits[q], hits[r]>> \in earlier
      /\ \A x \in found : \E q \in 1..n : hits[q] = x
  BY <1>5, <1>8, InOrderLists DEF n
<1> HIDE DEF hits
<1>10. Len(rows) = n
  BY <1>2, <1>9
<1>11. ASSUME NEW q \in 1..n
       PROVE  /\ hits[q] \in found /\ hits[q][2] \in U /\ starts_with(hits[q][2], p)
              /\ rows[q] = <<hits[q][2], v>>
  <2>1. hits[q] \in found
    BY <1>9
  <2>2. dbs[order[hits[q][1]]][hits[q][2]] = v
    BY <1>4, <2>1
  <2> QED
    BY <1>2, <1>4, <2>1, <2>2
<1>12. DOMAIN all = U /\ \A k \in U : all[k] = v
  OBVIOUS
<1> HIDE DEF all
<1>13. Lists(rows, Matching(all, p))
  <2>1. \A q \in 1..n : rows[q] \in Matching(all, p)
    <3> SUFFICES ASSUME NEW q \in 1..n PROVE rows[q] \in Matching(all, p)
      OBVIOUS
    <3>1. PICK k \in DOMAIN all : starts_with(k, p) /\ rows[q] = <<k, all[k]>>
      BY <1>11, <1>12
    <3> QED
      BY <3>1 DEF Matching
  <2>2. ASSUME NEW r \in Matching(all, p) PROVE \E q \in 1..n : rows[q] = r
    <3>1. PICK k \in U : r = <<k, v>> /\ starts_with(k, p)
      BY <1>12 DEF Matching
    <3>2. PICK d \in Namespaces : k \in DOMAIN dbs[d]
      BY <1>3
    <3>3. PICK i \in 1..c : order[i] = d
      BY <1>1
    <3>4. <<i, k>> \in found
      BY <1>7, <3>1, <3>2, <3>3
    <3>5. PICK q \in 1..n : hits[q] = <<i, k>>
      BY <1>9, <3>4
    <3>6. rows[q] = r
      BY <1>11, <3>1, <3>5
    <3> QED
      BY <3>6
  <2>3. rows \in [1..n -> Matching(all, p)]
    BY <1>2, <2>1
  <2> QED
    BY <1>9, <1>10, <2>2, <2>3 DEF Lists
<1>14. KeysOnce(rows)
  <2> SUFFICES ASSUME NEW q \in 1..n, NEW r \in 1..n, rows[q][1] = rows[r][1] PROVE q = r
    BY <1>10 DEF KeysOnce
  <2>1. hits[q] \in found /\ hits[r] \in found /\ hits[q][2] = hits[r][2]
    BY <1>11
  <2>2. order[hits[q][1]] = order[hits[r][1]]
    BY <1>4, <2>1 DEF Separate
  <2>3. hits[q][1] = hits[r][1]
    BY <1>1, <1>4, <2>1, <2>2
  <2>4. hits[q] = hits[r]
    BY <1>4, <2>1, <2>3
  <2>5. ~(q < r) /\ ~(r < q)
    BY <1>8, <1>9, <2>1, <2>4 DEF Orders
  <2> QED
    BY <1>9, <2>5
<1> QED
  BY <1>13, <1>14 DEF all, rows, U

\* Both lists in one, without the rows of the second whose key is in the first.
LEMMA MergeLists ==
    ASSUME NEW hits, NEW rows, NEW A, NEW B, Lists(hits, A), Lists(rows, B), KeysOnce(hits),
           KeysOnce(rows), Keyed(A), Keyed(B)
    PROVE  LET u == merge(hits, rows)
           IN  /\ Lists(u, A \cup {r \in B : \A a \in A : a[1] # r[1]})
               /\ Ascending(u)
<1> DEFINE keys == {hits[i][1] : i \in 1..Len(hits)}
           places == {i \in 1..Len(rows) : rows[i][1] \notin keys}
           Q == {rows[i] : i \in places}
           C == {r \in B : \A a \in A : a[1] # r[1]}
           t == RowsAt(rows, places)
<1>1. merge(hits, rows) = SortByKey(hits \o t)
  BY DEF merge
<1>2. places \subseteq 1..Len(rows)
  OBVIOUS
<1>3. Lists(t, Q) /\ KeysOnce(t)
  BY <1>2, RowsAtLists
<1>4. \A k : k \in keys <=> \E a \in A : a[1] = k
  BY DEF Lists
<1>5. Q = C
  <2>1. ASSUME NEW r \in Q PROVE r \in C
    <3>1. PICK i \in places : r = rows[i]
      OBVIOUS
    <3>2. r \in B /\ r[1] \notin keys
      BY <3>1 DEF Lists
    <3> QED
      BY <1>4, <3>2
  <2>2. ASSUME NEW r \in C PROVE r \in Q
    <3>1. PICK i \in 1..Len(rows) : rows[i] = r
      BY DEF Lists
    <3>2. rows[i][1] \notin keys
      BY <1>4, <3>1
    <3> QED
      BY <3>1, <3>2
  <2> QED
    BY <2>1, <2>2
<1> HIDE DEF Q, t
<1>6. Lists(t, C)
  BY <1>3, <1>5
<1>7. Lists(hits \o t, A \cup C) /\ KeysOnce(hits \o t)
  BY <1>3, <1>6, ConcatLists
<1>8. Keyed(A \cup C)
  BY DEF Keyed
<1> QED
  BY <1>1, <1>7, <1>8, SortLists

-----------------------------------------------------------------------------
\* The specification

\* The tiers hold finitely many keys, and no key is in two databases.
TiersOK ==
    /\ IsFiniteSet(DOMAIN transient) /\ DOMAIN transient \subseteq Strings
    /\ IsFiniteSet(AllKeys(databases)) /\ AllKeys(databases) \subseteq Strings
    /\ Separate(databases)
    /\ \A n \in Namespaces : \A k \in DOMAIN databases[n] : databases[n][k] = FromPersistent
    /\ prefix \in Strings

ScanInv == TiersOK /\ RangeIsExact /\ DatabasesInOrder /\ MergeIsExact

LEMMA InitScan == Init => ScanInv
<1> SUFFICES ASSUME Init PROVE ScanInv
  OBVIOUS
<1>1. PICK T \in SUBSET Strings, P \in SUBSET Strings :
         /\ IsFiniteSet(T) /\ IsFiniteSet(P)
         /\ transient = [k \in T |-> FromTransient]
         /\ databases = [n \in Namespaces |-> [k \in {x \in P : Home(x) = n} |-> FromPersistent]]
  BY DEF Init
<1>2. prefix \in Strings /\ ~result.done
  BY DEF Init, Nothing
<1>3. \A n \in Namespaces : /\ DOMAIN databases[n] = {x \in P : Home(x) = n}
                            /\ \A k \in DOMAIN databases[n] : databases[n][k] = FromPersistent
  BY <1>1
<1>4. AllKeys(databases) \subseteq P
  BY <1>3 DEF AllKeys
<1>5. IsFiniteSet(AllKeys(databases)) /\ AllKeys(databases) \subseteq Strings
  BY <1>1, <1>4, FS_Subset
<1>6. Separate(databases)
  BY <1>3 DEF Separate
<1>7. TiersOK
  BY <1>1, <1>2, <1>3, <1>5, <1>6 DEF TiersOK
<1> QED
  BY <1>2, <1>7 DEF ScanInv, RangeIsExact, DatabasesInOrder, MergeIsExact

LEMMA FindScan ==
    ASSUME TiersOK, FindByPrefix
    PROVE  ScanInv'
<1> DEFINE hits == transient_find(transient, prefix)
           A == Matching(transient, prefix)
           B == Matching(Persisted, prefix)
<1>1. PICK order \in SetToSeqs(Namespaces) :
         LET rows == persistent_find(databases, order, prefix)
         IN  result' = [all |-> merge(hits, rows), transient |-> hits,
                        persistent |-> rows, done |-> TRUE]
  BY DEF FindByPrefix
<1> DEFINE rows == persistent_find(databases, order, prefix)
           pushed == Pushed(databases, order, prefix)
<1>2. transient' = transient /\ databases' = databases /\ prefix' = prefix
  BY DEF FindByPrefix
<1>3. Persisted = [k \in AllKeys(databases) |-> FromPersistent]
  BY DEF Persisted, AllKeys
<1>4. /\ IsFiniteSet(DOMAIN transient) /\ DOMAIN transient \subseteq Strings
      /\ IsFiniteSet(AllKeys(databases)) /\ AllKeys(databases) \subseteq Strings
      /\ Separate(databases) /\ prefix \in Strings
      /\ \A n \in Namespaces : \A k \in DOMAIN databases[n] : databases[n][k] = FromPersistent
  BY DEF TiersOK
<1>5. Lists(hits, A) /\ Ascending(hits)
  BY <1>4, TransientFindLists
<1>6. Lists(pushed, B) /\ KeysOnce(pushed)
  BY <1>3, <1>4, PushedLists
<1>7. Keyed(A) /\ Keyed(B)
  BY <1>3, <1>4 DEF Keyed, Matching
<1> HIDE DEF A, B, hits, pushed
<1>8. rows = SortByKey(pushed)
  BY DEF persistent_find, pushed
<1> HIDE DEF rows
<1>9. Lists(rows, B) /\ Ascending(rows)
  BY <1>6, <1>7, <1>8, SortLists
<1>10. KeysOnce(hits) /\ KeysOnce(rows)
  BY <1>5, <1>7, <1>9, AscendingOnce
<1> DEFINE u == merge(hits, rows)
           C == {r \in B : \A a \in A : a[1] # r[1]}
<1>11. Lists(u, A \cup C) /\ Ascending(u)
  BY <1>5, <1>7, <1>9, <1>10, MergeLists
<1>12. A \cup C = Matching(OneMap, prefix)
  <2>1. /\ DOMAIN OneMap = DOMAIN transient \cup DOMAIN Persisted
        /\ \A k \in DOMAIN transient : OneMap[k] = transient[k]
        /\ \A k \in DOMAIN Persisted : k \notin DOMAIN transient => OneMap[k] = Persisted[k]
    BY DEF OneMap
  <2>2. ASSUME NEW r \in A PROVE r \in Matching(OneMap, prefix)
    <3>1. PICK k \in DOMAIN transient : r = <<k, transient[k]>> /\ starts_with(k, prefix)
      BY DEF A, Matching
    <3>2. k \in DOMAIN OneMap /\ r = <<k, OneMap[k]>>
      BY <2>1, <3>1
    <3> QED
      BY <3>1, <3>2 DEF Matching
  <2>3. ASSUME NEW r \in C PROVE r \in Matching(OneMap, prefix)
    <3>1. PICK k \in DOMAIN Persisted : r = <<k, Persisted[k]>> /\ starts_with(k, prefix)
      BY DEF B, Matching
    <3>2. k \notin DOMAIN transient
      <4> SUFFICES ASSUME k \in DOMAIN transient PROVE FALSE
        OBVIOUS
      <4>1. <<k, transient[k]>> \in A /\ <<k, transient[k]>>[1] = r[1]
        BY <3>1 DEF A, Matching
      <4> QED
        BY <4>1
    <3>3. k \in DOMAIN OneMap /\ r = <<k, OneMap[k]>>
      BY <2>1, <3>1, <3>2
    <3> QED
      BY <3>1, <3>3 DEF Matching
  <2>4. ASSUME NEW r \in Matching(OneMap, prefix) PROVE r \in A \cup C
    <3>1. PICK k \in DOMAIN OneMap : r = <<k, OneMap[k]>> /\ starts_with(k, prefix)
      BY DEF Matching
    <3>2. CASE k \in DOMAIN transient
      BY <2>1, <3>1, <3>2 DEF A, Matching
    <3>3. CASE k \notin DOMAIN transient
      <4>1. k \in DOMAIN Persisted /\ r = <<k, Persisted[k]>>
        BY <2>1, <3>1, <3>3
      <4>2. r \in B
        BY <3>1, <4>1 DEF B, Matching
      <4>3. \A a \in A : a[1] # r[1]
        BY <3>3, <4>1 DEF A, Matching
      <4> QED
        BY <4>2, <4>3
    <3> QED
      BY <3>2, <3>3
  <2> QED
    BY <2>2, <2>3, <2>4
<1> HIDE DEF u, C
<1>13. /\ IsScanOf(hits, transient) /\ IsScanOf(rows, Persisted) /\ IsScanOf(u, OneMap)
  BY <1>5, <1>9, <1>11, <1>12, ListIsScan DEF A, B
<1>14. result'.transient = hits /\ result'.persistent = rows /\ result'.all = u
  BY <1>1 DEF rows, u
<1>15. TiersOK'
  BY <1>2, <1>4 DEF TiersOK, AllKeys, Separate
<1>16. Persisted' = Persisted /\ OneMap' = OneMap
  BY <1>2 DEF Persisted, OneMap
<1>17. RangeIsExact'
  BY <1>2, <1>13, <1>14 DEF RangeIsExact, IsScanOf
<1>18. DatabasesInOrder'
  BY <1>2, <1>13, <1>14, <1>16 DEF DatabasesInOrder, IsScanOf
<1>19. MergeIsExact'
  BY <1>2, <1>13, <1>14, <1>16 DEF MergeIsExact, IsScanOf
<1> QED
  BY <1>15, <1>17, <1>18, <1>19 DEF ScanInv

LEMMA NextScan == ScanInv /\ [FindByPrefix]_vars => ScanInv'
<1> SUFFICES ASSUME ScanInv, [FindByPrefix]_vars PROVE ScanInv'
  OBVIOUS
<1>1. CASE FindByPrefix
  BY <1>1, FindScan DEF ScanInv
<1>2. CASE UNCHANGED vars
  <2>1. transient' = transient /\ databases' = databases /\ prefix' = prefix /\ result' = result
    BY <1>2 DEF vars
  <2>2. Persisted' = Persisted /\ OneMap' = OneMap
    BY <2>1 DEF Persisted, OneMap
  <2>3. TiersOK'
    BY <2>1 DEF ScanInv, TiersOK, AllKeys, Separate
  <2>4. RangeIsExact'
    BY <2>1 DEF ScanInv, RangeIsExact, IsScanOf
  <2>5. DatabasesInOrder'
    BY <2>1, <2>2 DEF ScanInv, DatabasesInOrder, IsScanOf
  <2>6. MergeIsExact'
    BY <2>1, <2>2 DEF ScanInv, MergeIsExact, IsScanOf
  <2> QED
    BY <2>3, <2>4, <2>5, <2>6 DEF ScanInv
<1> QED
  BY <1>1, <1>2

\* The scan of the transient tier finds the keys with the prefix and no others, in order:
\* range(prefix..) starts at the prefix itself, nothing that matches comes before it, and
\* take_while ends at the first key that does not match, after which none does (store.rs).
THEOREM RangeScanIsExact == Spec => []RangeIsExact
<1>1. ScanInv => RangeIsExact
  BY DEF ScanInv
<1> QED
  BY <1>1, InitScan, NextScan, PTL DEF Spec

\* The scan of the persistent tier finds the keys with the prefix in all databases, in one
\* ascending order, whatever the order in which the HashMap yields the databases and
\* although each is read by itself (sqlite_bus.rs).
THEOREM DatabasesAreScannedInOrder == Spec => []DatabasesInOrder
<1>1. ScanInv => DatabasesInOrder
  BY DEF ScanInv
<1> QED
  BY <1>1, InitScan, NextScan, PTL DEF Spec

\* The scan of the bus lists the matching keys of both tiers in one ascending order, each
\* key once, with the transient tier's value where both have one (permutive_bus.rs).
THEOREM MergeOfTiersIsExact == Spec => []MergeIsExact
<1>1. ScanInv => MergeIsExact
  BY DEF ScanInv
<1> QED
  BY <1>1, InitScan, NextScan, PTL DEF Spec

=============================================================================
