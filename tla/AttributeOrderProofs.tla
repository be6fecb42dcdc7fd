------------------------ MODULE AttributeOrderProofs ------------------------
(***************************************************************************)
(* What the attribute order guarantees while the catalog changes under it, *)
(* for any clients, bindings and catalog changes: types, the order that    *)
(* an accepted replacement leaves, and the order of what survives.         *)
(*                                                                         *)
(* The first part says what InOrder and Only do to sequences. It needs no  *)
(* induction: the number of members before one is an injection into the    *)
(* numbers below the size of the set, hence onto them.                     *)
(***************************************************************************)
EXTENDS ApiServerProofs, FiniteSetTheorems, FunctionTheorems, SequenceTheorems

\* R orders S strictly and totally.
StrictlyOrders(S, R) ==
  /\ \A x \in S : <<x, x>> \notin R
  /\ \A x, y \in S : x # y => <<x, y>> \in R \/ <<y, x>> \in R
  /\ \A x, y, z \in S : <<x, y>> \in R /\ <<y, z>> \in R => <<x, z>> \in R

RankIn(S, R, x) == Cardinality({y \in S : <<y, x>> \in R})

\* A member has a greater rank than those before it.
LEMMA RanksAscend ==
  ASSUME NEW S, IsFiniteSet(S), NEW R, StrictlyOrders(S, R), NEW x \in S, NEW y \in S, <<x, y>> \in R
  PROVE  RankIn(S, R, x) < RankIn(S, R, y)
<1> DEFINE A == {z \in S : <<z, x>> \in R}
           B == {z \in S : <<z, y>> \in R}
<1>1. A \in SUBSET B /\ x \in B /\ x \notin A
  BY DEF StrictlyOrders
<1>2. IsFiniteSet(B)
  <2>1. B \in SUBSET S
    OBVIOUS
  <2> HIDE DEF B
  <2> QED BY <2>1, FS_Subset
<1> HIDE DEF A, B
<1>3. Cardinality(A) <= Cardinality(B) /\ Cardinality(A) # Cardinality(B) /\ IsFiniteSet(A)
  BY <1>1, <1>2, FS_Subset
<1>4. Cardinality(A) \in Nat /\ Cardinality(B) \in Nat
  BY <1>2, <1>3, FS_CardinalityType
<1>5. Cardinality(A) < Cardinality(B)
  BY <1>3, <1>4
<1> QED BY <1>5 DEF RankIn, A, B

\* A member's rank is below the size of the set.
LEMMA RanksBounded ==
  ASSUME NEW S, IsFiniteSet(S), NEW R, StrictlyOrders(S, R), NEW x \in S
  PROVE  RankIn(S, R, x) \in 0 .. Cardinality(S) - 1
<1> DEFINE A == {z \in S : <<z, x>> \in R}
<1>1. A \in SUBSET S /\ x \notin A
  BY DEF StrictlyOrders
<1> HIDE DEF A
<1>2. Cardinality(A) <= Cardinality(S) /\ Cardinality(A) # Cardinality(S) /\ IsFiniteSet(A)
  BY <1>1, FS_Subset
<1>3. Cardinality(A) \in Nat /\ Cardinality(S) \in Nat
  BY <1>2, FS_CardinalityType
<1>4. Cardinality(A) \in 0 .. Cardinality(S) - 1
  BY <1>2, <1>3
<1> QED BY <1>4 DEF RankIn, A

\* Every place below the size of the set is the rank of a member.
LEMMA RanksReached ==
  ASSUME NEW S, IsFiniteSet(S), NEW R, StrictlyOrders(S, R), NEW n \in 1 .. Cardinality(S)
  PROVE  \E x \in S : RankIn(S, R, x) = n - 1
<1> DEFINE k == Cardinality(S)
           T == 0 .. k - 1
           rank == [x \in S |-> RankIn(S, R, x)]
<1>1. k \in Nat
  BY FS_CardinalityType
<1>2. rank \in [S -> T]
  BY RanksBounded
<1>3. \A x, y \in S : rank[x] = rank[y] => x = y
  <2> SUFFICES ASSUME NEW x \in S, NEW y \in S, rank[x] = rank[y], x # y PROVE FALSE
    OBVIOUS
  <2>1. <<x, y>> \in R \/ <<y, x>> \in R
    BY DEF StrictlyOrders
  <2>2. RankIn(S, R, x) \in Int /\ RankIn(S, R, x) = RankIn(S, R, y)
    BY RanksBounded
  <2> QED BY <2>1, <2>2, RanksAscend
<1> HIDE DEF rank
<1>4. rank \in Injection(S, T)
  BY <1>2, <1>3 DEF Injection, IsInjective
<1>5. IsFiniteSet(T) /\ Cardinality(T) = k
  <2>1. 0 \in Int /\ k - 1 \in Int /\ (IF 0 > k - 1 THEN 0 ELSE (k - 1) - 0 + 1) = k
    BY <1>1
  <2> HIDE DEF k
  <2>2. IsFiniteSet(0 .. k - 1) /\ Cardinality(0 .. k - 1) = IF 0 > k - 1 THEN 0 ELSE (k - 1) - 0 + 1
    BY <2>1, FS_Interval
  <2> QED BY <2>1, <2>2
<1>6. rank \in Surjection(S, T)
  BY <1>4, <1>5, FS_Injection
<1>7. n - 1 \in T
  BY <1>1
<1>8. PICK x \in S : rank[x] = n - 1
  BY <1>6, <1>7 DEF Surjection
<1> QED BY <1>8 DEF rank

\* InOrder lists every member of a finite set once, in its order.
LEMMA InOrderLists ==
  ASSUME NEW S, IsFiniteSet(S), NEW R, StrictlyOrders(S, R)
  PROVE  /\ Cardinality(S) \in Nat /\ InOrder(S, R) \in [1 .. Cardinality(S) -> S]
         /\ \A x \in S : \E n \in 1 .. Cardinality(S) : InOrder(S, R)[n] = x
         /\ \A m, n \in 1 .. Cardinality(S) : m < n <=> <<InOrder(S, R)[m], InOrder(S, R)[n]>> \in R
<1> DEFINE k == Cardinality(S)
           s == InOrder(S, R)
<1>1. k \in Nat
  BY FS_CardinalityType
<1>2. \A n \in 1 .. k : s[n] \in S /\ RankIn(S, R, s[n]) = n - 1
  <2> SUFFICES ASSUME NEW n \in 1 .. k PROVE s[n] \in S /\ RankIn(S, R, s[n]) = n - 1
    OBVIOUS
  <2>1. s[n] = CHOOSE x \in S : RankIn(S, R, x) = n - 1
    BY DEF InOrder, RankIn
  <2>2. \E x \in S : RankIn(S, R, x) = n - 1
    BY RanksReached
  <2> QED BY <2>1, <2>2
<1>3. s \in [1 .. k -> S]
  <2> DEFINE pick(n) == CHOOSE x \in S : Cardinality({y \in S : <<y, x>> \in R}) = n - 1
  <2>1. s = [n \in 1 .. k |-> pick(n)]
    BY DEF InOrder
  <2> HIDE DEF pick, s
  <2> QED BY <1>2, <2>1
<1> HIDE DEF s
<1>5. \A x, y \in S : RankIn(S, R, x) < RankIn(S, R, y) => <<x, y>> \in R
  <2> SUFFICES ASSUME NEW x \in S, NEW y \in S, RankIn(S, R, x) < RankIn(S, R, y), <<x, y>> \notin R
               PROVE  FALSE
    OBVIOUS
  <2>1. RankIn(S, R, x) \in Int /\ RankIn(S, R, y) \in Int
    BY RanksBounded
  <2>2. x = y \/ <<y, x>> \in R
    BY DEF StrictlyOrders
  <2> QED BY <2>1, <2>2, RanksAscend
<1>6. \A x \in S : \E n \in 1 .. k : s[n] = x
  <2> SUFFICES ASSUME NEW x \in S PROVE \E n \in 1 .. k : s[n] = x
    OBVIOUS
  <2> DEFINE n == RankIn(S, R, x) + 1
  <2>1. n \in 1 .. k /\ RankIn(S, R, x) = n - 1
    BY <1>1, RanksBounded
  <2> HIDE DEF n
  <2>2. s[n] \in S /\ RankIn(S, R, s[n]) = n - 1
    BY <1>2, <2>1
  <2>3. ~(<<x, s[n]>> \in R) /\ ~(<<s[n], x>> \in R)
    BY <2>1, <2>2, RanksAscend
  <2>4. s[n] = x
    BY <2>2, <2>3 DEF StrictlyOrders
  <2> QED BY <2>1, <2>4
<1>7. ASSUME NEW m \in 1 .. k, NEW n \in 1 .. k
      PROVE  m < n <=> <<s[m], s[n]>> \in R
  <2>1. /\ s[m] \in S /\ s[n] \in S
        /\ RankIn(S, R, s[m]) = m - 1 /\ RankIn(S, R, s[n]) = n - 1
    BY <1>2
  <2>2. m < n <=> m - 1 < n - 1
    OBVIOUS
  <2>3. m - 1 < n - 1 => <<s[m], s[n]>> \in R
    BY <1>5, <2>1
  <2>4. <<s[m], s[n]>> \in R => m - 1 < n - 1
    BY <2>1, RanksAscend
  <2> QED BY <2>2, <2>3, <2>4
<1> QED BY <1>1, <1>3, <1>6, <1>7 DEF s

-----------------------------------------------------------------------------
\* x comes before y in s.
Precedes(s, x, y) == \E i, j \in DOMAIN s : i < j /\ s[i] = x /\ s[j] = y

\* Places of a sequence are ordered by their number.
LEMMA PlacesAreOrdered ==
  ASSUME NEW k \in Nat, NEW S \in SUBSET (1 .. k)
  PROVE  IsFiniteSet(S) /\ StrictlyOrders(S, Ascending)
<1>1. IsFiniteSet(1 .. k)
  BY FS_Interval
<1>2. IsFiniteSet(S)
  BY <1>1, FS_Subset
<1>3. \A x, y \in S : x \in Nat /\ (<<x, y>> \in Ascending <=> x < y)
  BY DEF Ascending
<1>4. StrictlyOrders(S, Ascending)
  BY <1>3 DEF StrictlyOrders
<1> QED BY <1>2, <1>4

\* s is ids at the places e, which ascend and are those of the members in T.
Chosen(ids, T, s, k, e) ==
  /\ s = [n \in 1 .. k |-> ids[e[n]]]
  /\ \A n \in 1 .. k : ids[e[n]] \in T
  /\ \A i \in DOMAIN ids : ids[i] \in T => \E n \in 1 .. k : e[n] = i
  /\ \A m, n \in 1 .. k : m < n <=> e[m] < e[n]

\* Only keeps places of the sequence, all those whose member is in T, in order.
LEMMA OnlyPlaces ==
  ASSUME NEW X, NEW ids \in Seq(X), NEW T
  PROVE  \E k \in Nat : \E e \in [1 .. k -> DOMAIN ids] : Chosen(ids, T, Only(ids, T), k, e)
<1> DEFINE S == {i \in DOMAIN ids : ids[i] \in T}
           k == Cardinality(S)
           e == InOrder(S, Ascending)
<1>1. DOMAIN ids = 1 .. Len(ids) /\ Len(ids) \in Nat
  OBVIOUS
<1>2. S \in SUBSET (1 .. Len(ids))
  BY <1>1
<1>3. Only(ids, T) = [n \in DOMAIN e |-> ids[e[n]]]
  BY DEF Only
<1>4. \A i : i \in S <=> i \in DOMAIN ids /\ ids[i] \in T
  OBVIOUS
<1> HIDE DEF S
<1>5. IsFiniteSet(S) /\ StrictlyOrders(S, Ascending)
  BY <1>1, <1>2, PlacesAreOrdered
<1>6. /\ k \in Nat /\ e \in [1 .. k -> S]
      /\ \A x \in S : \E n \in 1 .. k : e[n] = x
      /\ \A m, n \in 1 .. k : m < n <=> <<e[m], e[n]>> \in Ascending
  BY <1>5, InOrderLists
<1> HIDE DEF e, k
<1>7. \A m, n \in 1 .. k : <<e[m], e[n]>> \in Ascending <=> e[m] < e[n]
  <2>1. \A m \in 1 .. k : e[m] \in Nat
    BY <1>1, <1>4, <1>6
  <2> QED BY <2>1 DEF Ascending
<1>8. Only(ids, T) = [n \in 1 .. k |-> ids[e[n]]]
  BY <1>3, <1>6
<1>9. e \in [1 .. k -> DOMAIN ids] /\ \A n \in 1 .. k : ids[e[n]] \in T
  BY <1>4, <1>6
<1>10. \A i \in DOMAIN ids : ids[i] \in T => \E n \in 1 .. k : e[n] = i
  BY <1>4, <1>6
<1>11. \A m, n \in 1 .. k : m < n <=> e[m] < e[n]
  BY <1>6, <1>7
<1>12. Chosen(ids, T, Only(ids, T), k, e)
  BY <1>8, <1>9, <1>10, <1>11 DEF Chosen
<1> QED BY <1>6, <1>9, <1>12

\* What Only makes of a sequence: its members in T, before each other as they
\* were.
LEMMA OnlyKeepsOrder ==
  ASSUME NEW X, NEW ids \in Seq(X), NEW T
  PROVE  /\ Only(ids, T) \in Seq(X)
         /\ Range(Only(ids, T)) = Range(ids) \cap T
         /\ \A x, y : Precedes(Only(ids, T), x, y) <=> Precedes(ids, x, y) /\ x \in T /\ y \in T
<1> DEFINE s == Only(ids, T)
<1>1. PICK k \in Nat : \E e \in [1 .. k -> DOMAIN ids] : Chosen(ids, T, s, k, e)
  BY OnlyPlaces
<1>0. PICK e \in [1 .. k -> DOMAIN ids] : Chosen(ids, T, s, k, e)
  BY <1>1
<1>2. /\ s = [n \in 1 .. k |-> ids[e[n]]]
      /\ \A n \in 1 .. k : ids[e[n]] \in T
      /\ \A i \in DOMAIN ids : ids[i] \in T => \E n \in 1 .. k : e[n] = i
      /\ \A m, n \in 1 .. k : m < n <=> e[m] < e[n]
  BY <1>0 DEF Chosen
<1> HIDE DEF s
<1>3. \A i \in DOMAIN ids : ids[i] \in X
  OBVIOUS
<1>4. DOMAIN s = 1 .. k /\ \A n \in 1 .. k : e[n] \in DOMAIN ids /\ s[n] = ids[e[n]] /\ s[n] \in T
  BY <1>2
<1>5. s \in Seq(X)
  <2>1. s \in [1 .. k -> X]
    BY <1>2, <1>3, <1>4
  <2> QED BY <2>1
<1>6. Range(s) = Range(ids) \cap T
  <2>1. ASSUME NEW x \in Range(s) PROVE x \in Range(ids) \cap T
    BY <1>4 DEF Range
  <2>2. ASSUME NEW x \in Range(ids) \cap T PROVE x \in Range(s)
    <3>1. PICK i \in DOMAIN ids : ids[i] = x
      BY DEF Range
    <3>2. PICK n \in 1 .. k : e[n] = i
      BY <1>2, <3>1
    <3> QED BY <1>4, <3>1, <3>2 DEF Range
  <2> QED BY <2>1, <2>2
<1>7. ASSUME NEW x, NEW y, Precedes(s, x, y)
      PROVE  Precedes(ids, x, y) /\ x \in T /\ y \in T
  <2>1. PICK m \in 1 .. k, n \in 1 .. k : m < n /\ s[m] = x /\ s[n] = y
    BY <1>4, <1>7 DEF Precedes
  <2>2. e[m] < e[n]
    BY <1>2, <2>1
  <2> QED BY <1>4, <2>1, <2>2 DEF Precedes
<1>8. ASSUME NEW x \in T, NEW y \in T, Precedes(ids, x, y)
      PROVE  Precedes(s, x, y)
  <2>1. PICK i \in DOMAIN ids, j \in DOMAIN ids : i < j /\ ids[i] = x /\ ids[j] = y
    BY <1>8 DEF Precedes
  <2>2. PICK m \in 1 .. k : e[m] = i
    BY <1>2, <2>1
  <2>3. PICK n \in 1 .. k : e[n] = j
    BY <1>2, <2>1
  <2>4. m < n
    BY <1>2, <2>1, <2>2, <2>3
  <2> QED BY <1>4, <2>1, <2>2, <2>3, <2>4 DEF Precedes
<1> QED BY <1>5, <1>6, <1>7, <1>8 DEF s

\* A sequence all of whose members are in T is left as it is.
LEMMA OnlyKeepsAll ==
  ASSUME NEW X, NEW ids \in Seq(X), NEW T, Range(ids) \subseteq T
  PROVE  Only(ids, T) = ids
<1> DEFINE S == {i \in DOMAIN ids : ids[i] \in T}
           l == Len(ids)
           e == InOrder(S, Ascending)
<1>1. DOMAIN ids = 1 .. l /\ l \in Nat
  OBVIOUS
<1>2. S = 1 .. l
  BY <1>1 DEF Range
<1>3. Only(ids, T) = [n \in DOMAIN e |-> ids[e[n]]]
  BY DEF Only
<1> HIDE DEF l
<1>4. Cardinality(1 .. l) = l
  BY <1>1, FS_Interval
<1>5. \A n \in 1 .. l : Cardinality({y \in 1 .. l : <<y, n>> \in Ascending}) = n - 1
  <2> SUFFICES ASSUME NEW n \in 1 .. l
               PROVE  Cardinality({y \in 1 .. l : <<y, n>> \in Ascending}) = n - 1
    OBVIOUS
  <2>1. {y \in 1 .. l : <<y, n>> \in Ascending} = 1 .. n - 1
    BY <1>1 DEF Ascending
  <2>2. Cardinality(1 .. n - 1) = n - 1
    <3>1. n - 1 \in Int /\ (IF 1 > n - 1 THEN 0 ELSE (n - 1) - 1 + 1) = n - 1
      BY <1>1
    <3>2. Cardinality(1 .. n - 1) = IF 1 > n - 1 THEN 0 ELSE (n - 1) - 1 + 1
      BY <3>1, FS_Interval
    <3> QED BY <3>1, <3>2
  <2> QED BY <2>1, <2>2
<1>6. e = [n \in 1 .. l |-> CHOOSE x \in 1 .. l : Cardinality({y \in 1 .. l : <<y, x>> \in Ascending}) = n - 1]
  <2>1. e = InOrder(1 .. l, Ascending)
    BY <1>2
  <2> DEFINE rank(x) == Cardinality({y \in 1 .. l : <<y, x>> \in Ascending})
  <2>2. InOrder(1 .. l, Ascending) = [n \in 1 .. Cardinality(1 .. l) |-> CHOOSE x \in 1 .. l : rank(x) = n - 1]
    BY Zenon DEF InOrder
  <2> HIDE DEF rank, e
  <2>3. e = [n \in 1 .. l |-> CHOOSE x \in 1 .. l : rank(x) = n - 1]
    BY <1>4, <2>1, <2>2
  <2> QED BY <2>3 DEF rank
<1> HIDE DEF S, e
<1>7. DOMAIN e = 1 .. l
  BY <1>6
<1>8. \A n \in 1 .. l : e[n] = n
  <2> SUFFICES ASSUME NEW n \in 1 .. l PROVE e[n] = n
    OBVIOUS
  <2> DEFINE rank(x) == Cardinality({y \in 1 .. l : <<y, x>> \in Ascending})
  <2>1. e[n] = CHOOSE x \in 1 .. l : rank(x) = n - 1
    BY <1>6
  <2>2. \A x \in 1 .. l : rank(x) = x - 1
    BY <1>5
  <2> HIDE DEF rank
  <2>3. e[n] \in 1 .. l /\ rank(e[n]) = n - 1
    BY <2>1, <2>2
  <2> QED BY <1>1, <2>2, <2>3
<1>9. ids = [n \in 1 .. l |-> ids[n]]
  BY <1>1
<1> QED BY <1>3, <1>7, <1>8, <1>9

\* What comes before what in two sequences one after the other.
LEMMA ConcatOrder ==
  ASSUME NEW X, NEW a \in Seq(X), NEW b \in Seq(X)
  PROVE  /\ a \o b \in Seq(X)
         /\ Range(a \o b) = Range(a) \cup Range(b)
         /\ \A x, y : Precedes(a, x, y) => Precedes(a \o b, x, y)
         /\ \A x, y : Precedes(a \o b, x, y) /\ x \notin Range(b) /\ y \notin Range(b) => Precedes(a, x, y)
<1>1. /\ a \o b \in Seq(X) /\ Len(a \o b) = Len(a) + Len(b)
      /\ \A i \in 1 .. Len(a) + Len(b) :
           (a \o b)[i] = IF i <= Len(a) THEN a[i] ELSE b[i - Len(a)]
  BY ConcatProperties
<1> DEFINE c == a \o b
<1>2. /\ DOMAIN a = 1 .. Len(a) /\ DOMAIN b = 1 .. Len(b) /\ Len(a) \in Nat /\ Len(b) \in Nat
      /\ DOMAIN c = 1 .. Len(a) + Len(b)
  BY <1>1
<1>3. \A i \in DOMAIN a : i \in DOMAIN c /\ c[i] = a[i]
  BY <1>1, <1>2
<1>4. \A i \in DOMAIN b : Len(a) + i \in DOMAIN c /\ c[Len(a) + i] = b[i]
  BY <1>1, <1>2
<1>5. \A i \in DOMAIN c : i \in DOMAIN a \/ (i - Len(a) \in DOMAIN b /\ c[i] = b[i - Len(a)])
  BY <1>1, <1>2
<1> HIDE DEF c
<1>6. Range(c) = Range(a) \cup Range(b)
  BY <1>3, <1>4, <1>5 DEF Range
<1>7. \A x, y : Precedes(a, x, y) => Precedes(c, x, y)
  BY <1>3 DEF Precedes
<1>8. ASSUME NEW x, NEW y, Precedes(c, x, y), x \notin Range(b), y \notin Range(b)
      PROVE  Precedes(a, x, y)
  <2>1. PICK i \in DOMAIN c, j \in DOMAIN c : i < j /\ c[i] = x /\ c[j] = y
    BY <1>8 DEF Precedes
  <2>2. i \in DOMAIN a /\ j \in DOMAIN a
    BY <1>5, <1>8, <2>1 DEF Range
  <2> QED BY <1>3, <2>1, <2>2 DEF Precedes
<1> QED BY <1>1, <1>6, <1>7, <1>8 DEF c

-----------------------------------------------------------------------------
(***************************************************************************)
(* The order that a read resolves.                                         *)
(***************************************************************************)
Quads == Nat \X Nat \X Nat \X Nat

\* The order of places, written out.
LEMMA BeforeCompares ==
  ASSUME NEW p \in Quads, NEW q \in Quads
  PROVE  Before(p, q) <=>
           \/ p[1] < q[1]
           \/ p[1] = q[1] /\ p[2] < q[2]
           \/ p[1] = q[1] /\ p[2] = q[2] /\ p[3] < q[3]
           \/ p[1] = q[1] /\ p[2] = q[2] /\ p[3] = q[3] /\ p[4] < q[4]
<1>1. /\ \A m \in 1 .. 1 - 1 : p[m] = q[m]
      /\ (\A m \in 1 .. 2 - 1 : p[m] = q[m]) <=> p[1] = q[1]
      /\ (\A m \in 1 .. 3 - 1 : p[m] = q[m]) <=> p[1] = q[1] /\ p[2] = q[2]
      /\ (\A m \in 1 .. 4 - 1 : p[m] = q[m]) <=> p[1] = q[1] /\ p[2] = q[2] /\ p[3] = q[3]
  <2>1. 1 .. 1 - 1 = {} /\ 1 .. 2 - 1 = {1} /\ 1 .. 3 - 1 = {1, 2} /\ 1 .. 4 - 1 = {1, 2, 3}
    OBVIOUS
  <2> QED BY <2>1
<1>2. 1 .. 4 = {1, 2, 3, 4}
  OBVIOUS
<1> QED BY <1>1, <1>2 DEF Before

\* Before orders what has places that differ.
LEMMA PlacesOrder ==
  ASSUME NEW S, NEW f \in [S -> Quads], \A x, y \in S : f[x][4] = f[y][4] => x = y
  PROVE  StrictlyOrders(S, {p \in S \X S : Before(f[p[1]], f[p[2]])})
<1> DEFINE R == {p \in S \X S : Before(f[p[1]], f[p[2]])}
<1>1. \A x, y \in S : <<x, y>> \in R <=> Before(f[x], f[y])
  OBVIOUS
<1> HIDE DEF R
<1>2. \A x \in S : f[x] \in Quads /\ f[x][1] \in Nat /\ f[x][2] \in Nat /\ f[x][3] \in Nat /\ f[x][4] \in Nat
  BY DEF Quads
<1>3. \A x \in S : <<x, x>> \notin R
  BY <1>1, <1>2, BeforeCompares
<1>4. \A x, y \in S : x # y => <<x, y>> \in R \/ <<y, x>> \in R
  BY <1>1, <1>2, BeforeCompares
<1>5. ASSUME NEW x \in S, NEW y \in S, NEW z \in S, <<x, y>> \in R, <<y, z>> \in R
      PROVE  <<x, z>> \in R
  <2>1. Before(f[x], f[y]) /\ Before(f[y], f[z])
    BY <1>1, <1>5
  <2>2. Before(f[x], f[z])
    BY <1>2, <2>1, BeforeCompares
  <2> QED BY <1>1, <2>2
<1>6. StrictlyOrders(S, R)
  BY <1>3, <1>4, <1>5 DEF StrictlyOrders
<1> QED BY <1>6 DEF R

\* The columns the order is read from.
OrderShape ==
  /\ bindings \in [BindingIds -> Row \cup {None}]
  /\ positions \in Seq(Characteristics) /\ saved \in Seq(BindingIds)
  /\ IsFiniteSet(Present)

\* The baseline lists every binding.
LEMMA BaselineLists ==
  ASSUME OrderShape
  PROVE  Baseline \in Seq(Present) /\ Range(Baseline) = Present
<1> DEFINE f == [id \in Present |-> Place(id)]
           R == {p \in Present \X Present : Before(Place(p[1]), Place(p[2]))}
           Q == {p \in Present \X Present : Before(f[p[1]], f[p[2]])}
<1>1. f \in [Present -> Quads] /\ \A x \in Present : f[x][4] = x
  <2> SUFFICES ASSUME NEW id \in Present PROVE Place(id) \in Quads /\ Place(id)[4] = id
    OBVIOUS
  <2>1. id \in Nat
    BY OrderAssumption DEF Present
  <2> DEFINE char == bindings[id].key[2]
             i == CHOOSE i \in DOMAIN positions : positions[i] = char
             level == IF bindings[id].key[1] = "FAMILY" THEN 0 ELSE 1
  <2>2. char \in Range(positions) => i \in Nat
    <3>1. char \in Range(positions) => \E n \in DOMAIN positions : positions[n] = char
      BY DEF Range
    <3>2. \A n \in DOMAIN positions : n \in Nat
      BY DEF OrderShape
    <3> QED BY <3>1, <3>2
  <2>3. level \in Nat
    OBVIOUS
  <2>4. Place(id) = IF char \in Range(positions) THEN <<0, i, level, id>> ELSE <<1, 0, level, id>>
    BY DEF Place
  <2> HIDE DEF char, i, level
  <2> QED BY <2>1, <2>2, <2>3, <2>4 DEF Quads
<1>2. R = Q
  OBVIOUS
<1> HIDE DEF f
<1>3. StrictlyOrders(Present, Q)
  BY <1>1, PlacesOrder
<1>4. Baseline = InOrder(Present, R)
  BY DEF Baseline
<1> HIDE DEF R, Q
<1>5. IsFiniteSet(Present)
  BY DEF OrderShape
<1>6. /\ Cardinality(Present) \in Nat /\ Baseline \in [1 .. Cardinality(Present) -> Present]
      /\ \A x \in Present : \E n \in 1 .. Cardinality(Present) : Baseline[n] = x
  BY <1>2, <1>3, <1>4, <1>5, InOrderLists
<1>7. Baseline \in Seq(Present)
  BY <1>6
<1>8. Range(Baseline) = Present
  BY <1>6 DEF Range
<1> QED BY <1>7, <1>8

\* What is resolved from items lists every binding once more, the items that
\* exist first and as they are.
Resolved(items) ==
  LET all == ResolveAttributeOrder(items) IN
  /\ all \in Seq(Present) /\ Range(all) = Present
  /\ \A x, y \in Present : Precedes(items, x, y) => Precedes(all, x, y)
  /\ \A x, y \in Range(items) : Precedes(all, x, y) => Precedes(items, x, y)
  /\ Range(items) = Present => all = items
  /\ Range(items) \subseteq Present /\ Len(all) = Len(items) => Range(items) = Present

\* What a read resolves from any items.
LEMMA ResolvesItems ==
  ASSUME OrderShape, NEW items \in Seq(BindingIds)
  PROVE  Resolved(items)
<1> DEFINE all  == ResolveAttributeOrder(items)
           kept == Only(items, Present)
           T    == Present \ Range(kept)
           rest == Only(Baseline, T)
<1>1. all = kept \o rest
  BY DEF ResolveAttributeOrder
<1>2. /\ kept \in Seq(BindingIds) /\ Range(kept) = Range(items) \cap Present
      /\ \A x, y : Precedes(kept, x, y) <=> Precedes(items, x, y) /\ x \in Present /\ y \in Present
  BY OnlyKeepsOrder
<1>3. Baseline \in Seq(Present) /\ Range(Baseline) = Present
  BY BaselineLists
<1>4. Range(items) \subseteq Present => kept = items
  BY OnlyKeepsAll
<1> HIDE DEF kept
<1>5. rest \in Seq(Present) /\ Range(rest) = Present \cap T
  BY <1>3, OnlyKeepsOrder
<1>6. Range(rest) = Present \ Range(items)
  BY <1>2, <1>5
<1>7. kept \in Seq(Present)
  <2>1. \A n \in 1 .. Len(kept) : kept[n] \in Range(kept)
    BY <1>2 DEF Range
  <2>2. kept \in [1 .. Len(kept) -> Present] /\ Len(kept) \in Nat
    BY <1>2, <2>1
  <2> QED BY <2>2
<1> HIDE DEF rest, T, all
<1>8. /\ all \in Seq(Present) /\ Range(all) = Range(kept) \cup Range(rest)
      /\ \A x, y : Precedes(kept, x, y) => Precedes(all, x, y)
      /\ \A x, y : Precedes(all, x, y) /\ x \notin Range(rest) /\ y \notin Range(rest) => Precedes(kept, x, y)
  BY <1>1, <1>5, <1>7, ConcatOrder
<1>9. Range(all) = Present
  BY <1>2, <1>6, <1>8
<1>10. \A x, y \in Present : Precedes(items, x, y) => Precedes(all, x, y)
  BY <1>2, <1>8
<1>11. \A x, y \in Range(items) : Precedes(all, x, y) => Precedes(items, x, y)
  BY <1>2, <1>6, <1>8
<1>12. Range(rest) = {} <=> Len(rest) = 0
  <2>1. DOMAIN rest = 1 .. Len(rest) /\ Len(rest) \in Nat
    BY <1>5
  <2>2. Len(rest) # 0 => 1 \in DOMAIN rest
    BY <2>1
  <2>3. Len(rest) # 0 => rest[1] \in Range(rest)
    BY <2>2 DEF Range
  <2>4. Len(rest) = 0 => DOMAIN rest = {}
    BY <2>1
  <2>5. Len(rest) = 0 => Range(rest) = {}
    BY <2>4 DEF Range
  <2> QED BY <2>3, <2>5
<1>13. Len(all) = Len(kept) + Len(rest) /\ Len(kept) \in Nat /\ Len(rest) \in Nat
  BY <1>1, <1>5, <1>7, ConcatProperties
<1>14. Range(items) = Present => all = items
  <2> SUFFICES ASSUME Range(items) = Present PROVE all = items
    OBVIOUS
  <2>1. Len(rest) = 0
    BY <1>6, <1>12
  <2>2. rest = <<>>
    BY <1>5, <2>1
  <2>3. all = kept
    BY <1>1, <1>7, <2>2, ConcatEmptySeq
  <2> QED BY <1>4, <2>3
<1>15. Range(items) \subseteq Present /\ Len(all) = Len(items) => Range(items) = Present
  <2> SUFFICES ASSUME Range(items) \subseteq Present, Len(all) = Len(items) PROVE Range(items) = Present
    OBVIOUS
  <2>1. Len(kept) = Len(items)
    BY <1>4
  <2>2. Len(rest) = 0
    BY <1>13, <2>1
  <2> QED BY <1>6, <1>12, <2>2
<1> QED BY <1>8, <1>9, <1>10, <1>11, <1>14, <1>15 DEF Resolved, all

\* What a read resolves.
LEMMA ReadsResolve == OrderShape => Resolved(saved)
BY ResolvesItems DEF OrderShape

\* What it resolves after a step.
LEMMA ReadsResolveNext == OrderShape' => Resolved(saved)'
BY ReadsResolve, PTL

-----------------------------------------------------------------------------
(***************************************************************************)
(* The invariant. A replacement that is stored and not committed lists the *)
(* bindings there are, because its lock on the tables keeps them, and the  *)
(* head it was planned for, because its lock on the type keeps that.       *)
(***************************************************************************)
ChangeFits ==
  /\ change.op \in {"insert", "update", "delete"} /\ change.id \in BindingIds
  /\ change.op = "insert" => change.key \in Keys
  /\ change.op = "update" => bindings[change.id] # None

CatalogFits ==
  /\ OrderShape
  /\ used \subseteq BindingIds
  /\ changing \in {"none", "rowed", "keyed"} /\ changes \in 0 .. MaxChanges
  /\ Changing => ChangeFits

ReadyToCommit(r) ==
  /\ Range(plan[r]) = Present /\ OrderedKeys(plan[r]) = wanted[r]
  /\ {m.id : m \in Range(seen[r].revision.members)} = Present
  /\ seen[r].revision.head = head

RequestFits(r) ==
  /\ seen[r] # None => seen[r].keys \in Seq(Keys)
  /\ at[r] # "idle" => seen[r].revision.head < MaxHead
  /\ HoldsTables(r) => ~Changing
  /\ at[r] = "written" => ReadyToCommit(r)

OrderInv ==
  /\ CatalogFits
  /\ head \in 0 .. MaxHead
  /\ at \in [Requests -> {"idle", "begun", "typed", "tabled", "written"}]
  /\ wanted \in [Requests -> Seq(Keys)] /\ plan \in [Requests -> Seq(BindingIds)]
  /\ \A r \in Requests : RequestFits(r)
  /\ \A q, r \in Requests : HoldsType(q) /\ HoldsType(r) => q = r

\* The keys of bindings that exist.
LEMMA KeysOfPresent ==
  ASSUME OrderShape, NEW ids \in Seq(Present)
  PROVE  OrderedKeys(ids) \in Seq(Keys) /\ Len(OrderedKeys(ids)) = Len(ids)
<1>1. \A id \in Present : bindings[id].key \in Keys
  BY DEF OrderShape, Present, Row
<1>2. DOMAIN ids = 1 .. Len(ids) /\ Len(ids) \in Nat /\ \A i \in 1 .. Len(ids) : ids[i] \in Present
  OBVIOUS
<1>3. OrderedKeys(ids) = [i \in 1 .. Len(ids) |-> bindings[ids[i]].key]
  BY <1>2 DEF OrderedKeys
<1>4. OrderedKeys(ids) \in [1 .. Len(ids) -> Keys]
  BY <1>1, <1>2, <1>3
<1> QED BY <1>2, <1>4

\* A client reads keys.
LEMMA SnapshotFits ==
  ASSUME OrderShape
  PROVE  Snapshot # None => Snapshot.keys \in Seq(Keys)
<1>1. ResolveAttributeOrder(saved) \in Seq(Present)
  BY ReadsResolve DEF Resolved
<1>2. OrderedKeys(ResolveAttributeOrder(saved)) \in Seq(Keys)
  BY <1>1, KeysOfPresent
<1> QED BY <1>2 DEF Snapshot

\* A step of one request that leaves the catalog and the stored order alone
\* keeps the invariant if it does for that request.
LEMMA OneRequestMoves ==
  ASSUME OrderInv, NEW r \in Requests, UNCHANGED <<catalogVars, head, saved>>,
         at' \in [Requests -> {"idle", "begun", "typed", "tabled", "written"}],
         wanted' \in [Requests -> Seq(Keys)], plan' \in [Requests -> Seq(BindingIds)],
         \A q \in Requests \ {r} : /\ at'[q] = at[q] /\ seen'[q] = seen[q]
                                   /\ wanted'[q] = wanted[q] /\ plan'[q] = plan[q],
         RequestFits(r)', HoldsType(r)' => HoldsType(r) \/ TypeIsFree
  PROVE  OrderInv'
<1>1. /\ UNCHANGED <<bindings, used, positions, changing, change, changes, head, saved>>
      /\ CatalogFits /\ head \in 0 .. MaxHead
  BY DEF catalogVars, OrderInv
<1>2. CatalogFits'
  BY <1>1 DEF CatalogFits, OrderShape, Present, Changing, ChangeFits
<1>3. \A q \in Requests : RequestFits(q)'
  <2> SUFFICES ASSUME NEW q \in Requests, q # r PROVE RequestFits(q)'
    OBVIOUS
  <2>1. RequestFits(q)
    BY DEF OrderInv
  <2>2. at'[q] = at[q] /\ seen'[q] = seen[q] /\ wanted'[q] = wanted[q] /\ plan'[q] = plan[q]
    OBVIOUS
  <2>3. Present' = Present /\ OrderedKeys(plan[q])' = OrderedKeys(plan[q])
    BY <1>1, <2>2 DEF Present, OrderedKeys
  <2>4. ReadyToCommit(q) => ReadyToCommit(q)'
    BY <1>1, <2>2, <2>3 DEF ReadyToCommit
  <2> QED BY <1>1, <2>1, <2>2, <2>4 DEF RequestFits, HoldsTables, Changing
<1>4. \A p, q \in Requests : HoldsType(p)' /\ HoldsType(q)' => p = q
  <2>1. \A q \in Requests \ {r} : HoldsType(q)' <=> HoldsType(q)
    BY DEF HoldsType
  <2>2. \A p, q \in Requests : HoldsType(p) /\ HoldsType(q) => p = q
    BY DEF OrderInv
  <2> QED BY <2>1, <2>2 DEF TypeIsFree
<1> QED BY <1>1, <1>2, <1>3, <1>4 DEF OrderInv

\* So does a step of the catalog writer that changes no binding while a
\* request holds the tables.
LEMMA CatalogMoves ==
  ASSUME OrderInv, UNCHANGED <<head, requestVars>>, CatalogFits',
         \A r \in Requests : HoldsTables(r) => bindings' = bindings /\ ~Changing'
  PROVE  OrderInv'
<1>1. UNCHANGED <<head, at, seen, wanted, plan>>
  BY DEF requestVars
<1>2. \A q \in Requests : RequestFits(q)'
  <2> SUFFICES ASSUME NEW q \in Requests PROVE RequestFits(q)'
    OBVIOUS
  <2>1. RequestFits(q)
    BY DEF OrderInv
  <2>2. bindings' = bindings => Present' = Present /\ OrderedKeys(plan[q])' = OrderedKeys(plan[q])
    BY <1>1 DEF Present, OrderedKeys
  <2>3. at[q] = "written" => bindings' = bindings
    BY DEF HoldsTables
  <2>4. at[q] = "written" /\ ReadyToCommit(q) => ReadyToCommit(q)'
    BY <1>1, <2>2, <2>3 DEF ReadyToCommit
  <2>5. HoldsTables(q)' => ~Changing'
    BY <1>1 DEF HoldsTables
  <2> QED BY <1>1, <2>1, <2>4, <2>5 DEF RequestFits
<1> QED BY <1>1, <1>2 DEF OrderInv, HoldsType

-----------------------------------------------------------------------------
(***************************************************************************)
(* The steps of a request.                                                 *)
(***************************************************************************)
\* A read at rest.
LEMMA ReadKeeps ==
  ASSUME OrderInv, HeadInv, NEW r \in Requests, ReadAttributeOrder(r)
  PROVE  OrderInv'
<1>1. /\ at[r] = "idle" /\ seen' = [seen EXCEPT ![r] = Snapshot] /\ UNCHANGED <<at, wanted, plan>>
      /\ UNCHANGED <<catalogVars, head, saved>>
  BY DEF ReadAttributeOrder, orderVars
<1>2. \A q \in Requests : seen'[q] = IF q = r THEN Snapshot ELSE seen[q]
  BY <1>1 DEF HeadInv
<1>3. Snapshot # None => Snapshot.keys \in Seq(Keys)
  BY SnapshotFits DEF OrderInv, CatalogFits
<1>4. RequestFits(r)'
  BY <1>1, <1>2, <1>3 DEF RequestFits, HoldsTables
<1>5. HoldsType(r)' => HoldsType(r)
  BY <1>1 DEF HoldsType
<1>6. /\ at \in [Requests -> {"idle", "begun", "typed", "tabled", "written"}]
      /\ wanted \in [Requests -> Seq(Keys)] /\ plan \in [Requests -> Seq(BindingIds)]
  BY DEF OrderInv
<1> QED BY <1>1, <1>2, <1>4, <1>5, <1>6, OneRequestMoves

\* What clients send are keys.
LEMMA OrdersAreKeys ==
  ASSUME OrderInv, NEW r \in Requests, NEW keys \in Orders(r)
  PROVE  seen[r] # None /\ keys \in Seq(Keys)
<1>1. seen[r] # None /\ seen[r].keys \in Seq(Keys)
  BY DEF Orders, OrderInv, RequestFits
<1> DEFINE all == seen[r].keys
<1>2. keys \in {all, Reverse(all), SubSeq(all, 2, Len(all)), <<>>}
  BY <1>1 DEF Orders
<1> HIDE DEF all
<1>3. all \in Seq(Keys)
  BY <1>1 DEF all
<1>4. Reverse(all) \in Seq(Keys)
  <2>1. Reverse(all) = [i \in 1 .. Len(all) |-> all[(Len(all) - i) + 1]]
    BY DEF Reverse
  <2>2. Len(all) \in Nat /\ \A i \in 1 .. Len(all) : all[(Len(all) - i) + 1] \in Keys
    BY <1>3
  <2>3. Reverse(all) \in [1 .. Len(all) -> Keys]
    BY <2>1, <2>2
  <2> QED BY <2>2, <2>3
<1>5. SubSeq(all, 2, Len(all)) \in Seq(Keys)
  BY <1>3, SubSeqProperties
<1>6. <<>> \in Seq(Keys)
  OBVIOUS
<1>7. keys = all \/ keys = Reverse(all) \/ keys = SubSeq(all, 2, Len(all)) \/ keys = <<>>
  BY <1>2
<1>8. keys \in Seq(Keys)
  BY <1>3, <1>4, <1>5, <1>6, <1>7
<1> QED BY <1>1, <1>8

\* A request ends and stores nothing: an answer, a refusal, a lost client.
EndsOrder(r) ==
  /\ at' = [at EXCEPT ![r] = "idle"]
  /\ seen' = seen \/ seen' = [seen EXCEPT ![r] = None]
  /\ wanted' = [wanted EXCEPT ![r] = <<>>] /\ plan' = [plan EXCEPT ![r] = <<>>]

\* What the request is left with.
LEMMA EndedFits ==
  ASSUME OrderInv, HeadInv, NEW r \in Requests, EndsOrder(r)
  PROVE  /\ at' \in [Requests -> {"idle", "begun", "typed", "tabled", "written"}]
         /\ wanted' \in [Requests -> Seq(Keys)] /\ plan' \in [Requests -> Seq(BindingIds)]
         /\ \A q \in Requests \ {r} : /\ at'[q] = at[q] /\ seen'[q] = seen[q]
                                     /\ wanted'[q] = wanted[q] /\ plan'[q] = plan[q]
         /\ at'[r] = "idle" /\ ~HoldsType(r)'
         /\ RequestFits(r)'
<1>1. /\ at \in [Requests -> {"idle", "begun", "typed", "tabled", "written"}]
      /\ wanted \in [Requests -> Seq(Keys)] /\ plan \in [Requests -> Seq(BindingIds)]
      /\ RequestFits(r)
  BY DEF OrderInv
<1>2. at' \in [Requests -> {"idle", "begun", "typed", "tabled", "written"}] /\ at'[r] = "idle"
  BY <1>1 DEF EndsOrder
<1>3. wanted' \in [Requests -> Seq(Keys)]
  BY <1>1 DEF EndsOrder
<1>4. plan' \in [Requests -> Seq(BindingIds)]
  BY <1>1 DEF EndsOrder
<1>5. \A q \in Requests : (q = r /\ seen'[q] = None) \/ seen'[q] = seen[q]
  BY DEF EndsOrder, HeadInv
<1>6. \A q \in Requests \ {r} : /\ at'[q] = at[q] /\ seen'[q] = seen[q]
                               /\ wanted'[q] = wanted[q] /\ plan'[q] = plan[q]
  BY <1>1, <1>5 DEF EndsOrder
<1>7. RequestFits(r)'
  BY <1>1, <1>2, <1>5 DEF RequestFits, HoldsTables
<1>8. ~HoldsType(r)'
  BY <1>2 DEF HoldsType
<1> QED BY <1>2, <1>3, <1>4, <1>6, <1>7, <1>8

\* The end of a request that stored nothing.
LEMMA EndKeeps ==
  ASSUME OrderInv, HeadInv, NEW r \in Requests, EndsOrder(r), UNCHANGED <<catalogVars, orderVars>>
  PROVE  OrderInv'
<1>1. UNCHANGED <<catalogVars, head, saved>>
  BY DEF orderVars
<1> QED BY <1>1, EndedFits, OneRequestMoves

\* Answers and refusals end a request.
LEMMA AnswerEnds ==
  ASSUME NEW r \in Requests, NEW status, Answer(r, status)
  PROVE  EndsOrder(r)
BY DEF Answer, EndsOrder

\* A refusal keeps the invariant.
LEMMA RefuseKeeps ==
  ASSUME OrderInv, HeadInv, NEW r \in Requests, NEW err, Refuse(r, err)
  PROVE  OrderInv'
BY AnswerEnds, EndKeeps DEF Refuse

\* A replacement begins: its client read a head below the bound.
LEMMA BeginKeeps ==
  ASSUME OrderInv, HeadInv, NEW r \in Requests, NEW keys \in Orders(r), WriteAttributeOrder(r, keys)
  PROVE  OrderInv'
<1>1. CASE keys = <<>>
  BY <1>1, RefuseKeeps DEF WriteAttributeOrder
<1>2. CASE keys # <<>>
  <2>1. /\ at[r] = "idle" /\ (head < MaxHead \/ seen[r].revision.head # head)
        /\ at' = [at EXCEPT ![r] = "begun"] /\ wanted' = [wanted EXCEPT ![r] = keys]
        /\ UNCHANGED <<catalogVars, head, saved>> /\ UNCHANGED <<seen, plan>>
    BY <1>2 DEF WriteAttributeOrder, Going, orderVars
  <2>2. seen[r] # None /\ keys \in Seq(Keys)
    BY OrdersAreKeys
  <2>3. /\ at \in [Requests -> {"idle", "begun", "typed", "tabled", "written"}]
        /\ wanted \in [Requests -> Seq(Keys)] /\ plan \in [Requests -> Seq(BindingIds)]
        /\ RequestFits(r) /\ head \in 0 .. MaxHead
    BY DEF OrderInv
  <2>4. seen[r].revision.head < MaxHead
    <3>1. seen[r].revision.head \in Nat /\ seen[r].revision.head <= head
      BY <2>2 DEF HeadInv, HeadsSeen
    <3>2. MaxHead \in Nat /\ head \in Nat /\ head <= MaxHead
      BY <2>3, OrderAssumption
    <3> QED BY <2>1, <3>1, <3>2
  <2>5. at' \in [Requests -> {"idle", "begun", "typed", "tabled", "written"}] /\ at'[r] = "begun"
    BY <2>1, <2>3
  <2>6. wanted' \in [Requests -> Seq(Keys)]
    BY <2>1, <2>2, <2>3
  <2>7. \A q \in Requests \ {r} : at'[q] = at[q] /\ wanted'[q] = wanted[q]
    BY <2>1, <2>3
  <2>8. RequestFits(r)'
    BY <2>1, <2>3, <2>4, <2>5 DEF RequestFits, HoldsTables
  <2>9. ~HoldsType(r)'
    BY <2>5 DEF HoldsType
  <2> QED BY <2>1, <2>3, <2>5, <2>6, <2>7, <2>8, <2>9, OneRequestMoves
<1> QED BY <1>1, <1>2

\* The type is locked by one request at a time, the tables when no catalog
\* change is open.
LEMMA LocksKeep ==
  ASSUME OrderInv, HeadInv, NEW r \in Requests, LockType(r) \/ LockStructural(r)
  PROVE  OrderInv'
<1>1. PICK stage \in {"typed", "tabled"} :
        /\ at' = [at EXCEPT ![r] = stage] /\ at[r] # "idle"
        /\ UNCHANGED <<catalogVars, head, saved>> /\ UNCHANGED <<seen, wanted, plan>>
        /\ stage = "typed" => TypeIsFree
        /\ stage = "tabled" => at[r] = "typed" /\ ~Changing
  BY DEF LockType, LockStructural, Going, orderVars
<1>2. /\ at \in [Requests -> {"idle", "begun", "typed", "tabled", "written"}]
      /\ wanted \in [Requests -> Seq(Keys)] /\ plan \in [Requests -> Seq(BindingIds)]
      /\ RequestFits(r)
  BY DEF OrderInv
<1>3. /\ at' \in [Requests -> {"idle", "begun", "typed", "tabled", "written"}] /\ at'[r] = stage
      /\ \A q \in Requests \ {r} : at'[q] = at[q]
  BY <1>1, <1>2
<1>4. UNCHANGED changing
  BY <1>1 DEF catalogVars
<1>5. RequestFits(r)'
  BY <1>1, <1>2, <1>3, <1>4 DEF RequestFits, HoldsTables, Changing
<1>6. HoldsType(r)' => HoldsType(r) \/ TypeIsFree
  BY <1>1, <1>3 DEF HoldsType
<1> QED BY <1>1, <1>2, <1>3, <1>5, <1>6, OneRequestMoves

\* The bindings that a permutation of the keys read names.
LEMMA PlanLists ==
  ASSUME OrderInv, NEW keys \in Seq(Keys), IsPermutation(keys, Snapshot.keys),
         OrderedKeys(ResolveAttributeOrder(IdsOf(keys))) = keys
  PROVE  /\ IdsOf(keys) \in Seq(BindingIds)
         /\ Range(IdsOf(keys)) = Present /\ OrderedKeys(IdsOf(keys)) = keys
<1> DEFINE read == ResolveAttributeOrder(saved)
           ids == IdsOf(keys)
<1>1. OrderShape
  BY DEF OrderInv, CatalogFits
<1>2. read \in Seq(Present) /\ Range(read) = Present
  BY <1>1, ReadsResolve DEF Resolved
<1>3. Snapshot.keys = OrderedKeys(read) /\ Range(keys) = Range(OrderedKeys(read))
  BY DEF Snapshot, IsPermutation
<1> HIDE DEF read
<1>4. DOMAIN keys = 1 .. Len(keys) /\ Len(keys) \in Nat
  OBVIOUS
<1>5. \A i \in 1 .. Len(keys) : \E id \in Present : bindings[id].key = keys[i]
  <2> SUFFICES ASSUME NEW i \in 1 .. Len(keys) PROVE \E id \in Present : bindings[id].key = keys[i]
    OBVIOUS
  <2>1. keys[i] \in Range(OrderedKeys(read))
    BY <1>3, <1>4 DEF Range
  <2>2. PICK j \in DOMAIN read : bindings[read[j]].key = keys[i]
    BY <2>1 DEF Range, OrderedKeys
  <2>3. read[j] \in Present
    BY <1>2, <2>2
  <2> QED BY <2>2, <2>3
<1>6. \A i \in 1 .. Len(keys) : ids[i] \in Present /\ bindings[ids[i]].key = keys[i]
  <2> SUFFICES ASSUME NEW i \in 1 .. Len(keys) PROVE ids[i] \in Present /\ bindings[ids[i]].key = keys[i]
    OBVIOUS
  <2>1. ids[i] = CHOOSE id \in Present : bindings[id].key = keys[i]
    BY <1>4 DEF IdsOf
  <2>2. \E id \in Present : bindings[id].key = keys[i]
    BY <1>5
  <2> HIDE DEF ids
  <2> QED BY <2>1, <2>2
<1>7. ids = [i \in 1 .. Len(keys) |-> ids[i]]
  <2> DEFINE pick(i) == CHOOSE id \in Present : bindings[id].key = keys[i]
  <2>1. ids = [i \in 1 .. Len(keys) |-> pick(i)]
    BY <1>4 DEF IdsOf
  <2> HIDE DEF pick, ids
  <2> QED BY <2>1
<1> HIDE DEF ids
<1>8. ids \in [1 .. Len(keys) -> Present]
  BY <1>6, <1>7
<1>9. ids \in Seq(Present) /\ Len(ids) = Len(keys) /\ DOMAIN ids = 1 .. Len(keys)
  BY <1>4, <1>8
<1>10. ids \in Seq(BindingIds)
  <2>1. Present \subseteq BindingIds
    BY DEF Present
  <2>2. ids \in [1 .. Len(keys) -> BindingIds]
    BY <1>8, <2>1
  <2> QED BY <1>4, <2>2
<1>11. OrderedKeys(ids) = keys
  <2>1. OrderedKeys(ids) = [i \in 1 .. Len(keys) |-> keys[i]]
    BY <1>6, <1>9 DEF OrderedKeys
  <2> QED BY <1>4, <2>1
<1> DEFINE all == ResolveAttributeOrder(ids)
<1>12. /\ all \in Seq(Present)
       /\ Range(ids) \subseteq Present /\ Len(all) = Len(ids) => Range(ids) = Present
  BY <1>1, <1>10, ResolvesItems DEF Resolved
<1>13. OrderedKeys(all) = keys
  BY DEF ids
<1> HIDE DEF all
<1>14. Len(all) = Len(ids)
  BY <1>1, <1>9, <1>12, <1>13, KeysOfPresent
<1>15. Range(ids) \subseteq Present
  BY <1>9 DEF Range
<1>16. Range(ids) = Present
  BY <1>12, <1>14, <1>15
<1> QED BY <1>10, <1>11, <1>16 DEF ids

\* The order revision names every binding there is.
LEMMA RevisionNamesBindings ==
  ASSUME OrderInv
  PROVE  {m.id : m \in Range(OrderRevision.members)} = Present /\ OrderRevision.head = head
<1> DEFINE ids == ResolveAttributeOrder(saved)
           member(i) == [id |-> ids[i], key |-> bindings[ids[i]].key, revision |-> bindings[ids[i]].revision]
<1>1. ids \in Seq(Present) /\ Range(ids) = Present
  BY ReadsResolve DEF Resolved, OrderInv, CatalogFits
<1>2. OrderRevision = [head |-> head, members |-> [i \in DOMAIN ids |-> member(i)]]
  BY DEF OrderRevision
<1> HIDE DEF ids
<1>3. \A i : member(i).id = ids[i]
  OBVIOUS
<1> HIDE DEF member
<1>4. OrderRevision.head = head /\ OrderRevision.members = [i \in DOMAIN ids |-> member(i)]
  BY <1>2
<1>5. Range(OrderRevision.members) = {member(i) : i \in DOMAIN ids}
  BY <1>4 DEF Range
<1>6. {m.id : m \in {member(i) : i \in DOMAIN ids}} = {ids[i] : i \in DOMAIN ids}
  BY <1>3
<1>7. {ids[i] : i \in DOMAIN ids} = Present
  BY <1>1 DEF Range
<1> QED BY <1>4, <1>5, <1>6, <1>7

\* The items are replaced: the plan lists the bindings there are, for the
\* head there is.
LEMMA ReplaceKeeps ==
  ASSUME OrderInv, HeadInv, NEW r \in Requests, ReplaceItems(r)
  PROVE  OrderInv'
<1>1. CASE Refuse(r, "ErrAttributeOrderRevisionConflict") \/ Refuse(r, "ErrResourceValidation")
  BY <1>1, RefuseKeeps
<1>2. CASE /\ RevisionMatches(r) /\ IsPermutation(wanted[r], Snapshot.keys)
           /\ OrderedKeys(ResolveAttributeOrder(IdsOf(wanted[r]))) = wanted[r]
           /\ plan' = [plan EXCEPT ![r] = IdsOf(wanted[r])] /\ Going(r, "written")
           /\ UNCHANGED <<catalogVars, orderVars, seen, wanted>>
  <2>1. /\ at[r] = "tabled" /\ at' = [at EXCEPT ![r] = "written"]
        /\ plan' = [plan EXCEPT ![r] = IdsOf(wanted[r])]
        /\ UNCHANGED <<catalogVars, head, saved>> /\ UNCHANGED <<seen, wanted>>
    BY <1>2 DEF ReplaceItems, Going, orderVars
  <2>2. /\ at \in [Requests -> {"idle", "begun", "typed", "tabled", "written"}]
        /\ wanted \in [Requests -> Seq(Keys)] /\ plan \in [Requests -> Seq(BindingIds)]
        /\ RequestFits(r)
    BY DEF OrderInv
  <2>3. /\ IdsOf(wanted[r]) \in Seq(BindingIds)
        /\ Range(IdsOf(wanted[r])) = Present /\ OrderedKeys(IdsOf(wanted[r])) = wanted[r]
    BY <1>2, <2>2, PlanLists
  <2>4. {m.id : m \in Range(seen[r].revision.members)} = Present /\ seen[r].revision.head = head
    BY <1>2, RevisionNamesBindings DEF RevisionMatches
  <2>5. /\ at' \in [Requests -> {"idle", "begun", "typed", "tabled", "written"}] /\ at'[r] = "written"
        /\ \A q \in Requests \ {r} : at'[q] = at[q]
    BY <2>1, <2>2
  <2>6. /\ plan' \in [Requests -> Seq(BindingIds)] /\ plan'[r] = IdsOf(wanted[r])
        /\ \A q \in Requests \ {r} : plan'[q] = plan[q]
    BY <2>1, <2>2, <2>3
  <2>7. UNCHANGED <<bindings, changing>>
    BY <2>1 DEF catalogVars
  <2>8. Present' = Present /\ OrderedKeys(plan[r])' = OrderedKeys(IdsOf(wanted[r]))
    BY <2>6, <2>7 DEF Present, OrderedKeys
  <2>9. ReadyToCommit(r)'
    BY <2>1, <2>3, <2>4, <2>6, <2>8 DEF ReadyToCommit
  <2>10. RequestFits(r)'
    BY <2>1, <2>2, <2>5, <2>7, <2>9 DEF RequestFits, HoldsTables, Changing
  <2>11. HoldsType(r)' => HoldsType(r)
    BY <2>1 DEF HoldsType
  <2> QED BY <2>1, <2>2, <2>5, <2>6, <2>10, <2>11, OneRequestMoves
<1> QED BY <1>1, <1>2 DEF ReplaceItems

\* The commit takes effect: no other request holds the type, so none was
\* planned for the head that goes.
LEMMA StoreKeeps ==
  ASSUME OrderInv, HeadInv, NEW r \in Requests, at[r] = "written", TakeEffect(r), EndsOrder(r)
  PROVE  OrderInv'
<1>1. /\ saved' = plan[r] /\ head' = head + 1
      /\ UNCHANGED <<bindings, used, positions, changing, change, changes>>
  BY DEF TakeEffect, BumpHead, catalogVars
<1>2. /\ at' \in [Requests -> {"idle", "begun", "typed", "tabled", "written"}]
      /\ wanted' \in [Requests -> Seq(Keys)] /\ plan' \in [Requests -> Seq(BindingIds)]
      /\ \A q \in Requests \ {r} : /\ at'[q] = at[q] /\ seen'[q] = seen[q]
                                  /\ wanted'[q] = wanted[q] /\ plan'[q] = plan[q]
      /\ at'[r] = "idle" /\ ~HoldsType(r)'
      /\ RequestFits(r)'
  BY EndedFits
<1>3. CatalogFits'
  <2>1. CatalogFits /\ plan[r] \in Seq(BindingIds)
    BY DEF OrderInv
  <2> QED BY <1>1, <2>1 DEF CatalogFits, OrderShape, Present, Changing, ChangeFits
<1>4. head' \in 0 .. MaxHead
  <2>1. seen[r].revision.head = head /\ seen[r].revision.head < MaxHead /\ head \in 0 .. MaxHead
    BY DEF OrderInv, RequestFits, ReadyToCommit
  <2> QED BY <1>1, <2>1, OrderAssumption
<1>5. ASSUME NEW q \in Requests, q # r PROVE RequestFits(q)'
  <2>1. at[q] # "written" /\ at'[q] = at[q] /\ seen'[q] = seen[q]
    BY <1>2, <1>5 DEF OrderInv, HoldsType
  <2>2. RequestFits(q)
    BY DEF OrderInv
  <2> QED BY <1>1, <2>1, <2>2 DEF RequestFits, HoldsTables, Changing
<1>6. \A p, q \in Requests : HoldsType(p)' /\ HoldsType(q)' => p = q
  <2>1. \A q \in Requests \ {r} : HoldsType(q)' <=> HoldsType(q)
    BY <1>2 DEF HoldsType
  <2> QED BY <1>2, <2>1 DEF OrderInv
<1> QED BY <1>2, <1>3, <1>4, <1>5, <1>6 DEF OrderInv

\* A commit that fails took effect or it did not.
LEMMA UnansweredKeeps ==
  ASSUME OrderInv, HeadInv, NEW r \in Requests, CommitUnanswered(r)
  PROVE  OrderInv'
<1>1. CASE TakeEffect(r) /\ Answer(r, StatusOf[CodeOf[classifyAttributeOrderCommitFailure]])
  BY <1>1, AnswerEnds, StoreKeeps DEF CommitUnanswered
<1>2. CASE Refuse(r, classifyAttributeOrderCommitFailure)
  BY <1>2, RefuseKeeps
<1> QED BY <1>1, <1>2 DEF CommitUnanswered

\* The steps of the transaction.
LEMMA ServeKeeps ==
  ASSUME OrderInv, HeadInv, NEW r \in Requests, Serve(r)
  PROVE  OrderInv'
<1>1. CASE CommitOrder(r)
  <2>1. PICK status \in {"200", "closed"} : Answer(r, status)
    BY <1>1 DEF CommitOrder
  <2>2. EndsOrder(r)
    BY <2>1, AnswerEnds
  <2> QED BY <1>1, <2>2, StoreKeeps DEF CommitOrder
<1> QED BY <1>1, LocksKeep, ReplaceKeeps, UnansweredKeeps DEF Serve

\* A request that is abandoned.
LEMMA AbandonKeeps ==
  ASSUME OrderInv, HeadInv, NEW r \in Requests, AbandonOrder(r)
  PROVE  OrderInv'
BY AnswerEnds, EndKeeps DEF AbandonOrder

\* A crash ends every request and the catalog change.
LEMMA CrashKeeps ==
  ASSUME OrderInv, HeadInv, Crash
  PROVE  OrderInv'
<1>1. /\ at' = [r \in Requests |-> "idle"] /\ wanted' = [r \in Requests |-> <<>>]
      /\ plan' = [r \in Requests |-> <<>>] /\ changing' = "none"
      /\ UNCHANGED <<bindings, used, positions, changes, head, saved, seen>>
  BY DEF Crash, EndChange, orderVars
<1>2. CatalogFits'
  <2>1. CatalogFits
    BY DEF OrderInv
  <2> QED BY <1>1, <2>1 DEF CatalogFits, OrderShape, Present, Changing
<1>3. wanted' \in [Requests -> Seq(Keys)] /\ plan' \in [Requests -> Seq(BindingIds)]
  <2>1. <<>> \in Seq(Keys) /\ <<>> \in Seq(BindingIds)
    OBVIOUS
  <2> QED BY <1>1, <2>1
<1>4. \A r \in Requests : RequestFits(r)'
  BY <1>1 DEF OrderInv, RequestFits, HoldsTables
<1> QED BY <1>1, <1>2, <1>3, <1>4 DEF OrderInv, HoldsType

-----------------------------------------------------------------------------
(***************************************************************************)
(* The steps of the catalog writer.                                        *)
(***************************************************************************)
\* The statement of a change waits for the requests that hold the tables.
LEMMA ChangeKeeps ==
  ASSUME OrderInv, NEW c \in Changes, ChangeBinding(c)
  PROVE  OrderInv'
<1>1. /\ changes < MaxChanges /\ changing' = "rowed" /\ change' = c /\ changes' = changes + 1
      /\ used' = (IF c.op = "insert" THEN used \cup {c.id} ELSE used)
      /\ UNCHANGED <<bindings, positions, head, saved, requestVars>>
      /\ \A r \in Requests : ~HoldsTables(r)
  BY DEF ChangeBinding, orderVars
<1>2. CatalogFits
  BY DEF OrderInv
<1>3. \/ \E id \in BindingIds, key \in NewKeys : c = [op |-> "insert", id |-> id, key |-> key]
      \/ \E id \in Present : c = [op |-> "update", id |-> id]
      \/ \E id \in Present : c = [op |-> "delete", id |-> id]
  BY DEF Changes
<1>4. /\ c.op \in {"insert", "update", "delete"} /\ c.id \in BindingIds
      /\ c.op = "insert" => c.key \in Keys
      /\ c.op = "update" => bindings[c.id] # None
  <2>1. CASE \E id \in BindingIds, key \in NewKeys : c = [op |-> "insert", id |-> id, key |-> key]
    <3>1. PICK id \in BindingIds, key \in NewKeys : c = [op |-> "insert", id |-> id, key |-> key]
      BY <2>1
    <3>2. key \in Keys
      BY OrderAssumption
    <3> QED BY <3>1, <3>2
  <2>2. CASE \E id \in Present : c = [op |-> "update", id |-> id] \/ c = [op |-> "delete", id |-> id]
    BY <2>2 DEF Present
  <2> QED BY <1>3, <2>1, <2>2
<1>5. ChangeFits'
  BY <1>1, <1>4 DEF ChangeFits
<1>6. OrderShape' /\ used' \subseteq BindingIds
  BY <1>1, <1>2, <1>4 DEF CatalogFits, OrderShape, Present
<1>7. changes' \in 0 .. MaxChanges
  BY <1>1, <1>2, OrderAssumption DEF CatalogFits
<1>8. CatalogFits'
  BY <1>1, <1>5, <1>6, <1>7 DEF CatalogFits
<1>9. UNCHANGED <<head, requestVars>>
  BY <1>1
<1> QED BY <1>1, <1>8, <1>9, CatalogMoves

\* The foreign key check, and the end of a change without effect.
LEMMA ChangeMovesOn ==
  ASSUME OrderInv, CheckForeignKey \/ AbandonChange
  PROVE  OrderInv'
<1>1. /\ Changing /\ changing' \in {"none", "keyed"}
      /\ changing' = "keyed" => change' = change
      /\ UNCHANGED <<bindings, used, positions, changes, head, saved, requestVars>>
  BY DEF CheckForeignKey, AbandonChange, EndChange, orderVars, Changing
<1>2. CatalogFits
  BY DEF OrderInv
<1>3. CatalogFits'
  BY <1>1, <1>2 DEF CatalogFits, OrderShape, Present, Changing, ChangeFits
<1>4. \A r \in Requests : ~HoldsTables(r)
  BY <1>1 DEF OrderInv, RequestFits
<1>5. UNCHANGED <<head, requestVars>>
  BY <1>1
<1> QED BY <1>3, <1>4, <1>5, CatalogMoves

\* A change of a presentation takes no lock and changes no binding.
LEMMA PresentationKeeps ==
  ASSUME OrderInv, ChangePresentation
  PROVE  OrderInv'
<1>1. /\ changing = "none" /\ changes < MaxChanges /\ changes' = changes + 1
      /\ UNCHANGED <<bindings, used, changing, change, head, saved, requestVars>>
      /\ \/ \E c \in Presented : positions' = Append(positions, c)
         \/ positions # <<>> /\ positions' = Tail(positions)
  BY DEF ChangePresentation, orderVars
<1>2. CatalogFits /\ positions \in Seq(Characteristics)
  BY DEF OrderInv, CatalogFits, OrderShape
<1>3. positions' \in Seq(Characteristics)
  <2>1. CASE positions # <<>> /\ positions' = Tail(positions)
    BY <1>2, <2>1, HeadTailProperties
  <2>2. ASSUME NEW c \in Presented, positions' = Append(positions, c)
        PROVE  positions' \in Seq(Characteristics)
    <3>1. c \in Characteristics
      BY OrderAssumption
    <3> QED BY <1>2, <2>2, <3>1, AppendProperties
  <2> QED BY <1>1, <2>1, <2>2
<1>4. changes' \in 0 .. MaxChanges
  BY <1>1, <1>2, OrderAssumption DEF CatalogFits
<1>5. CatalogFits'
  BY <1>1, <1>2, <1>3, <1>4 DEF CatalogFits, OrderShape, Present, Changing
<1>6. UNCHANGED <<head, requestVars>> /\ ~Changing'
  BY <1>1 DEF Changing
<1> QED BY <1>1, <1>5, <1>6, CatalogMoves

\* A change commits: no request holds the tables.
LEMMA CommitChangeKeeps ==
  ASSUME OrderInv, CommitChange
  PROVE  OrderInv' /\ (saved' = saved \/ saved' = Only(saved, BindingIds \ {change.id}))
                   /\ (saved' # saved => change.id \notin Present')
<1> DEFINE row == ChangedRow
<1>1. /\ Changing /\ changing' = "none" /\ bindings' = [bindings EXCEPT ![change.id] = row]
      /\ saved' = IF change.op = "delete" THEN Only(saved, BindingIds \ {change.id}) ELSE saved
      /\ UNCHANGED <<used, positions, changes, head, requestVars>>
  BY DEF CommitChange, Changing, EndChange
<1>2. CatalogFits /\ ChangeFits
  BY <1>1 DEF OrderInv, CatalogFits
<1>3. /\ bindings \in [BindingIds -> Row \cup {None}] /\ positions \in Seq(Characteristics)
      /\ saved \in Seq(BindingIds) /\ IsFiniteSet(Present)
  BY <1>2 DEF CatalogFits, OrderShape
<1>4. row \in Row \cup {None} /\ (change.op = "delete" => row = None)
  <2>1. CASE change.op = "insert"
    BY <1>2, <2>1 DEF ChangeFits, Row, ChangedRow
  <2>2. CASE change.op = "delete"
    BY <2>2 DEF ChangedRow
  <2>3. CASE change.op = "update"
    <3>1. bindings[change.id] \in Row
      BY <1>2, <1>3, <2>3 DEF ChangeFits
    <3>2. row = Edit(bindings[change.id])
      BY <2>3 DEF ChangedRow
    <3>3. ASSUME NEW b \in Row PROVE Edit(b) \in Row
      <4>1. b.key \in Keys /\ b.revision + 1 \in Nat \ {0}
        BY DEF Row
      <4>2. (~b.active) \in BOOLEAN
        BY Zenon
      <4> QED BY <4>1, <4>2 DEF Edit, Row
    <3> QED BY <2>3, <3>1, <3>2, <3>3
  <2> QED BY <1>2, <2>1, <2>2, <2>3 DEF ChangeFits
<1> HIDE DEF row
<1>5. /\ bindings' \in [BindingIds -> Row \cup {None}] /\ bindings'[change.id] = row
      /\ \A id \in BindingIds \ {change.id} : bindings'[id] = bindings[id]
  BY <1>1, <1>2, <1>3, <1>4 DEF ChangeFits
<1>6. IsFiniteSet(Present')
  <2>1. Present' \in SUBSET (Present \cup {change.id})
    BY <1>5 DEF Present
  <2>2. IsFiniteSet(Present \cup {change.id})
    BY <1>3, FS_AddElement
  <2> QED BY <2>1, <2>2, FS_Subset
<1>7. saved' \in Seq(BindingIds) /\ (saved' = saved \/ saved' = Only(saved, BindingIds \ {change.id}))
  BY <1>1, <1>3, OnlyKeepsOrder
<1>8. saved' # saved => change.id \notin Present'
  BY <1>1, <1>4, <1>5 DEF Present
<1>9. CatalogFits'
  <2>1. OrderShape'
    BY <1>1, <1>3, <1>5, <1>6, <1>7 DEF OrderShape
  <2> QED BY <1>1, <1>2, <2>1 DEF CatalogFits, Changing
<1>10. \A r \in Requests : ~HoldsTables(r)
  BY <1>1 DEF OrderInv, RequestFits
<1>11. UNCHANGED <<head, requestVars>>
  BY <1>1
<1>12. OrderInv'
  BY <1>9, <1>10, <1>11, CatalogMoves
<1> QED BY <1>7, <1>8, <1>12

-----------------------------------------------------------------------------
\* Every step keeps the invariant.
LEMMA NextKeepsOrder ==
  ASSUME OrderInv, HeadInv, [Next]_vars
  PROVE  OrderInv'
<1>1. CASE UNCHANGED <<orderAllVars>> \/ Open \/ Stop \/ drainServer \/ ClosePool
  <2>1. UNCHANGED <<bindings, used, positions, changing, change, changes, head, saved, requestVars>>
    BY <1>1 DEF orderAllVars, catalogVars, orderVars, Open, Stop, drainServer, ClosePool, Quiet
  <2>2. CatalogFits
    BY DEF OrderInv
  <2>3. CatalogFits'
    BY <2>1, <2>2 DEF CatalogFits, OrderShape, Present, Changing, ChangeFits
  <2>4. \A r \in Requests : HoldsTables(r) => ~Changing'
    BY <2>1 DEF OrderInv, RequestFits, Changing
  <2>5. UNCHANGED <<head, requestVars>>
    BY <2>1
  <2> QED BY <2>1, <2>3, <2>4, <2>5, CatalogMoves
<1>2. CASE Crash
  BY <1>2, CrashKeeps
<1>3. CASE ReceiveChange \/ HandleChange \/ CancelChange
  BY <1>3, ChangeKeeps, PresentationKeeps, ChangeMovesOn, CommitChangeKeeps
     DEF ReceiveChange, HandleChange, CancelChange, CatalogStep
<1>4. ASSUME NEW r \in Requests, Receive(r) \/ Handle(r) PROVE OrderInv'
  BY <1>4, ReadKeeps, BeginKeeps, ServeKeeps DEF Receive, Handle, Request
<1>5. ASSUME NEW r \in Requests, CancelRequest(r) \/ ResolveDeadlock(r) PROVE OrderInv'
  BY <1>5, AbandonKeeps, UnansweredKeeps, RefuseKeeps, ChangeMovesOn
     DEF CancelRequest, ResolveDeadlock, DeadlockVictim
<1>6. CASE UNCHANGED vars
  BY <1>1, <1>6 DEF vars
<1> QED BY <1>1, <1>2, <1>3, <1>4, <1>5, <1>6 DEF Next

\* The invariant holds at the start.
LEMMA InitOrders ==
  ASSUME Init
  PROVE  OrderInv
<1>1. /\ bindings = FirstBindings /\ used = {id \in BindingIds : FirstBindings[id] # None}
      /\ positions = <<>> /\ head = 0 /\ saved = <<>> /\ changing = "none" /\ changes = 0
      /\ at = [r \in Requests |-> "idle"] /\ seen = [r \in Requests |-> None]
      /\ wanted = [r \in Requests |-> <<>>] /\ plan = [r \in Requests |-> <<>>]
  BY DEF Init, OrderInit
<1>2. /\ FirstBindings \in [BindingIds -> Row \cup {None}]
      /\ IsFiniteSet({id \in BindingIds : FirstBindings[id] # None})
      /\ MaxHead \in Nat /\ MaxChanges \in Nat
  BY OrderAssumption
<1>3. OrderShape
  <2>1. Present = {id \in BindingIds : FirstBindings[id] # None}
    BY <1>1 DEF Present
  <2>2. <<>> \in Seq(Characteristics) /\ <<>> \in Seq(BindingIds)
    OBVIOUS
  <2> QED BY <1>1, <1>2, <2>1, <2>2 DEF OrderShape
<1>4. CatalogFits
  BY <1>1, <1>2, <1>3 DEF CatalogFits, Changing
<1>5. wanted \in [Requests -> Seq(Keys)] /\ plan \in [Requests -> Seq(BindingIds)]
  <2>1. <<>> \in Seq(Keys) /\ <<>> \in Seq(BindingIds)
    OBVIOUS
  <2> QED BY <1>1, <2>1
<1>6. \A r \in Requests : RequestFits(r) /\ ~HoldsType(r)
  BY <1>1 DEF RequestFits, HoldsTables, HoldsType
<1> QED BY <1>1, <1>2, <1>4, <1>5, <1>6 DEF OrderInv

\* The invariant holds in every reachable state.
LEMMA OrderInvHolds == Spec => []OrderInv
BY InitOrders, NextKeepsOrder, InvHolds, PTL DEF Spec

-----------------------------------------------------------------------------
(***************************************************************************)
(* Types.                                                                  *)
(***************************************************************************)
\* Answers are those of the API, and no transaction outlives the process.
ServerFits ==
  /\ answered \in {None} \cup (Requests \X ({"200", "closed"} \cup Range(StatusOf)))
  /\ server \in {"down", "serving", "draining", "closing"}
  /\ server = "down" => ~InFlight

\* The answers of the API.
LEMMA AnswerSet ==
  {"200", "400", "409", "422", "500", "503", "closed"} \subseteq {"200", "closed"} \cup Range(StatusOf)
<1> DEFINE D == {"invalid_argument", "conflict", "validation", "unavailable", "internal"}
<1>1. DOMAIN StatusOf = D
  BY DEF StatusOf
<1>2. {StatusOf[c] : c \in D} = {"400", "409", "422", "503", "500"}
  BY DEF StatusOf
<1> QED BY <1>1, <1>2 DEF Range

\* Every step keeps them.
LEMMA NextKeepsServer ==
  ASSUME ServerFits, HeadInv, [Next]_vars
  PROVE  ServerFits'
<1>1. CASE UNCHANGED vars
  BY <1>1 DEF vars, orderAllVars, catalogVars, requestVars, ServerFits, InFlight, Changing
<1>2. CASE Next
  <2>1. answered' \in {None} \cup (Requests \X {"200", "400", "409", "422", "500", "503", "closed"})
    BY <1>2, NextShape DEF GoesOn, EndsUnstored, EndsStored, Ended
  <2>2. answered' \in {None} \cup (Requests \X ({"200", "closed"} \cup Range(StatusOf)))
    BY <2>1, AnswerSet
  <2>3. CASE Open \/ Stop \/ drainServer \/ Crash
    <3>1. server' \in {"serving", "draining", "closing"} \/ ~InFlight'
      BY <2>3 DEF Open, Stop, drainServer, Crash, EndChange, InFlight, Changing
    <3>2. server' \in {"down", "serving", "draining", "closing"}
      BY <2>3 DEF Open, Stop, drainServer, Crash
    <3> QED BY <2>2, <3>1, <3>2 DEF ServerFits
  <2>4. CASE ClosePool
    <3>1. server' = "down" /\ ~InFlight /\ UNCHANGED <<changing, at>>
      BY <2>4 DEF ClosePool, Quiet, catalogVars, requestVars
    <3>2. ~InFlight'
      BY <3>1 DEF InFlight, Changing
    <3> QED BY <2>2, <3>1, <3>2 DEF ServerFits
  <2>5. CASE UNCHANGED server /\ server \in {"serving", "draining", "closing"}
    BY <2>2, <2>5 DEF ServerFits
  <2> QED BY <1>2, <2>3, <2>4, <2>5
          DEF Next, Receive, Handle, CancelRequest, ResolveDeadlock, ReceiveChange, HandleChange,
              CancelChange, Alive
<1> QED BY <1>1, <1>2

\* Every variable of the API process holds what it can, in every reachable
\* state: the head stays within its bound because a replacement is only
\* committed for the head it was planned for.
THEOREM ServerTypes == Spec => []TypeOK
<1>1. Init => ServerFits
  BY DEF Init, OrderInit, ServerFits, InFlight, Changing
<1>2. Spec => []ServerFits
  BY <1>1, NextKeepsServer, InvHolds, PTL DEF Spec
<1>3. OrderInv /\ ServerFits => TypeOK
  BY DEF OrderInv, CatalogFits, OrderShape, ServerFits, TypeOK, OrderTypeOK
<1> QED BY <1>2, <1>3, OrderInvHolds, PTL

-----------------------------------------------------------------------------
(***************************************************************************)
(* What replacements and catalog changes do to the order.                  *)
(***************************************************************************)
\* Which steps change the stored order: a commit, or the deletion of a
\* binding, which goes with its item.
LEMMA StoredOrder ==
  ASSUME OrderInv, HeadInv, [Next]_vars
  PROVE  \/ UNCHANGED <<head, saved>>
         \/ head' = head /\ saved' = Only(saved, BindingIds \ {change.id}) /\ change.id \notin Present'
         \/ \E r \in Requests :
              /\ at[r] = "written" /\ TakeEffect(r) /\ EndsOrder(r)
<1>1. CASE UNCHANGED vars \/ Open \/ Stop \/ drainServer \/ ClosePool \/ Crash
  BY <1>1 DEF vars, orderAllVars, orderVars, Open, Stop, drainServer, ClosePool, Quiet, Crash
<1>2. CASE ReceiveChange \/ CancelChange \/ (HandleChange /\ CheckForeignKey)
  BY <1>2 DEF ReceiveChange, CancelChange, ChangeBinding, ChangePresentation, AbandonChange,
              CheckForeignKey, orderVars
<1>3. CASE CommitChange
  <2>1. head' = head
    BY <1>3 DEF CommitChange
  <2> QED BY <1>3, <2>1, CommitChangeKeeps
<1>4. ASSUME NEW r \in Requests, CommitUnanswered(r)
      PROVE  UNCHANGED <<head, saved>> \/ (at[r] = "written" /\ TakeEffect(r) /\ EndsOrder(r))
  BY <1>4, AnswerEnds DEF CommitUnanswered, Refuse, orderVars
<1>5. ASSUME NEW r \in Requests, CommitOrder(r)
      PROVE  at[r] = "written" /\ TakeEffect(r) /\ EndsOrder(r)
  <2>1. PICK status \in {"200", "closed"} : Answer(r, status)
    BY <1>5 DEF CommitOrder
  <2> QED BY <1>5, <2>1, AnswerEnds DEF CommitOrder
<1>6. ASSUME NEW r \in Requests, LockType(r) \/ LockStructural(r) \/ ReplaceItems(r)
      PROVE  UNCHANGED <<head, saved>>
  BY <1>6 DEF LockType, LockStructural, ReplaceItems, Refuse, orderVars
<1>7. ASSUME NEW r \in Requests, Request(r) \/ AbandonOrder(r) \/ DeadlockVictim(r)
      PROVE  UNCHANGED <<head, saved>>
  BY <1>7 DEF Request, ReadAttributeOrder, WriteAttributeOrder, AbandonOrder, DeadlockVictim,
              AbandonChange, Refuse, orderVars
<1>8. ASSUME NEW r \in Requests, Receive(r) \/ Handle(r) \/ CancelRequest(r) \/ ResolveDeadlock(r)
      PROVE  \/ UNCHANGED <<head, saved>>
             \/ at[r] = "written" /\ TakeEffect(r) /\ EndsOrder(r)
  BY <1>4, <1>5, <1>6, <1>7, <1>8 DEF Receive, Handle, CancelRequest, ResolveDeadlock, Serve
<1> QED BY <1>1, <1>2, <1>3, <1>8 DEF Next, HandleChange, CatalogStep

\* Catalog changes never reorder what the user ordered: of the bindings of
\* the saved order that a step leaves, each pair is read in the same order
\* after it, whatever is added, deleted or given a position, unless the step
\* commits a replacement.
THEOREM CatalogKeepsOrder == Spec => SurvivorsKeepTheirOrder
<1> DEFINE old == Only(ResolveAttributeOrder(saved), Range(saved))
           Kept == head' = head =>
             LET new == ResolveAttributeOrder(saved)' IN
             \A i, j \in DOMAIN old : i < j /\ {old[i], old[j]} \subseteq Present' =>
               \E m, n \in DOMAIN new : m < n /\ new[m] = old[i] /\ new[n] = old[j]
<1>1. ASSUME OrderInv, HeadInv, OrderInv', [Next]_vars PROVE Kept
  <2> DEFINE all == ResolveAttributeOrder(saved)
             new == ResolveAttributeOrder(saved)'
  <2>1. /\ OrderShape /\ OrderShape' /\ saved \in Seq(BindingIds)
    BY <1>1 DEF OrderInv, CatalogFits, OrderShape
  <2>2. /\ all \in Seq(Present)
        /\ \A x, y \in Range(saved) : Precedes(all, x, y) => Precedes(saved, x, y)
    BY <2>1, ReadsResolve DEF Resolved
  <2>3. \A x, y \in Present' : Precedes(saved', x, y) => Precedes(new, x, y)
    BY <2>1, ReadsResolveNext DEF Resolved, Precedes
  <2>4. \A x, y : Precedes(old, x, y) <=> Precedes(all, x, y) /\ x \in Range(saved) /\ y \in Range(saved)
    BY <2>2, OnlyKeepsOrder
  <2> HIDE DEF all, new, old
  <2>5. ASSUME head' = head, NEW i \in DOMAIN old, NEW j \in DOMAIN old, i < j,
               old[i] \in Present', old[j] \in Present'
        PROVE  Precedes(new, old[i], old[j])
    <3> DEFINE x == old[i]
               y == old[j]
    <3>1. Precedes(old, x, y)
      BY <2>5 DEF Precedes
    <3> HIDE DEF x, y
    <3>2. Precedes(saved, x, y)
      BY <2>2, <2>4, <3>1
    <3>3. x \in Present' /\ y \in Present' /\ x \in BindingIds /\ y \in BindingIds
      BY <2>5 DEF x, y, Present
    <3>4. CASE saved' = saved
      <4>1. Precedes(saved', x, y)
        BY <3>2, <3>4
      <4> QED BY <2>3, <3>3, <4>1 DEF x, y
    <3>5. CASE saved' = Only(saved, BindingIds \ {change.id}) /\ change.id \notin Present'
      <4>1. x \in BindingIds \ {change.id} /\ y \in BindingIds \ {change.id}
        BY <3>3, <3>5
      <4>2. Precedes(Only(saved, BindingIds \ {change.id}), x, y)
        BY <2>1, <3>2, <4>1, OnlyKeepsOrder
      <4>3. Precedes(saved', x, y)
        BY <3>5, <4>2
      <4> QED BY <2>3, <3>3, <4>3 DEF x, y
    <3>6. ~\E r \in Requests : TakeEffect(r)
      BY <1>1, <2>5 DEF TakeEffect, BumpHead, HeadInv
    <3> QED BY <1>1, <3>4, <3>5, <3>6, StoredOrder
  <2> QED BY <2>5 DEF Precedes, new
<1> HIDE DEF Kept
<1>2. OrderInv /\ HeadInv /\ OrderInv' /\ [Next]_vars => [Kept]_orderAllVars
  BY <1>1
<1>3. Spec => [][Kept]_orderAllVars
  BY <1>2, OrderInvHolds, InvHolds, PTL DEF Spec
<1> QED BY <1>3 DEF Kept, SurvivorsKeepTheirOrder

\* An accepted replacement is what reads show from its commit on, and its
\* client had seen every binding it orders: the lock on the tables keeps the
\* bindings from the comparison to the commit, and positions, which no lock
\* keeps, order nothing when every binding has its item.
THEOREM AcceptedOrderShown == Spec => AcceptedOrderIsRead
<1> DEFINE Shown == \A r \in Requests : Applies(r) =>
             /\ OrderedKeys(ResolveAttributeOrder(saved))' = wanted[r]
             /\ {m.id : m \in Range(seen[r].revision.members)} = Present'
<1>1. ASSUME OrderInv, HeadInv, OrderInv', [Next]_vars PROVE Shown
  <2> SUFFICES ASSUME NEW r \in Requests, Applies(r)
               PROVE  /\ OrderedKeys(ResolveAttributeOrder(saved))' = wanted[r]
                      /\ {m.id : m \in Range(seen[r].revision.members)} = Present'
    OBVIOUS
  <2>1. PICK q \in Requests : at[q] = "written" /\ TakeEffect(q) /\ EndsOrder(q)
    BY <1>1, StoredOrder DEF Applies
  <2>2. q = r
    BY <1>1, <2>1 DEF Applies, EndsOrder, OrderInv
  <2>3. saved' = plan[r] /\ UNCHANGED bindings
    BY <2>1, <2>2 DEF TakeEffect, catalogVars
  <2>4. /\ Range(plan[r]) = Present /\ OrderedKeys(plan[r]) = wanted[r]
        /\ {m.id : m \in Range(seen[r].revision.members)} = Present
    BY <1>1, <2>1, <2>2 DEF OrderInv, RequestFits, ReadyToCommit
  <2>5. Present' = Present
    BY <2>3 DEF Present
  <2>6. OrderShape'
    BY <1>1 DEF OrderInv, CatalogFits
  <2>7. ResolveAttributeOrder(saved)' = saved'
    BY <2>3, <2>4, <2>5, <2>6, ReadsResolveNext DEF Resolved
  <2>8. OrderedKeys(ResolveAttributeOrder(saved))' = OrderedKeys(plan[r])
    BY <2>3, <2>7 DEF OrderedKeys
  <2> QED BY <2>4, <2>5, <2>8
<1> HIDE DEF Shown
<1>2. OrderInv /\ HeadInv /\ OrderInv' /\ [Next]_vars => [Shown]_orderAllVars
  BY <1>1
<1>3. Spec => [][Shown]_orderAllVars
  BY <1>2, OrderInvHolds, InvHolds, PTL DEF Spec
<1> QED BY <1>3 DEF Shown, AcceptedOrderIsRead
=============================================================================
