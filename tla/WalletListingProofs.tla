------------------------- MODULE WalletListingProofs -------------------------
(***************************************************************************)
(* Proofs about WalletListing, for every set of users, requests and        *)
(* queries, every width of the integers, every clock and every number of   *)
(* failovers.                                                              *)
(***************************************************************************)
EXTENDS WalletListing, WalletServiceProofs, FiniteSetTheorems, SequenceTheorems

-----------------------------------------------------------------------------
(* Arithmetic: division with remainder, int64 overflow and page numbers.   *)

LEMMA DivMod ==
    ASSUME NEW a \in Int, NEW m \in Nat \ {0}
    PROVE  a \div m \in Int /\ a % m \in 0..(m - 1) /\ a = m * (a \div m) + (a % m)
BY SMT

\* Quotient and remainder are determined.
LEMMA DivModUnique ==
    ASSUME NEW m \in Nat \ {0}, NEW p \in Int, NEW q \in Int,
           NEW r \in 0..(m - 1), NEW s \in 0..(m - 1), m * p + r = m * q + s
    PROVE  p = q /\ r = s
<1>1. CASE p < q
  <2>1. m * p + m <= m * q
    BY <1>1, SMT
  <2> QED
    BY <2>1
<1>2. CASE q < p
  <2>1. m * q + m <= m * p
    BY <1>2, SMT
  <2> QED
    BY <2>1
<1> QED
  BY <1>1, <1>2

\* The remainder of a number that differs by a multiple.
LEMMA ModShift ==
    ASSUME NEW m \in Nat \ {0}, NEW p \in Int, NEW a \in Int
    PROVE  (m * p + a) % m = a % m
<1> DEFINE b == m * p + a
           quotient(x) == x \div m
           rest(x) == x % m
<1>1. \A x \in Int : /\ quotient(x) \in Int
                     /\ rest(x) \in 0..(m - 1)
                     /\ x = m * quotient(x) + rest(x)
  BY DivMod, Zenon
<1>2. \A x \in Int, y \in Int, r \in 0..(m - 1), s \in 0..(m - 1) :
         m * x + r = m * y + s => r = s
  BY DivModUnique
<1>3. b \in Int
  BY SMT
<1>4. \A d \in Int, r \in 0..(m - 1) : a = m * d + r => b = m * (p + d) + r /\ p + d \in Int
  BY SMT
<1> HIDE DEF b, quotient, rest
<1>5. b = m * (p + quotient(a)) + rest(a) /\ p + quotient(a) \in Int
  BY <1>1, <1>4, Zenon
<1>6. m * (p + quotient(a)) + rest(a) = m * quotient(b) + rest(b)
  BY <1>1, <1>3, <1>5, Zenon
<1>7. rest(a) = rest(b)
  <2> DEFINE x == p + quotient(a)
             y == quotient(b)
             r == rest(a)
             s == rest(b)
  <2>1. x \in Int /\ y \in Int /\ r \in 0..(m - 1) /\ s \in 0..(m - 1)
    BY <1>1, <1>3, <1>5
  <2>2. m * x + r = m * y + s
    BY <1>6
  <2> HIDE DEF x, y, r, s
  <2>3. r = s
    BY <1>2, <2>1, <2>2, Zenon
  <2> QED
    BY <2>3 DEF r, s
<1> QED
  BY <1>7, Zenon DEF b, rest

\* What an int64 can hold is left alone; a little more is negative; and only
\* the last sum of several can wrap.
LEMMA WrapFacts ==
    /\ \A n \in Int : Wrap(n) \in MinInt..MaxInt
    /\ \A n \in 0..MaxInt : Wrap(n) = n
    /\ \A n \in (MaxInt + 1)..(2 * MaxInt + 1) : Wrap(n) < 0
    /\ \A n \in Int, l \in Int : Wrap(n + l) = Wrap(Wrap(n) + l)
<1> DEFINE m == 2 * (MaxInt + 1)
           rest(x) == x % m
           quotient(x) == x \div m
<1>1. m \in Nat \ {0} /\ MaxInt \in Nat \ {0} /\ MinInt = -MaxInt - 1
  BY ListingAssumption DEF MinInt
<1>2. \A n : Wrap(n) = rest(n - MinInt) + MinInt
  BY Zenon DEF Wrap
<1> HIDE DEF m
<1>3. \A x \in Int : /\ quotient(x) \in Int
                     /\ rest(x) \in 0..(m - 1)
                     /\ x = m * quotient(x) + rest(x)
  BY <1>1, DivMod, Zenon
<1>4. \A p \in Int, x \in Int : rest(m * p + x) = rest(x)
  BY <1>1, ModShift, Zenon
<1>5. \A x \in Int, y \in Int, r \in 0..(m - 1), s \in 0..(m - 1) :
         m * x + r = m * y + s => r = s
  BY <1>1, DivModUnique
<1> HIDE DEF rest, quotient
<1>6. \A x \in 0..(m - 1) : rest(x) = x
  <2> SUFFICES ASSUME NEW x \in 0..(m - 1) PROVE rest(x) = x
    OBVIOUS
  <2>1. x \in Int /\ m * 0 + x = x /\ 0 \in Int
    BY <1>1
  <2> QED
    BY <1>3, <1>5, <2>1
<1>7. \A n \in Int : Wrap(n) \in MinInt..MaxInt
  BY <1>1, <1>2, <1>3 DEF m
<1>8. \A n \in 0..MaxInt : Wrap(n) = n
  BY <1>1, <1>2, <1>6 DEF m
<1>9. \A n \in (MaxInt + 1)..(2 * MaxInt + 1) : Wrap(n) < 0
  <2> SUFFICES ASSUME NEW n \in (MaxInt + 1)..(2 * MaxInt + 1) PROVE Wrap(n) < 0
    OBVIOUS
  <2> DEFINE x == n - MinInt - m
  <2>1. x \in 0..(m - 1) /\ x + MinInt < 0 /\ 1 \in Int
    BY <1>1 DEF m
  <2>2. n - MinInt = m * 1 + x
    BY <1>1
  <2> HIDE DEF x
  <2>3. x \in Int /\ rest(x) = x
    BY <1>1, <1>6, <2>1
  <2>4. rest(m * 1 + x) = rest(x)
    BY <1>4, <2>1, <2>3, Zenon
  <2>5. rest(n - MinInt) = x
    BY <2>2, <2>3, <2>4, Zenon
  <2> QED
    BY <1>2, <2>1, <2>5
<1>10. \A n \in Int, l \in Int : Wrap(n + l) = Wrap(Wrap(n) + l)
  <2> SUFFICES ASSUME NEW n \in Int, NEW l \in Int
               PROVE  Wrap(n + l) = Wrap(Wrap(n) + l)
    OBVIOUS
  <2> DEFINE x == n - MinInt
             y == rest(x) + l
  <2>1. x \in Int /\ y \in Int /\ quotient(x) \in Int /\ rest(x) \in Int
    BY <1>1, <1>3
  <2>2. (n + l) - MinInt = m * quotient(x) + y
    <3>1. (n + l) - MinInt = x + l /\ x = m * quotient(x) + rest(x)
      BY <1>1, <1>3
    <3>2. m * quotient(x) \in Int
      BY <1>1, <2>1, SMT
    <3> HIDE DEF x
    <3> QED
      BY <2>1, <3>1, <3>2
  <2>3. rest((n + l) - MinInt) = rest(y)
    BY <1>4, <2>1, <2>2
  <2>4. (Wrap(n) + l) - MinInt = y
    BY <1>1, <1>2, <2>1
  <2>5. Wrap(n + l) = rest((n + l) - MinInt) + MinInt
    BY <1>2, Zenon
  <2>6. Wrap(Wrap(n) + l) = rest((Wrap(n) + l) - MinInt) + MinInt
    BY <1>2, Zenon
  <2>7. rest((n + l) - MinInt) = rest((Wrap(n) + l) - MinInt)
    BY <2>3, <2>4, Zenon
  <2> QED
    BY <2>5, <2>6, <2>7
<1> QED
  BY <1>7, <1>8, <1>9, <1>10

\* Place a is on page p of pages that are l long.
LEMMA PageOfPlace ==
    ASSUME NEW a \in Nat, NEW p \in Nat, NEW l \in Nat \ {0}
    PROVE  /\ p * l \in Nat
           /\ a \div l = p <=> p * l <= a /\ a < p * l + l
<1>1. /\ a \div l \in Int /\ a % l \in 0..(l - 1) /\ a = l * (a \div l) + (a % l)
  BY DivMod
<1>2. p * l \in Nat /\ p * l = l * p
  BY SMT
<1>3. ASSUME a \div l = p
      PROVE  p * l <= a /\ a < p * l + l
  BY <1>1, <1>2, <1>3
<1>4. ASSUME p * l <= a, a < p * l + l
      PROVE  a \div l = p
  <2>1. a - p * l \in 0..(l - 1) /\ l * p + (a - p * l) = l * (a \div l) + (a % l)
    BY <1>1, <1>2, <1>4
  <2> QED
    BY <1>1, <2>1, DivModUnique
<1> QED
  BY <1>2, <1>3, <1>4

LEMMA LimitType ==
    ASSUME NEW q
    PROVE  LimitOf(q) \in 1..MaxInt
BY ListingAssumption DEF LimitOf, Parses

LEMMA OffsetType ==
    ASSUME NEW q
    PROVE  OffsetOf(q) \in MinInt..MaxInt
<1> USE ListingAssumption DEF MinInt
<1>1. CASE Parses(q.page) /\ q.page > 1
  <2>1. (q.page - 1) * LimitOf(q) \in Int
    <3>1. q.page - 1 \in Int /\ LimitOf(q) \in Int
      BY <1>1, LimitType DEF Parses
    <3> QED
      BY <3>1, SMT
  <2>2. Wrap((q.page - 1) * LimitOf(q)) \in MinInt..MaxInt
    BY <2>1, WrapFacts
  <2> QED
    BY <1>1, <2>2 DEF OffsetOf, Parses
<1>2. CASE ~(Parses(q.page) /\ q.page > 1)
  BY <1>2 DEF OffsetOf, Parses
<1> QED
  BY <1>1, <1>2

-----------------------------------------------------------------------------
(* The listing.                                                            *)

\* The stamps were all read from the clock.
StampsOK == clock \in 0..MaxClock /\ stamp \in [Requests -> 0..clock]

\* How many documents come before document i in the listing.
Rank(q, i) == Cardinality({j \in Matching(q) : Before(q.user, j, i)})

LEMMA MatchingFacts ==
    ASSUME Shape, StampsOK, NEW q, IsQuery(q)
    PROVE  /\ q.user \in Users
           /\ IsFiniteSet(Matching(q))
           /\ Cardinality(Matching(q)) \in Nat
           /\ \A i \in Matching(q) :
                 /\ i \in 1..durable[q.user]
                 /\ i \in 1..Len(log[q.user])
                 /\ log[q.user][i] \in Entry
                 /\ log[q.user][i].by \in Requests
                 /\ CreatedAt(q.user, i) \in Nat
<1>1. /\ q.user \in Users
      /\ durable[q.user] \in Nat
      /\ durable[q.user] <= Len(log[q.user])
      /\ log[q.user] \in Seq(Entry)
  BY DEF IsQuery, Shape, TypeOK, DurableBound
<1>2. Matching(q) \in SUBSET (1..durable[q.user])
  BY DEF Matching, Readable
<1>3. IsFiniteSet(1..durable[q.user])
  BY <1>1, FS_Interval
<1>4. IsFiniteSet(Matching(q)) /\ Cardinality(Matching(q)) \in Nat
  BY <1>2, <1>3, FS_Subset, FS_CardinalityType
<1>5. \A i \in 1..Len(log[q.user]) :
         /\ log[q.user][i] \in Entry
         /\ log[q.user][i].by \in Requests
  <2>1. \A i \in 1..Len(log[q.user]) : log[q.user][i] \in Entry
    BY <1>1
  <2>2. \A e \in Entry : e.by \in Requests
    BY DEF Entry
  <2> QED
    BY <2>1, <2>2
<1>6. \A r \in Requests : stamp[r] \in Nat
  BY ListingAssumption DEF StampsOK
<1>7. \A i \in Matching(q) : i \in 1..durable[q.user] /\ i \in 1..Len(log[q.user])
  BY <1>1, <1>2
<1>8. \A i \in Matching(q) : CreatedAt(q.user, i) \in Nat
  BY <1>5, <1>6, <1>7 DEF CreatedAt
<1> QED
  BY <1>1, <1>4, <1>5, <1>7, <1>8

\* Before is a strict total order on the documents that match.
LEMMA BeforeOrder ==
    ASSUME Shape, StampsOK, NEW q, IsQuery(q),
           NEW i \in Matching(q), NEW j \in Matching(q), NEW k \in Matching(q)
    PROVE  /\ ~Before(q.user, i, i)
           /\ Before(q.user, i, j) \/ Before(q.user, j, i) \/ i = j
           /\ Before(q.user, i, j) /\ Before(q.user, j, k) => Before(q.user, i, k)
BY MatchingFacts DEF Before

\* The documents of a listing have ranks from 0 on, in its order.
LEMMA RankOrder ==
    ASSUME Shape, StampsOK, NEW q, IsQuery(q), NEW i \in Matching(q)
    PROVE  /\ Rank(q, i) \in 0..(Cardinality(Matching(q)) - 1)
           /\ \A j \in Matching(q) : Before(q.user, i, j) <=> Rank(q, i) < Rank(q, j)
<1> DEFINE Below(j) == {k \in Matching(q) : Before(q.user, k, j)}
<1>1. IsFiniteSet(Matching(q)) /\ Cardinality(Matching(q)) \in Nat
  BY MatchingFacts
<1>2. \A j \in Matching(q) : IsFiniteSet(Below(j)) /\ Rank(q, j) \in Nat
  <2> SUFFICES ASSUME NEW j \in Matching(q)
               PROVE  IsFiniteSet(Below(j)) /\ Rank(q, j) \in Nat
    OBVIOUS
  <2>1. Below(j) \in SUBSET Matching(q)
    OBVIOUS
  <2>2. IsFiniteSet(Below(j))
    BY <1>1, <2>1, FS_Subset
  <2> QED
    BY <2>2, FS_CardinalityType DEF Rank
<1> DEFINE card(j) == Cardinality(Below(j))
<1>0. \A j : Rank(q, j) = card(j)
  BY DEF Rank
<1>3. Rank(q, i) \in 0..(Cardinality(Matching(q)) - 1)
  <2>1. Below(i) \in SUBSET Matching(q) /\ i \notin Below(i)
    BY BeforeOrder
  <2>2. /\ card(i) <= Cardinality(Matching(q))
        /\ Cardinality(Matching(q)) = card(i) => Matching(q) = Below(i)
    BY <1>1, <2>1, FS_Subset
  <2>3. Matching(q) # Below(i)
    BY <2>1
  <2> HIDE DEF card, Below
  <2> QED
    BY <1>0, <1>1, <1>2, <2>2, <2>3
<1>4. \A j, k \in Matching(q) : Before(q.user, j, k) => Rank(q, j) < Rank(q, k)
  <2> SUFFICES ASSUME NEW j \in Matching(q), NEW k \in Matching(q), Before(q.user, j, k)
               PROVE  Rank(q, j) < Rank(q, k)
    OBVIOUS
  <2>1. Below(j) \in SUBSET Below(k)
    BY BeforeOrder
  <2>2. j \in Below(k) /\ j \notin Below(j)
    BY BeforeOrder
  <2>3. card(j) <= card(k) /\ (card(k) = card(j) => Below(k) = Below(j))
    BY <1>2, <2>1, FS_Subset
  <2>4. Below(k) # Below(j)
    BY <2>2
  <2> HIDE DEF card, Below
  <2> QED
    BY <1>0, <1>2, <2>3, <2>4
<1>5. \A j \in Matching(q) : Before(q.user, i, j) <=> Rank(q, i) < Rank(q, j)
  <2> SUFFICES ASSUME NEW j \in Matching(q), Rank(q, i) < Rank(q, j)
               PROVE  Before(q.user, i, j)
    BY <1>4
  <2>1. Rank(q, i) \in Nat /\ Rank(q, j) \in Nat
    BY <1>2, Zenon
  <2>2. i # j /\ ~(Rank(q, j) < Rank(q, i))
    BY <2>1
  <2> QED
    BY <1>4, <2>2, BeforeOrder
<1> QED
  BY <1>3, <1>5

\* The documents can be put in order: each at the place of its rank.
LEMMA SortedExists ==
    ASSUME Shape, StampsOK, NEW q, IsQuery(q)
    PROVE  \E places \in [1..Cardinality(Matching(q)) -> Matching(q)] :
              \A k, l \in DOMAIN places :
                 k < l => Before(q.user, places[k], places[l])
<1> DEFINE S == Matching(q)
           n == Cardinality(S)
           rank == [i \in S |-> Rank(q, i)]
           places == [k \in 1..n |-> CHOOSE i \in S : Rank(q, i) = k - 1]
<1>1. IsFiniteSet(S) /\ n \in Nat
  BY MatchingFacts
<1>2. \A i \in S : Rank(q, i) \in 0..(n - 1)
  BY RankOrder
<1>3. \A i, j \in S : Before(q.user, i, j) <=> Rank(q, i) < Rank(q, j)
  BY RankOrder
<1>4. rank \in Injection(S, 0..(n - 1))
  <2>1. rank \in [S -> 0..(n - 1)]
    BY <1>2
  <2>2. ASSUME NEW i \in S, NEW j \in S, rank[i] = rank[j]
        PROVE  i = j
    <3>1. Rank(q, i) = Rank(q, j) /\ Rank(q, i) \in Int
      BY <1>2, <2>2
    <3>2. ~Before(q.user, i, j) /\ ~Before(q.user, j, i)
      BY <1>3, <3>1
    <3> QED
      BY <3>2, BeforeOrder
  <2>3. DOMAIN rank = S
    OBVIOUS
  <2> HIDE DEF rank, S
  <2> QED
    BY <2>1, <2>2, <2>3, Zenon DEF Injection, IsInjective
<1>5. rank \in Surjection(S, 0..(n - 1))
  <2>1. IsFiniteSet(0..(n - 1)) /\ Cardinality(0..(n - 1)) = n
    <3>1. 0 \in Int /\ n - 1 \in Int
      BY <1>1
    <3>2. /\ IsFiniteSet(0..(n - 1))
          /\ Cardinality(0..(n - 1)) = IF 0 > n - 1 THEN 0 ELSE (n - 1) - 0 + 1
      BY <3>1, FS_Interval, Zenon
    <3> HIDE DEF n
    <3> QED
      BY <1>1, <3>2
  <2> HIDE DEF rank
  <2> QED
    BY <1>4, <2>1, FS_Injection
<1>6. \A k \in 1..n : \E i \in S : Rank(q, i) = k - 1
  <2> SUFFICES ASSUME NEW k \in 1..n PROVE \E i \in S : Rank(q, i) = k - 1
    OBVIOUS
  <2>1. k - 1 \in 0..(n - 1)
    BY <1>1
  <2>2. \E i \in S : rank[i] = k - 1
    BY <1>5, <2>1, Zenon DEF Surjection
  <2> QED
    BY <2>2
<1>7. \A k \in 1..n : places[k] \in S /\ Rank(q, places[k]) = k - 1
  BY <1>6
<1>8. places \in [1..n -> S]
  BY <1>7
<1>9. ASSUME NEW k \in 1..n, NEW l \in 1..n, k < l
      PROVE  Before(q.user, places[k], places[l])
  <2>1. Rank(q, places[k]) < Rank(q, places[l])
    BY <1>1, <1>7, <1>9
  <2> QED
    BY <1>3, <1>7, <2>1
<1>10. DOMAIN places = 1..n
  OBVIOUS
<1> HIDE DEF places
<1> QED
  BY <1>8, <1>9, <1>10

\* The listing is a sequence of the documents in their order.
LEMMA SortedInOrder ==
    ASSUME Shape, StampsOK, NEW q, IsQuery(q)
    PROVE  /\ Sorted(q) \in [1..Cardinality(Matching(q)) -> Matching(q)]
           /\ Len(Sorted(q)) = Cardinality(Matching(q))
           /\ \A k, l \in 1..Cardinality(Matching(q)) :
                 k < l => Before(q.user, Sorted(q)[k], Sorted(q)[l])
<1> DEFINE n == Cardinality(Matching(q))
<1>1. /\ Sorted(q) \in [1..n -> Matching(q)]
      /\ \A k, l \in DOMAIN Sorted(q) :
            k < l => Before(q.user, Sorted(q)[k], Sorted(q)[l])
  BY SortedExists, Zenon DEF Sorted
<1>2. n \in Nat
  BY MatchingFacts
<1>3. DOMAIN Sorted(q) = 1..n
  BY <1>1
<1>4. Len(Sorted(q)) = n
  <2>1. Sorted(q) \in Seq(Matching(q))
    BY <1>1, <1>2
  <2>2. DOMAIN Sorted(q) = 1..Len(Sorted(q)) /\ Len(Sorted(q)) \in Nat
    BY <2>1
  <2> HIDE DEF n
  <2> QED
    BY <1>2, <1>3, <2>2
<1> QED
  BY <1>1, <1>3, <1>4

\* In it, every document is at the place of its rank.
LEMMA SortedByRank ==
    ASSUME Shape, StampsOK, NEW q, IsQuery(q)
    PROVE  /\ \A k \in 1..Cardinality(Matching(q)) : Rank(q, Sorted(q)[k]) = k - 1
           /\ \A i \in Matching(q) :
                 /\ Rank(q, i) + 1 \in 1..Cardinality(Matching(q))
                 /\ Sorted(q)[Rank(q, i) + 1] = i
<1> DEFINE S == Matching(q)
           n == Cardinality(S)
           s == Sorted(q)
<1>1. IsFiniteSet(S) /\ n \in Nat
  BY MatchingFacts
<1>2. /\ s \in [1..n -> S]
      /\ \A k, l \in 1..n : k < l => Before(q.user, s[k], s[l])
  BY SortedInOrder
<1>3. \A i, j \in S : Before(q.user, i, j) => ~Before(q.user, j, i) /\ i # j
  BY BeforeOrder
<1> HIDE DEF s, n, S
<1>4. \A k, l \in 1..n : s[k] = s[l] => k = l
  <2> SUFFICES ASSUME NEW k \in 1..n, NEW l \in 1..n, s[k] = s[l], k # l
               PROVE  FALSE
    OBVIOUS
  <2>1. k < l \/ l < k
    BY <1>1
  <2>2. s[k] \in S /\ s[l] \in S
    BY <1>2
  <2> QED
    BY <1>2, <1>3, <2>1, <2>2
<1>5. s \in Injection(1..n, S)
  <2>1. DOMAIN s = 1..n
    BY <1>2
  <2> QED
    BY <1>2, <1>4, <2>1, Zenon DEF Injection, IsInjective
<1>6. \A i \in S : \E k \in 1..n : s[k] = i
  <2>1. IsFiniteSet(1..n) /\ Cardinality(1..n) = n
    <3>1. /\ IsFiniteSet(1..n)
          /\ Cardinality(1..n) = IF 1 > n THEN 0 ELSE n - 1 + 1
      BY <1>1, FS_Interval
    <3> QED
      BY <1>1, <3>1
  <2>2. s \in Surjection(1..n, S)
    BY <1>1, <1>5, <2>1, FS_Injection DEF n
  <2> QED
    BY <2>2, Zenon DEF Surjection
<1>7. ASSUME NEW k \in 1..n
      PROVE  Rank(q, s[k]) = k - 1
  <2> DEFINE B == {j \in S : Before(q.user, j, s[k])}
             f == [m \in 1..(k - 1) |-> s[m]]
  <2>1. k - 1 \in Nat /\ \A m \in 1..(k - 1) : m \in 1..n /\ m < k
    BY <1>1
  <2>2. \A m \in 1..(k - 1) : f[m] = s[m] /\ s[m] \in B
    BY <1>2, <2>1
  <2>3. f \in [1..(k - 1) -> B] /\ DOMAIN f = 1..(k - 1)
    BY <2>2
  <2>4. \A l, m \in 1..(k - 1) : f[l] = f[m] => l = m
    BY <1>4, <2>1, <2>2
  <2>5. ASSUME NEW j \in B
        PROVE  \E m \in 1..(k - 1) : f[m] = j
    <3>1. PICK m \in 1..n : s[m] = j
      BY <1>6
    <3>2. Before(q.user, s[m], s[k]) /\ s[m] \in S /\ s[k] \in S
      BY <1>2, <3>1
    <3>3. ~(k < m) /\ k # m
      BY <1>2, <1>3, <3>2
    <3>4. m \in 1..(k - 1)
      BY <1>1, <3>3
    <3> QED
      BY <2>2, <3>1, <3>4
  <2>6. ExistsBijection(1..(k - 1), B)
    <3> HIDE DEF f, B
    <3>1. f \in Injection(1..(k - 1), B)
      BY <2>3, <2>4, Zenon DEF Injection, IsInjective
    <3>2. f \in Surjection(1..(k - 1), B)
      BY <2>3, <2>5, Zenon DEF Surjection
    <3> QED
      BY <3>1, <3>2, Zenon DEF ExistsBijection, Bijection
  <2>7. Cardinality(B) = k - 1
    BY <2>1, <2>6, FS_CountingElements
  <2>8. Rank(q, s[k]) = Cardinality(B)
    BY Zenon DEF Rank, S
  <2> QED
    BY <2>7, <2>8
<1>8. ASSUME NEW i \in S
      PROVE  Rank(q, i) + 1 \in 1..n /\ s[Rank(q, i) + 1] = i
  <2>1. PICK k \in 1..n : s[k] = i
    BY <1>6
  <2>2. Rank(q, i) = k - 1
    BY <1>7, <2>1
  <2>3. Rank(q, i) + 1 = k
    BY <1>1, <2>2
  <2> QED
    BY <2>1, <2>3
<1> QED
  BY <1>7, <1>8 DEF s, n, S

\* A page holds the documents whose ranks are on it, and comes back short only
\* when the listing ends on it.
LEMMA PageOfRanks ==
    ASSUME Shape, StampsOK, NEW q, IsQuery(q), OffsetOf(q) >= 0
    PROVE  /\ Find(q) \in Seq(Entry)
           /\ Len(Find(q)) <= LimitOf(q)
           /\ \A i \in Matching(q) :
                 Rank(q, i) < OffsetOf(q) + Len(Find(q))
                 <=> Rank(q, i) < OffsetOf(q) + LimitOf(q)
           /\ Len(Find(q)) < LimitOf(q) =>
                 \A i \in Matching(q) : Rank(q, i) < OffsetOf(q) + LimitOf(q)
           /\ \A i \in Matching(q) :
                 /\ OffsetOf(q) <= Rank(q, i)
                 /\ Rank(q, i) < OffsetOf(q) + LimitOf(q)
                 => log[q.user][i] \in Range(Find(q))
           /\ \A e \in Range(Find(q)) : \E i \in Matching(q) :
                 /\ e = log[q.user][i]
                 /\ OffsetOf(q) <= Rank(q, i)
                 /\ Rank(q, i) < OffsetOf(q) + LimitOf(q)
<1> DEFINE S == Matching(q)
           n == Cardinality(S)
           s == Sorted(q)
           off == OffsetOf(q)
           end == off + LimitOf(q)
           last == IF end < n THEN end ELSE n
           places == SubSeq(s, off + 1, last)
           page == Find(q)
           u == q.user
<1>1. /\ n \in Nat
      /\ off \in Nat
      /\ LimitOf(q) \in Nat \ {0}
      /\ end \in Nat /\ end = off + LimitOf(q)
      /\ last \in Nat /\ last <= n /\ last <= end /\ (last = n \/ last = end)
  BY ListingAssumption, MatchingFacts, LimitType, OffsetType DEF MinInt
<1>2. /\ s \in [1..n -> S]
      /\ Len(s) = n
      /\ \A k \in 1..n : s[k] \in S /\ Rank(q, s[k]) = k - 1
      /\ \A i \in S : Rank(q, i) + 1 \in 1..n /\ s[Rank(q, i) + 1] = i
      /\ \A i \in S : Rank(q, i) \in Nat
  BY SortedInOrder, SortedByRank, RankOrder
<1>3. page = [k \in 1..Len(places) |-> log[u][places[k]]]
  BY <1>2, Zenon DEF Find, Documents
<1>4. \A i \in S : log[u][i] \in Entry
  BY MatchingFacts
<1> HIDE DEF s, n, S, off, end, last, page, u
<1>5. /\ Len(places) = IF off + 1 <= last THEN last - off ELSE 0
      /\ \A k \in 1..(last - off) : places[k] = s[off + k]
  <2>1. off + 1 \in Int /\ last \in Int
    BY <1>1
  <2>2. \A k \in (off + 1)..last : s[k] \in S
    BY <1>1, <1>2
  <2>3. /\ places \in Seq(S)
        /\ Len(places) = IF off + 1 <= last THEN last - (off + 1) + 1 ELSE 0
        /\ \A k \in 1..(last - (off + 1) + 1) : places[k] = s[(off + 1) + k - 1]
    BY <2>1, <2>2, SubSeqProperties
  <2> HIDE DEF places
  <2>4. last - (off + 1) + 1 = last - off
    BY <1>1
  <2>5. \A k \in 1..(last - off) : (off + 1) + k - 1 = off + k
    BY <1>1
  <2> QED
    BY <1>1, <2>3, <2>4, <2>5
<1> HIDE DEF places
<1>6. /\ Len(page) = IF off + 1 <= last THEN last - off ELSE 0
      /\ \A k \in 1..(last - off) :
            k \in DOMAIN page /\ page[k] = log[u][s[off + k]]
      /\ \A k \in DOMAIN page : k \in 1..(last - off)
      /\ page \in Seq(Entry)
  <2> DEFINE len == Len(places)
  <2>1. len \in Nat /\ (\A k \in 1..len : k \in 1..(last - off)) /\ 
        (\A k \in 1..(last - off) : k \in 1..len)
    BY <1>1, <1>5
  <2>2. \A k \in 1..len : off + k \in 1..n /\ places[k] = s[off + k]
    BY <1>1, <1>5, <2>1
  <2>3. \A k \in 1..len : log[u][places[k]] \in Entry
    BY <1>2, <1>4, <2>2
  <2>4. page \in [1..len -> Entry] /\ DOMAIN page = 1..len
    BY <1>3, <2>3
  <2> HIDE DEF len
  <2>5. page \in Seq(Entry)
    BY <2>1, <2>4
  <2>6. Len(page) = len
    <3>1. DOMAIN page = 1..Len(page) /\ Len(page) \in Nat
      BY <2>5
    <3> QED
      BY <2>1, <2>4, <3>1
  <2>7. \A k \in 1..len : page[k] = log[u][s[off + k]]
    BY <1>3, <2>2 DEF len
  <2>8. len = IF off + 1 <= last THEN last - off ELSE 0
    BY <1>5 DEF len
  <2> QED
    BY <2>1, <2>4, <2>5, <2>6, <2>7, <2>8
<1>7. /\ Len(page) <= LimitOf(q)
      /\ \A x \in 0..(n - 1) :
            /\ x < off + Len(page) <=> x < end
            /\ Len(page) < LimitOf(q) => x < end
            /\ off <= x /\ x < end => (x + 1) - off \in 1..(last - off)
  <2> DEFINE len == Len(page)
  <2>1. len = IF off + 1 <= last THEN last - off ELSE 0
    BY <1>6
  <2> HIDE DEF len
  <2>2. len <= LimitOf(q)
    BY <1>1, <2>1
  <2>3. \A x \in 0..(n - 1) :
           /\ x < off + len <=> x < end
           /\ len < LimitOf(q) => x < end
           /\ off <= x /\ x < end => (x + 1) - off \in 1..(last - off)
    BY <1>1, <2>1
  <2> QED
    BY <2>2, <2>3 DEF len
<1>8. \A i \in S : Rank(q, i) \in 0..(n - 1)
  BY RankOrder, Zenon DEF S, n
<1>9. /\ \A i \in S : Rank(q, i) < off + Len(page) <=> Rank(q, i) < end
      /\ Len(page) < LimitOf(q) => \A i \in S : Rank(q, i) < end
  BY <1>7, <1>8, Zenon
<1>10. ASSUME NEW i \in S, off <= Rank(q, i), Rank(q, i) < end
       PROVE  log[u][i] \in Range(page)
  <2> DEFINE k == (Rank(q, i) + 1) - off
  <2>1. k \in 1..(last - off) /\ off + k = Rank(q, i) + 1
    <3>1. k \in 1..(last - off)
      BY <1>7, <1>8, <1>10, Zenon
    <3> QED
      BY <1>1, <1>8, <3>1
  <2>2. page[k] = log[u][i] /\ k \in DOMAIN page
    BY <1>2, <1>6, <2>1
  <2> QED
    BY <2>2 DEF Range
<1>11. ASSUME NEW e \in Range(page)
       PROVE  \E i \in S : e = log[u][i] /\ off <= Rank(q, i) /\ Rank(q, i) < end
  <2>1. PICK k \in DOMAIN page : e = page[k]
    BY DEF Range
  <2>2. k \in 1..(last - off) /\ e = log[u][s[off + k]]
    BY <1>6, <2>1
  <2>3. off + k \in 1..n /\ (off + k) - 1 >= off /\ (off + k) - 1 < end
    BY <1>1, <2>2
  <2>4. s[off + k] \in S /\ Rank(q, s[off + k]) = (off + k) - 1
    BY <1>2, <2>3, Zenon
  <2>5. off <= Rank(q, s[off + k]) /\ Rank(q, s[off + k]) < end
    BY <2>3, <2>4
  <2> QED
    BY <2>2, <2>4, <2>5
<1> QED
  BY <1>6, <1>7, <1>9, <1>10, <1>11, Zenon DEF s, n, S, off, end, last, page, u

-----------------------------------------------------------------------------
(* What a write leaves of the listing.                                     *)

\* A committed transaction is past the point where it draws a stamp.
LEMMA CommittedPast ==
    ASSUME IInv, NEW u \in Users, NEW i \in 1..Len(log[u])
    PROVE  /\ log[u][i] \in Entry
           /\ log[u][i].by \in Requests
           /\ UserOf(log[u][i].by) = u
           /\ pc[log[u][i].by] \in {"ack", "done", "crashed"}
<1>1. log[u] \in Seq(Entry)
  BY DEF IInv, Shape, TypeOK
<1>2. log[u][i] \in Entry
  BY <1>1
<1>3. log[u][i].by \in Requests
  BY <1>2 DEF Entry
<1>4. UserOf(log[u][i].by) = u
  BY DEF IInv, Money, LedgerChain
<1> QED
  BY <1>2, <1>3, <1>4, Zenon DEF IInv, AnswersOK, CommittedDrafts

\* No two places of a ledger hold the same transaction.
LEMMA PlacesDiffer ==
    ASSUME IInv, NEW u \in Users, NEW i \in 1..Len(log[u]), NEW j \in 1..Len(log[u]),
           log[u][i] = log[u][j]
    PROVE  i = j
BY Zenon DEF IInv, KeysOK, AtMostOnce

\* A step keeps the durable transactions where they are.
LEMMA DurableKept ==
    ASSUME IInv, [Next]_vars
    PROVE  \A u \in Users : /\ durable[u] <= durable'[u]
                            /\ \A i \in 1..durable[u] : log'[u][i] = log[u][i]
<1>1. \A u \in Users : /\ durable[u] \in Nat
                       /\ log[u] \in Seq(Entry)
                       /\ Len(log[u]) \in Nat
                       /\ durable[u] <= Len(log[u])
                       /\ \A i \in 1..durable[u] : i \in 1..Len(log[u])
  BY DEF IInv, Shape, TypeOK, DurableBound
<1>2. CASE log' = log /\ durable' = durable
  BY <1>1, <1>2
<1>3. ASSUME NEW r \in Requests, Local(r)
      PROVE  log' = log /\ durable' = durable
  BY <1>3, FrameLocal DEF IInv, Money, Framed
<1>4. ASSUME NEW r \in Requests, ServerCommit(r)
      PROVE  \A u \in Users : /\ durable[u] <= durable'[u]
                              /\ \A i \in 1..durable[u] : log'[u][i] = log[u][i]
  <2>1. /\ log' = [log EXCEPT ![UserOf(r)] = Append(@, draft[r])]
        /\ durable' = durable
        /\ UserOf(r) \in Users
        /\ log \in [Users -> Seq(Entry)]
        /\ draft[r] \in Entry
    BY <1>4, ReqFields DEF ServerCommit, IInv, Shape, TypeOK, ControlOK, IsDraft
  <2>2. \A i \in 1..Len(log[UserOf(r)]) : log'[UserOf(r)][i] = log[UserOf(r)][i]
    BY <1>1, <2>1
  <2>3. \A u \in Users \ {UserOf(r)} : log'[u] = log[u]
    BY <2>1
  <2> QED
    BY <1>1, <2>1, <2>2, <2>3
<1>5. ASSUME NEW u \in Users, TouchWallet(u) \/ Replicate(u)
      PROVE  \A v \in Users : /\ durable[v] <= durable'[v]
                              /\ \A i \in 1..durable[v] : log'[v][i] = log[v][i]
  <2>1. log' = log /\ durable \in [Users -> Nat]
    BY <1>5 DEF TouchWallet, Replicate, IInv, Shape, TypeOK
  <2>2. durable' = durable \/ durable' = [durable EXCEPT ![u] = @ + 1]
    BY <1>5 DEF TouchWallet, Replicate
  <2>3. \A v \in Users : durable[v] <= durable'[v]
    BY <2>1, <2>2
  <2> QED
    BY <2>1, <2>3
<1>6. CASE Failover
  <2>1. log' = DurableLog /\ durable' = durable
    BY <1>6 DEF Failover
  <2> QED
    BY <1>1, <2>1, DurableLogType DEF IInv, Shape
<1>7. CASE Finished \/ UNCHANGED vars
  BY <1>2, <1>7 DEF Finished, vars
<1> QED
  BY <1>2, <1>3, <1>4, <1>5, <1>6, <1>7 DEF Next, Step, Server, Local

\* A write draws stamps from the clock for transactions that are being made,
\* and leaves those of the committed ones.
LEMMA WriteStamps ==
    ASSUME IInv, StampsOK, Write
    PROVE  /\ StampsOK'
           /\ clock <= clock'
           /\ \A r \in Requests :
                 IF pc[r] = "loop" /\ pc'[r] = "update"
                 THEN stamp'[r] = clock'
                 ELSE stamp'[r] = stamp[r]
           /\ \A u \in Users : \A i \in 1..Len(log[u]) :
                 stamp'[log[u][i].by] = stamp[log[u][i].by]
<1> DEFINE drawn == {r \in Requests : pc[r] = "loop" /\ pc'[r] = "update"}
<1>1. /\ clock' \in IF drawn = {} THEN {clock} ELSE clock..MaxClock
      /\ stamp' = [r \in Requests |-> IF r \in drawn THEN clock' ELSE stamp[r]]
  BY DEF Write
<1>2. clock \in Nat /\ clock <= MaxClock /\ MaxClock \in Nat
  BY ListingAssumption DEF StampsOK
<1>3. clock' \in 0..MaxClock /\ clock <= clock'
  BY <1>1, <1>2
<1>4. StampsOK'
  BY <1>1, <1>2, <1>3 DEF StampsOK
<1>5. \A r \in Requests :
         IF pc[r] = "loop" /\ pc'[r] = "update"
         THEN stamp'[r] = clock'
         ELSE stamp'[r] = stamp[r]
  BY <1>1
<1>6. \A u \in Users : \A i \in 1..Len(log[u]) :
         stamp'[log[u][i].by] = stamp[log[u][i].by]
  <2> SUFFICES ASSUME NEW u \in Users, NEW i \in 1..Len(log[u])
               PROVE  stamp'[log[u][i].by] = stamp[log[u][i].by]
    OBVIOUS
  <2>1. log[u][i].by \in Requests /\ pc[log[u][i].by] # "loop"
    BY CommittedPast
  <2> QED
    BY <1>5, <2>1
<1> QED
  BY <1>3, <1>4, <1>5, <1>6

\* What matched still matches, and only moves to later places.
LEMMA RanksGrow ==
    ASSUME IInv, IInv', StampsOK, Write, NEW q, IsQuery(q), NEW i \in Matching(q)
    PROVE  /\ i \in Matching(q)'
           /\ i \in 1..Len(log'[q.user])
           /\ log'[q.user][i] = log[q.user][i]
           /\ Rank(q, i) \in Nat /\ Rank(q, i)' \in Nat
           /\ Rank(q, i) <= Rank(q, i)'
<1> DEFINE u == q.user
           B == {j \in Matching(q) : Before(u, j, i)}
           C == {j \in Matching(q)' : Before(u, j, i)'}
<1>1. Shape /\ Shape' /\ StampsOK' /\ u \in Users
  BY WriteStamps DEF IInv, IsQuery
<1>2. /\ durable[u] \in Nat /\ durable'[u] \in Nat /\ durable[u] <= durable'[u]
      /\ \A j \in 1..durable[u] : log'[u][j] = log[u][j]
  BY <1>1, DurableKept DEF Write, Shape, TypeOK
<1>3. \A j \in Matching(q) : /\ j \in 1..durable[u]
                             /\ j \in 1..Len(log[u])
  BY <1>1, MatchingFacts
<1>4. \A j \in Matching(q) : log'[u][j] = log[u][j] /\ CreatedAt(u, j)' = CreatedAt(u, j)
  BY <1>1, <1>2, <1>3, WriteStamps DEF CreatedAt
<1>5. \A j \in Matching(q) : j \in Matching(q)'
  BY <1>2, <1>3, <1>4 DEF Matching, Readable
<1>6. \A j \in Matching(q) : Before(u, j, i) => Before(u, j, i)'
  BY <1>4 DEF Before
<1>7. B \in SUBSET C
  BY <1>5, <1>6
<1>8. IsFiniteSet(C)
  <2>1. C \in SUBSET (1..durable'[u])
    BY DEF Matching, Readable
  <2>2. IsFiniteSet(1..durable'[u])
    BY <1>2, FS_Interval
  <2> QED
    BY <2>1, <2>2, FS_Subset
<1>9. Cardinality(B) <= Cardinality(C)
  BY <1>7, <1>8, FS_Subset
<1>10. Rank(q, i) = Cardinality(B) /\ Rank(q, i)' = Cardinality(C)
  BY DEF Rank
<1>11. Rank(q, i) \in Nat /\ Rank(q, i)' \in Nat
  BY <1>1, <1>8, <1>10, RankOrder, FS_CardinalityType
<1>12. i \in 1..Len(log'[u])
  BY <1>1, <1>2, <1>3 DEF DurableBound, Shape, TypeOK
<1> QED
  BY <1>4, <1>5, <1>9, <1>10, <1>11, <1>12

-----------------------------------------------------------------------------
(* The reader.  What it has seen of the documents it expects are those     *)
(* with a rank before the end of its page; commits and failovers only      *)
(* raise ranks, and the next page begins where this one ends or is an      *)
(* error.                                                                  *)

ReaderOK ==
    /\ code \in {"NONE", "OK", "INTERNAL_ERROR"}
    /\ rows \in Seq(Entry)
    /\ seen \subseteq Entry
    /\ expected \subseteq Entry
    /\ code = "NONE" => query = NoQuery
    /\ code # "NONE" => IsQuery(query) /\ Len(rows) <= LimitOf(query)
    /\ code = "OK" => OffsetOf(query) >= 0

\* The expected documents are still there.
ExpectedMatches ==
    code = "OK" =>
        \A e \in expected : \E i \in Matching(query) : e = log[query.user][i]

\* The ones before the end of the page have been shown.
ShownToEndOfPage ==
    code = "OK" =>
        \A i \in Matching(query) :
            /\ log[query.user][i] \in expected
            /\ Rank(query, i) < OffsetOf(query) + Len(rows)
            => log[query.user][i] \in seen

ReaderInv == ReaderOK /\ ExpectedMatches /\ ShownToEndOfPage /\ PagesMissNothing

LEMMA ReaderWrite ==
    ASSUME IInv, IInv', StampsOK, ReaderInv, Write
    PROVE  ReaderInv'
<1>1. UNCHANGED <<query, code, rows, seen, expected>>
  BY DEF Write, reader
<1>2. ReaderOK' /\ PagesMissNothing'
  BY <1>1 DEF ReaderInv, ReaderOK, PagesMissNothing, LimitOf, OffsetOf, IsQuery, Wrap
<1>3. ASSUME code = "OK"
      PROVE  \A i \in Matching(query) :
                /\ i \in Matching(query)'
                /\ i \in 1..Len(log'[query.user])
                /\ log'[query.user][i] = log[query.user][i]
                /\ Rank(query, i) \in Nat /\ Rank(query, i)' \in Nat
                /\ Rank(query, i) <= Rank(query, i)'
  <2>1. PICK q : q = query
    OBVIOUS
  <2>2. IsQuery(q)
    BY <1>3, <2>1 DEF ReaderInv, ReaderOK
  <2>3. \A i \in Matching(q) : /\ i \in Matching(q)'
                               /\ i \in 1..Len(log'[q.user])
                               /\ log'[q.user][i] = log[q.user][i]
                               /\ Rank(q, i) \in Nat /\ Rank(q, i)' \in Nat
                               /\ Rank(q, i) <= Rank(q, i)'
    BY <2>2, RanksGrow
  <2> QED
    BY <1>1, <2>1, <2>3
<1>4. ExpectedMatches'
  BY <1>1, <1>3, Zenon DEF ReaderInv, ExpectedMatches
<1>5. ShownToEndOfPage'
  <2> SUFFICES ASSUME code = "OK", NEW i \in Matching(query)',
                      log'[query.user][i] \in expected,
                      Rank(query, i)' < OffsetOf(query) + Len(rows)
               PROVE  log'[query.user][i] \in seen
    BY <1>1 DEF ShownToEndOfPage, OffsetOf, LimitOf, Wrap
  <2>1. PICK j \in Matching(query) : log'[query.user][i] = log[query.user][j]
    BY DEF ReaderInv, ExpectedMatches
  <2>2. /\ j \in 1..Len(log'[query.user])
        /\ log'[query.user][j] = log'[query.user][i]
        /\ Rank(query, j) \in Nat /\ Rank(query, j)' \in Nat
        /\ Rank(query, j) <= Rank(query, j)'
    BY <1>3, <2>1
  <2>3. query.user \in Users /\ i \in 1..Len(log'[query.user])
    <3>1. query.user \in Users
      BY DEF ReaderInv, ReaderOK, IsQuery
    <3>2. i \in 1..durable'[query.user]
      BY <1>1 DEF Matching, Readable
    <3> QED
      BY <3>1, <3>2 DEF IInv, Shape, TypeOK, DurableBound
  <2>4. i = j
    BY <2>2, <2>3, Zenon DEF IInv, KeysOK, AtMostOnce
  <2>5. Rank(query, j) < OffsetOf(query) + Len(rows)
    <3>1. OffsetOf(query) \in Int /\ Len(rows) \in Int
      BY OffsetType, ListingAssumption DEF MinInt, ReaderInv, ReaderOK
    <3> QED
      BY <2>2, <2>4, <3>1
  <2> QED
    BY <2>1, <2>5 DEF ReaderInv, ShownToEndOfPage
<1> QED
  BY <1>2, <1>4, <1>5 DEF ReaderInv

\* A find changes nothing of the collection.
LEMMA ListKeeps ==
    ASSUME NEW q, List(q)
    PROVE  /\ UNCHANGED <<vars, log, durable, clock, stamp>>
           /\ IInv => IInv'
           /\ StampsOK => StampsOK'
           /\ Matching(q)' = Matching(q)
           /\ \A i : Rank(q, i)' = Rank(q, i)
<1>1. UNCHANGED <<vars, log, durable, clock, stamp>>
  BY DEF List, vars
<1>2. IInv => IInv'
  BY <1>1, NextIInv
<1>3. StampsOK => StampsOK'
  BY <1>1 DEF StampsOK
<1>4. Matching(q)' = Matching(q)
  BY <1>1 DEF Matching, Readable
<1>5. \A i, j : Before(q.user, j, i)' = Before(q.user, j, i)
  BY <1>1 DEF Before, CreatedAt
<1>6. \A i : Rank(q, i)' = Rank(q, i)
  BY <1>4, <1>5 DEF Rank
<1> QED
  BY <1>1, <1>2, <1>3, <1>4, <1>6

\* A page that begins where the ones before it ended.
LEMMA PageContinues ==
    ASSUME IInv, StampsOK, NEW q, IsQuery(q), List(q),
           \A e \in expected' : \E i \in Matching(q) : e = log[q.user][i],
           code' = "OK" =>
               \A i \in Matching(q) :
                   log[q.user][i] \in expected' /\ Rank(q, i) < OffsetOf(q)
                   => log[q.user][i] \in seen',
           Range(rows') \subseteq seen',
           seen' \subseteq seen \cup Range(rows'),
           seen \subseteq Entry
    PROVE  ReaderInv'
<1>1. /\ query' = q
      /\ UNCHANGED <<vars, log, durable, clock, stamp>>
      /\ Matching(q)' = Matching(q)
      /\ \A i : Rank(q, i)' = Rank(q, i)
  BY ListKeeps DEF List
<1>2. Shape /\ \A i \in Matching(q) : log[q.user][i] \in Entry /\ Rank(q, i) \in Nat
  BY MatchingFacts, RankOrder DEF IInv
<1>3. /\ OffsetOf(q) \in Int
      /\ LimitOf(q) \in Nat \ {0}
      /\ code' = "OK" => OffsetOf(q) >= 0 /\ rows' = Find(q)
      /\ code' # "OK" => code' = "INTERNAL_ERROR" /\ rows' = <<>>
  BY OffsetType, LimitType, ListingAssumption DEF List, MinInt
<1>4. /\ rows' \in Seq(Entry)
      /\ Len(rows') <= LimitOf(q)
      /\ Len(rows') \in Nat
      /\ \A e \in Range(rows') : e \in Entry
  <2>1. CASE code' = "OK"
    BY <1>2, <1>3, <2>1, PageOfRanks, MatchingFacts
  <2>2. CASE code' # "OK"
    <3>1. rows' = <<>>
      BY <1>3, <2>2
    <3>2. Range(rows') = {}
      BY <3>1 DEF Range
    <3> QED
      BY <1>3, <3>1, <3>2
  <2> QED
    BY <2>1, <2>2
<1>5. ReaderOK'
  BY <1>1, <1>2, <1>3, <1>4 DEF ReaderOK, LimitOf, OffsetOf, IsQuery, Wrap
<1>6. ExpectedMatches'
  BY <1>1 DEF ExpectedMatches
<1>7. ASSUME code' = "OK", NEW i \in Matching(q), log[q.user][i] \in expected',
             Rank(q, i) < OffsetOf(q) + LimitOf(q)
      PROVE  log[q.user][i] \in seen'
  <2>1. CASE Rank(q, i) < OffsetOf(q)
    BY <1>7, <2>1
  <2>2. CASE OffsetOf(q) <= Rank(q, i)
    BY <1>2, <1>3, <1>7, <2>2, PageOfRanks
  <2> QED
    BY <1>2, <1>3, <2>1, <2>2
<1>8. ShownToEndOfPage'
  <2> SUFFICES ASSUME code' = "OK", NEW i \in Matching(q), log[q.user][i] \in expected',
                      Rank(q, i) < OffsetOf(q) + Len(rows')
               PROVE  log[q.user][i] \in seen'
    BY <1>1 DEF ShownToEndOfPage, OffsetOf, LimitOf, Wrap
  <2>1. Rank(q, i) < OffsetOf(q) + LimitOf(q)
    BY <1>2, <1>3, <1>4
  <2> QED
    BY <1>7, <2>1
<1>9. PagesMissNothing'
  <2> SUFFICES ASSUME code' = "OK", Len(rows') < LimitOf(q), NEW e \in expected'
               PROVE  e \in seen'
    BY <1>1 DEF PagesMissNothing, LimitOf
  <2>1. PICK i \in Matching(q) : e = log[q.user][i]
    OBVIOUS
  <2>2. Rank(q, i) < OffsetOf(q) + LimitOf(q)
    BY <1>2, <1>3, PageOfRanks
  <2> QED
    BY <1>7, <2>1, <2>2
<1> QED
  BY <1>5, <1>6, <1>8, <1>9 DEF ReaderInv

LEMMA ReaderAsk ==
    ASSUME IInv, StampsOK, ReaderInv, NEW q \in Queries, Ask(q)
    PROVE  ReaderInv'
<1>1. IsQuery(q) /\ List(q)
  BY ListingAssumption DEF Ask
<1>2. seen' = Range(rows') /\ seen \subseteq Entry
  BY DEF Ask, ReaderInv, ReaderOK
<1>3. \A e \in expected' : \E i \in Matching(q) : e = log[q.user][i]
  BY DEF Ask
<1>4. \A i \in Matching(q) : log[q.user][i] \in expected' => OffsetOf(q) = 0
  BY DEF Ask
<1>5. \A i \in Matching(q) : Rank(q, i) \in Nat
  BY <1>1, RankOrder DEF IInv
<1>6. \A i \in Matching(q) :
         log[q.user][i] \in expected' /\ Rank(q, i) < OffsetOf(q)
         => log[q.user][i] \in seen'
  BY <1>4, <1>5
<1> QED
  BY <1>1, <1>2, <1>3, <1>6, PageContinues

LEMMA ReaderTurnPage ==
    ASSUME IInv, StampsOK, ReaderInv, TurnPage
    PROVE  ReaderInv'
<1> DEFINE q == [query EXCEPT !.page = @ + 1]
           off == OffsetOf(query)
           l == LimitOf(query)
<1>1. /\ code = "OK"
      /\ Parses(query.page) /\ query.page < MaxInt
      /\ Len(rows) = l
      /\ List(q)
      /\ seen' = seen \cup Range(rows')
      /\ expected' = expected
  BY DEF TurnPage
<1>2. IsQuery(query) /\ off >= 0 /\ seen \subseteq Entry
  BY <1>1 DEF ReaderInv, ReaderOK
<1>3. /\ IsQuery(q)
      /\ q.user = query.user /\ q.type = query.type /\ q.limit = query.limit
      /\ q.page = query.page + 1
  BY <1>2 DEF IsQuery
<1> HIDE DEF q
<1>4. /\ LimitOf(q) = l
      /\ Matching(q) = Matching(query)
      /\ \A i : Rank(q, i) = Rank(query, i)
  BY <1>3 DEF LimitOf, Matching, Rank
<1>5. /\ query.page \in Int /\ query.page # Missing
      /\ q.page \in Int /\ q.page # Missing /\ Parses(q.page)
      /\ l \in 1..MaxInt /\ off \in 0..MaxInt
      /\ MaxInt \in Nat
  BY <1>1, <1>2, <1>3, LimitType, OffsetType, ListingAssumption DEF Parses, MinInt
<1>6. code' = "OK" => OffsetOf(q) = 0 \/ OffsetOf(q) = off + l
  <2> SUFFICES ASSUME code' = "OK", query.page >= 1
               PROVE  OffsetOf(q) = off + l
    BY <1>3, <1>5 DEF OffsetOf
  <2> DEFINE p == query.page - 1
  <2>1. OffsetOf(q) >= 0
    BY <1>1 DEF List
  <2>2. p \in Int /\ p * l \in Int /\ query.page * l = p * l + l
    <3>1. p \in Int /\ query.page = p + 1
      BY <1>5
    <3>2. \A x \in Int, y \in Int : x * y \in Int /\ (x + 1) * y = x * y + y
      BY SMT
    <3> QED
      BY <1>5, <3>1, <3>2
  <2>3. off = Wrap(p * l)
    <3>1. CASE query.page > 1
      BY <1>5, <3>1, <1>1 DEF OffsetOf
    <3>2. CASE query.page = 1
      <4>1. off = 0 /\ p = 0
        BY <1>5, <3>2 DEF OffsetOf
      <4>2. p * l = 0 /\ 0 \in 0..MaxInt
        BY <1>5, <4>1
      <4> QED
        BY <4>1, <4>2, WrapFacts
    <3> QED
      BY <1>5, <3>1, <3>2
  <2>4. OffsetOf(q) = Wrap(query.page * l)
    BY <1>3, <1>4, <1>5 DEF OffsetOf
  <2>5. OffsetOf(q) = Wrap(off + l)
    <3>1. l \in Int
      BY <1>5
    <3>2. Wrap(p * l + l) = Wrap(Wrap(p * l) + l)
      BY <2>2, <3>1, WrapFacts, Zenon
    <3> QED
      BY <2>2, <2>3, <2>4, <3>2, Zenon
  <2>6. off + l <= MaxInt
    <3>1. off + l \in Nat /\ off + l <= 2 * MaxInt + 1
      BY <1>5
    <3>2. ASSUME off + l > MaxInt
          PROVE  FALSE
      <4>1. off + l \in (MaxInt + 1)..(2 * MaxInt + 1)
        BY <1>5, <3>1, <3>2
      <4>2. Wrap(off + l) < 0
        BY <4>1, WrapFacts, Zenon
      <4>3. OffsetOf(q) \in Int
        BY OffsetType, <1>5 DEF MinInt
      <4> QED
        BY <2>1, <2>5, <4>2, <4>3
    <3> QED
      BY <1>5, <3>1, <3>2
  <2> QED
    BY <1>5, <2>5, <2>6, WrapFacts
<1>7. \A e \in expected' : \E i \in Matching(q) : e = log[q.user][i]
  BY <1>1, <1>3, <1>4 DEF ReaderInv, ExpectedMatches
<1>8. \A i \in Matching(q) : Rank(q, i) \in Nat
  BY <1>3, RankOrder DEF IInv
<1>9. code' = "OK" =>
         \A i \in Matching(q) :
            log[q.user][i] \in expected' /\ Rank(q, i) < OffsetOf(q)
            => log[q.user][i] \in seen'
  BY <1>1, <1>3, <1>4, <1>6, <1>8 DEF ReaderInv, ShownToEndOfPage
<1> QED
  BY <1>1, <1>2, <1>3, <1>7, <1>9, PageContinues

-----------------------------------------------------------------------------
(* The order of the listing and the order of the ledger.  While the        *)
(* primary does not change, a draft remembers a length of the ledger: the  *)
(* one at the moment it was stamped, when the wallet had the balance it    *)
(* starts from, and when whatever was committed had an older stamp.        *)

\* The balance after the first k transactions of u.
BalanceAt(u, k) == IF k = 0 THEN 0 ELSE log[u][k].after

\* The draft of r may still be committed.
LiveDraft(r) == pc[r] \in {"update", "insert", "ack"} \/ txn[r] # "none"

StampedAt(r, k) ==
    /\ k \in 0..Len(log[UserOf(r)])
    /\ draft[r].before = BalanceAt(UserOf(r), k)
    /\ \A i \in 1..k : CreatedAt(UserOf(r), i) <= stamp[r]

DraftOrigin ==
    failovers = 0 => \A r \in Requests : LiveDraft(r) => \E k \in Nat : StampedAt(r, k)

OrderInv == DraftOrigin /\ OrderDiffersAcrossEqualBalances

\* The draft of a request is either drawn, on the balance of the wallet, or
\* the one it was.
DrawsDraft(r) ==
    /\ pc[r] = "loop" /\ pc'[r] = "update"
    /\ draft'[r].before = balance[UserOf(r)]
    /\ log' = log

KeepsDraft(r) ==
    /\ ~(pc[r] = "loop" /\ pc'[r] = "update")
    /\ LiveDraft(r)' => LiveDraft(r) /\ draft'[r] = draft[r]

LEMMA LocalDraft ==
    ASSUME IInv, NEW r \in Requests, Local(r)
    PROVE  DrawsDraft(r) \/ KeepsDraft(r)
<1> USE DEF KeepsDraft, LiveDraft, sessions, documents, environment, Goto, Answer
<1>1. /\ pc \in [Requests -> Labels]
      /\ txn \in [Requests -> {"none", "open", "committing"}]
      /\ draft \in [Requests -> Entry \cup {NoTx}]
  BY DEF IInv, Shape, TypeOK
<1>2. log' = log /\ balance' = balance
  BY FrameLocal DEF IInv, Money, Framed
<1>3. CASE Submit(r) \/ Lookup(r) \/ LeaveLoop(r) \/ ReadWalletFails(r)
  BY <1>1, <1>3 DEF Submit, Lookup, LeaveLoop, ReadWalletFails, AnswerStored, CallFails
<1>4. CASE ReadWallet(r)
  <2> DEFINE b == balance'[UserOf(r)]
  <2>1. CASE NewTransactionError(r, b) # "NONE"
    BY <1>1, <1>4, <2>1 DEF ReadWallet
  <2>2. CASE NewTransactionError(r, b) = "NONE"
    <3>1. draft' = [draft EXCEPT ![r] = NewTransaction(r, b)] /\ pc[r] = "loop"
          /\ pc' = [pc EXCEPT ![r] = "update"]
      BY <1>4, <2>2 DEF ReadWallet
    <3>2. draft'[r].before = balance[UserOf(r)]
      BY <1>1, <1>2, <3>1 DEF NewTransaction
    <3> QED
      BY <1>1, <1>2, <3>1, <3>2 DEF DrawsDraft
  <2> QED
    BY <2>1, <2>2
<1>5. CASE UpdateWallet(r) \/ UpdateConflict(r) \/ UpdateFails(r)
  BY <1>1, <1>5 DEF UpdateWallet, UpdateConflict, UpdateFails, TransientError, CallFails
<1>6. CASE InsertTransaction(r) \/ InsertDuplicate(r) \/ InsertFails(r)
  BY <1>1, <1>6 DEF InsertTransaction, InsertDuplicate, InsertFails, TransientError,
     CallFails, Abort
<1>7. CASE Ack(r) \/ AckFails(r)
  BY <1>1, <1>7 DEF Ack, AckFails, TransientError, CallFails
<1>8. CASE Relookup(r) \/ Backoff(r)
  BY <1>1, <1>8 DEF Relookup, Backoff, AnswerStored
<1>9. CASE Cancel(r) \/ Crash(r) \/ ExpireTxn(r)
  BY <1>1, <1>9 DEF Cancel, Crash, ExpireTxn, Abort
<1> QED
  BY <1>3, <1>4, <1>5, <1>6, <1>7, <1>8, <1>9 DEF Local, Step

LEMMA DraftFate ==
    ASSUME IInv, [Next]_vars, NEW r \in Requests
    PROVE  DrawsDraft(r) \/ KeepsDraft(r)
<1>1. ASSUME NEW q \in Requests, Local(q)
      PROVE  DrawsDraft(r) \/ KeepsDraft(r)
  <2>1. CASE q = r
    BY <1>1, <2>1, LocalDraft
  <2>2. CASE q # r
    <3>1. pc'[r] = pc[r] /\ txn'[r] = txn[r] /\ draft'[r] = draft[r]
      BY <1>1, <2>2, FrameLocal DEF IInv, Money, Framed
    <3> QED
      BY <3>1 DEF KeepsDraft, LiveDraft
  <2> QED
    BY <2>1, <2>2
<1>2. ASSUME NEW q \in Requests, ServerCommit(q)
      PROVE  KeepsDraft(r)
  BY <1>2 DEF ServerCommit, Abort, KeepsDraft, LiveDraft, IInv, Shape, TypeOK
<1>3. ASSUME NEW u \in Users, TouchWallet(u) \/ Replicate(u)
      PROVE  KeepsDraft(r)
  BY <1>3 DEF TouchWallet, Replicate, KeepsDraft, LiveDraft, sessions
<1>4. CASE Failover
  BY <1>4 DEF Failover, KeepsDraft, LiveDraft
<1>5. CASE Finished \/ UNCHANGED vars
  BY <1>5 DEF Finished, vars, KeepsDraft, LiveDraft
<1> QED
  BY <1>1, <1>2, <1>3, <1>4, <1>5 DEF Next, Step, Server, Local

\* Without a failover the ledgers only grow, by a commit at a time.
LEMMA LogSteps ==
    ASSUME IInv, [Next]_vars, failovers' = 0
    PROVE  /\ failovers = 0
           /\ log' = log \/ \E r \in Requests : ServerCommit(r)
<1>1. failovers \in Nat
  BY BoundsAssumption DEF IInv, Shape, TypeOK
<1>2. ASSUME NEW r \in Requests, Local(r)
      PROVE  log' = log /\ failovers' = failovers
  BY <1>2, FrameLocal DEF IInv, Money, Framed
<1>3. ASSUME NEW r \in Requests, ServerCommit(r)
      PROVE  failovers' = failovers
  BY <1>3 DEF ServerCommit, environment
<1>4. ASSUME NEW u \in Users, TouchWallet(u) \/ Replicate(u)
      PROVE  log' = log /\ failovers' = failovers
  BY <1>4 DEF TouchWallet, Replicate, environment
<1>5. ~Failover
  BY <1>1 DEF Failover
<1>6. Finished \/ UNCHANGED vars => log' = log /\ failovers' = failovers
  BY DEF Finished, vars
<1> QED
  BY <1>2, <1>3, <1>4, <1>5, <1>6 DEF Next, Step, Server, Local

\* A commit puts the draft at the end of its user's ledger, and nothing else.
LEMMA CommitAppends ==
    ASSUME IInv, NEW r \in Requests, ServerCommit(r)
    PROVE  /\ Len(log'[UserOf(r)]) = Len(log[UserOf(r)]) + 1
           /\ log'[UserOf(r)][Len(log[UserOf(r)]) + 1] = draft[r]
           /\ \A i \in 1..Len(log[UserOf(r)]) : log'[UserOf(r)][i] = log[UserOf(r)][i]
           /\ \A u \in Users \ {UserOf(r)} : log'[u] = log[u]
<1>1. /\ log' = [log EXCEPT ![UserOf(r)] = Append(@, draft[r])]
      /\ UserOf(r) \in Users
      /\ log \in [Users -> Seq(Entry)]
      /\ draft[r] \in Entry
  BY ReqFields DEF ServerCommit, IInv, Shape, TypeOK, ControlOK, IsDraft
<1>2. /\ log[UserOf(r)] \in Seq(Entry)
      /\ log'[UserOf(r)] = Append(log[UserOf(r)], draft[r])
      /\ \A u \in Users \ {UserOf(r)} : log'[u] = log[u]
  BY <1>1
<1> QED
  BY <1>1, <1>2

LEMMA LogGrows ==
    ASSUME IInv, [Next]_vars, failovers' = 0, NEW u \in Users
    PROVE  /\ Len(log[u]) \in Nat /\ Len(log'[u]) \in Nat
           /\ Len(log[u]) <= Len(log'[u])
           /\ \A i \in 1..Len(log[u]) : log'[u][i] = log[u][i]
<1>1. log[u] \in Seq(Entry) /\ Len(log[u]) \in Nat
  BY DEF IInv, Shape, TypeOK
<1>2. CASE log' = log
  BY <1>1, <1>2
<1>3. ASSUME NEW r \in Requests, ServerCommit(r)
      PROVE  /\ Len(log'[u]) = Len(log[u]) \/ Len(log'[u]) = Len(log[u]) + 1
             /\ \A i \in 1..Len(log[u]) : log'[u][i] = log[u][i]
  BY <1>3, CommitAppends
<1> QED
  BY <1>1, <1>2, <1>3, LogSteps

\* The balance of a wallet is the one its whole ledger leaves.
LEMMA BalanceAtEnd ==
    ASSUME IInv, NEW u \in Users
    PROVE  balance[u] = BalanceAt(u, Len(log[u]))
BY DEF IInv, Money, BalanceIsLedger, BalanceOf, BalanceAt

LEMMA OriginWrite ==
    ASSUME IInv, StampsOK, DraftOrigin, Write
    PROVE  DraftOrigin'
<1> SUFFICES ASSUME failovers' = 0, NEW r \in Requests, LiveDraft(r)'
             PROVE  \E k \in Nat : StampedAt(r, k)'
  BY DEF DraftOrigin
<1> DEFINE u == UserOf(r)
<1>1. [Next]_vars /\ failovers = 0 /\ u \in Users
  BY LogSteps, ReqFields DEF Write
<1>2. /\ Len(log[u]) \in Nat /\ Len(log'[u]) \in Nat
      /\ Len(log[u]) <= Len(log'[u])
      /\ \A i \in 1..Len(log[u]) : log'[u][i] = log[u][i]
  BY <1>1, LogGrows
<1>3. \A k \in 0..Len(log[u]) : BalanceAt(u, k)' = BalanceAt(u, k)
  BY <1>2 DEF BalanceAt
<1>4. \A i \in 1..Len(log[u]) : CreatedAt(u, i)' = CreatedAt(u, i)
  BY <1>1, <1>2, WriteStamps DEF CreatedAt
<1>5. CASE DrawsDraft(r)
  <2> PICK k \in Nat : k = Len(log[u])
    BY <1>2
  <2>1. draft'[r].before = BalanceAt(u, k)'
    BY <1>1, <1>2, <1>3, <1>5, BalanceAtEnd DEF DrawsDraft
  <2>2. stamp'[r] = clock' /\ clock <= clock'
    BY <1>5, WriteStamps DEF DrawsDraft
  <2>3. \A i \in 1..k : CreatedAt(u, i) <= clock
    <3> SUFFICES ASSUME NEW i \in 1..k
                 PROVE  stamp[log[u][i].by] <= clock
      BY DEF CreatedAt
    <3>1. log[u][i].by \in Requests
      BY <1>1, CommittedPast
    <3> QED
      BY <3>1, ListingAssumption DEF StampsOK
  <2>4. \A i \in 1..k : CreatedAt(u, i)' <= stamp'[r]
    <3>1. \A i \in 1..k : CreatedAt(u, i) \in Int
      BY <1>1, CommittedPast, ListingAssumption DEF StampsOK, CreatedAt
    <3>2. clock \in Int /\ clock' \in Int
      BY WriteStamps, ListingAssumption DEF StampsOK
    <3> QED
      BY <1>4, <2>2, <2>3, <3>1, <3>2
  <2>5. StampedAt(r, k)'
    BY <1>2, <2>1, <2>4 DEF StampedAt
  <2> QED
    BY <1>2, <2>5
<1>6. CASE KeepsDraft(r)
  <2>1. LiveDraft(r) /\ draft'[r] = draft[r]
    BY <1>6 DEF KeepsDraft
  <2>2. stamp'[r] = stamp[r]
    BY <1>6, WriteStamps DEF KeepsDraft
  <2>3. PICK k \in Nat : StampedAt(r, k)
    BY <1>1, <2>1 DEF DraftOrigin
  <2>4. k \in 0..Len(log[u]) /\ \A i \in 1..k : i \in 1..Len(log[u])
    BY <1>2, <2>3 DEF StampedAt
  <2>5. StampedAt(r, k)'
    BY <1>2, <1>3, <1>4, <2>1, <2>2, <2>3, <2>4 DEF StampedAt
  <2> QED
    BY <2>5
<1> QED
  BY <1>1, <1>5, <1>6, DraftFate

\* What is committed out of order was stamped on an equal balance before.
LEMMA OrderWrite ==
    ASSUME IInv, IInv', StampsOK, OrderInv, Write
    PROVE  OrderDiffersAcrossEqualBalances'
<1> SUFFICES ASSUME failovers' = 0, NEW u \in Users, NEW j \in 1..Len(log'[u]),
                    NEW i \in 1..(j - 1), CreatedAt(u, j)' < CreatedAt(u, i)'
             PROVE  \E k \in 0..(i - 1) : log'[u][j - 1].after = BalanceAt(u, k)'
  BY DEF OrderDiffersAcrossEqualBalances, BalanceAt
<1>1. [Next]_vars /\ failovers = 0
  BY LogSteps DEF Write
<1>2. /\ Len(log[u]) \in Nat /\ Len(log'[u]) \in Nat
      /\ Len(log[u]) <= Len(log'[u])
      /\ \A n \in 1..Len(log[u]) : log'[u][n] = log[u][n]
  BY <1>1, LogGrows
<1>3. \A k \in 0..Len(log[u]) : BalanceAt(u, k)' = BalanceAt(u, k)
  BY <1>2 DEF BalanceAt
<1>4. \A n \in 1..Len(log[u]) : CreatedAt(u, n)' = CreatedAt(u, n)
  BY <1>1, <1>2, WriteStamps DEF CreatedAt
<1>5. CASE j \in 1..Len(log[u])
  <2>1. j - 1 \in 1..Len(log[u]) /\ i \in 1..Len(log[u])
    BY <1>2, <1>5
  <2>2. CreatedAt(u, j) < CreatedAt(u, i)
    BY <1>4, <1>5, <2>1
  <2>3. PICK k \in 0..(i - 1) : log[u][j - 1].after = BalanceAt(u, k)
    BY <1>1, <1>5, <2>2 DEF OrderInv, OrderDiffersAcrossEqualBalances, BalanceAt
  <2>4. k \in 0..Len(log[u])
    BY <1>2, <2>1
  <2> QED
    BY <1>2, <1>3, <2>1, <2>3, <2>4
<1>6. CASE j \notin 1..Len(log[u])
  <2>1. PICK r \in Requests : ServerCommit(r)
    <3>1. log' # log
      BY <1>6
    <3> QED
      BY <1>1, <3>1, LogSteps
  <2>2. /\ u = UserOf(r)
        /\ j = Len(log[u]) + 1
        /\ log'[u][j] = draft[r]
    BY <1>2, <1>6, <2>1, CommitAppends
  <2>3. LiveDraft(r) /\ draft[r].by = r /\ balance[u] = draft[r].before
    <3>1. txn[r] = "committing"
      BY <2>1 DEF ServerCommit
    <3>2. draft[r] = NewTransaction(r, draft[r].before)
      BY <3>1 DEF IInv, Shape, ControlOK, IsDraft
    <3>3. draft[r].by = r
      BY <3>2 DEF NewTransaction
    <3> QED
      BY <2>2, <3>1, <3>3 DEF LiveDraft, IInv, Money, OpenDraftsAreFresh
  <2>4. PICK k \in Nat : StampedAt(r, k)
    BY <1>1, <2>3 DEF OrderInv, DraftOrigin
  <2>5. stamp'[r] = stamp[r]
    BY <2>1, WriteStamps DEF ServerCommit
  <2>6. CreatedAt(u, j)' = stamp[r]
    BY <2>2, <2>3, <2>5 DEF CreatedAt
  <2>7. i \in 1..Len(log[u])
    BY <1>2, <2>2
  <2>8. ~(i \in 1..k)
    <3>1. stamp[r] < CreatedAt(u, i)
      BY <1>4, <2>6, <2>7
    <3>2. stamp[r] \in Int /\ CreatedAt(u, i) \in Int
      BY <2>7, CommittedPast, ListingAssumption DEF StampsOK, CreatedAt
    <3> QED
      BY <2>2, <2>4, <3>1, <3>2 DEF StampedAt
  <2>9. k \in 0..(i - 1) /\ k \in 0..Len(log[u])
    BY <1>2, <2>7, <2>8
  <2>10. log'[u][j - 1].after = balance[u]
    <3>1. j - 1 = Len(log[u]) /\ Len(log[u]) # 0
      BY <1>2, <2>2, <2>7
    <3>2. balance[u] = log[u][Len(log[u])].after
      BY <3>1, BalanceAtEnd DEF BalanceAt
    <3> QED
      BY <1>2, <2>7, <3>1, <3>2
  <2>11. balance[u] = BalanceAt(u, k)'
    BY <1>3, <2>2, <2>3, <2>4, <2>9 DEF StampedAt
  <2> QED
    BY <2>9, <2>10, <2>11
<1> QED
  BY <1>5, <1>6

-----------------------------------------------------------------------------
(* A page whose offset fits an int64 is a slice of the listing.            *)

LEMMA OffsetOfPage ==
    ASSUME NEW q, q.page # Missing, Parses(q.page), q.page >= 1,
           (q.page - 1) * LimitOf(q) <= MaxInt
    PROVE  /\ q.page - 1 \in Nat
           /\ OffsetOf(q) = (q.page - 1) * LimitOf(q)
<1>1. q.page - 1 \in Nat /\ LimitOf(q) \in Nat \ {0} /\ MaxInt \in Nat
  BY LimitType, ListingAssumption DEF Parses, MinInt
<1>2. (q.page - 1) * LimitOf(q) \in 0..MaxInt
  BY <1>1, PageOfPlace
<1>3. CASE q.page > 1
  <2>1. OffsetOf(q) = Wrap((q.page - 1) * LimitOf(q))
    BY <1>3 DEF OffsetOf
  <2> QED
    BY <1>1, <1>2, <2>1, WrapFacts
<1>4. CASE q.page = 1
  <2>1. OffsetOf(q) = 0
    BY <1>4 DEF OffsetOf
  <2>2. q.page - 1 = 0
    BY <1>4
  <2>3. 0 * LimitOf(q) = 0
    BY <1>1
  <2> QED
    BY <1>1, <2>1, <2>2, <2>3
<1>5. q.page > 1 \/ q.page = 1
  BY ListingAssumption DEF Parses, MinInt
<1> QED
  BY <1>1, <1>3, <1>4, <1>5

LEMMA PageIsSlice ==
    ASSUME IInv, StampsOK, NEW q, IsQuery(q), OffsetOf(q) >= 0,
           q.page # Missing, Parses(q.page), q.page >= 1,
           (q.page - 1) * LimitOf(q) <= MaxInt,
           NEW i \in Matching(q)
    PROVE  log[q.user][i] \in Range(Find(q)) <=> Rank(q, i) \div LimitOf(q) = q.page - 1
<1> DEFINE off == OffsetOf(q)
           l == LimitOf(q)
           e == log[q.user][i]
<1>1. /\ Shape /\ q.user \in Users
      /\ q.page - 1 \in Nat /\ off = (q.page - 1) * l
      /\ l \in Nat \ {0} /\ Rank(q, i) \in Nat
  BY OffsetOfPage, LimitType, RankOrder, MatchingFacts DEF IInv
<1>2. Rank(q, i) \div l = q.page - 1 <=> off <= Rank(q, i) /\ Rank(q, i) < off + l
  BY <1>1, PageOfPlace
<1>3. ASSUME off <= Rank(q, i), Rank(q, i) < off + l
      PROVE  e \in Range(Find(q))
  BY <1>1, <1>3, PageOfRanks
<1>4. ASSUME e \in Range(Find(q))
      PROVE  off <= Rank(q, i) /\ Rank(q, i) < off + l
  <2>1. PICK j \in Matching(q) : /\ e = log[q.user][j]
                                 /\ off <= Rank(q, j)
                                 /\ Rank(q, j) < off + l
    BY <1>1, <1>4, PageOfRanks
  <2>2. i \in 1..Len(log[q.user]) /\ j \in 1..Len(log[q.user])
    BY <1>1, MatchingFacts
  <2>3. i = j
    BY <1>1, <2>1, <2>2, PlacesDiffer
  <2> QED
    BY <2>1, <2>3
<1> QED
  BY <1>2, <1>3, <1>4

-----------------------------------------------------------------------------
(* The invariant and the theorems.                                         *)

ListingIInv == IInv /\ StampsOK /\ ReaderInv /\ OrderInv

LEMMA InitListing == ListingInit => ListingIInv
<1> SUFFICES ASSUME ListingInit PROVE ListingIInv
  OBVIOUS
<1>1. IInv
  BY InitIInv DEF ListingInit
<1>2. StampsOK
  BY ListingAssumption DEF ListingInit, StampsOK
<1>3. ReaderInv
  <2>1. code = "NONE" /\ query = NoQuery /\ rows = <<>> /\ seen = {} /\ expected = {}
    BY DEF ListingInit
  <2>2. ReaderOK
    BY <2>1 DEF ReaderOK
  <2>3. ExpectedMatches /\ ShownToEndOfPage /\ PagesMissNothing
    BY <2>1 DEF ExpectedMatches, ShownToEndOfPage, PagesMissNothing
  <2> QED
    BY <2>2, <2>3 DEF ReaderInv
<1>4. \A u \in Users : Len(log[u]) = 0
  <2>1. \A u \in Users : log[u] = <<>>
    BY Zenon DEF ListingInit, Init
  <2> QED
    BY <2>1, EmptySeq, Zenon
<1>5. \A r \in Requests : ~LiveDraft(r)
  <2>1. pc = [r \in Requests |-> "idle"] /\ txn = [r \in Requests |-> "none"]
    BY DEF ListingInit, Init
  <2>2. \A r \in Requests : pc[r] = "idle" /\ txn[r] = "none"
    BY <2>1
  <2> QED
    BY <2>2 DEF LiveDraft
<1>6. OrderInv
  <2>1. DraftOrigin
    BY <1>5 DEF DraftOrigin
  <2>2. OrderDiffersAcrossEqualBalances
    BY <1>4 DEF OrderDiffersAcrossEqualBalances
  <2> QED
    BY <2>1, <2>2 DEF OrderInv
<1> QED
  BY <1>1, <1>2, <1>3, <1>6 DEF ListingIInv

\* What the collection and the stamps determine is kept with them.
LEMMA OrderKept ==
    ASSUME OrderInv, UNCHANGED <<vars, stamp>>
    PROVE  OrderInv'
BY DEF OrderInv, DraftOrigin, OrderDiffersAcrossEqualBalances, StampedAt, LiveDraft,
       BalanceAt, CreatedAt, vars

LEMMA NextListing ==
    ASSUME ListingIInv, [ListingNext]_listingVars
    PROVE  ListingIInv'
<1> USE DEF ListingIInv
<1>1. CASE Write
  <2>1. IInv'
    BY <1>1, NextIInv DEF Write
  <2>2. StampsOK' /\ ReaderInv'
    BY <1>1, <2>1, WriteStamps, ReaderWrite
  <2>3. OrderInv'
    BY <1>1, <2>1, OriginWrite, OrderWrite DEF OrderInv
  <2> QED
    BY <2>1, <2>2, <2>3
<1>2. ASSUME NEW q, List(q)
      PROVE  IInv' /\ StampsOK' /\ OrderInv'
  <2>1. UNCHANGED <<vars, stamp>>
    BY <1>2 DEF List
  <2> QED
    BY <1>2, <2>1, ListKeeps, OrderKept
<1>3. CASE TurnPage
  BY <1>2, <1>3, ReaderTurnPage DEF TurnPage
<1>4. ASSUME NEW q \in Queries, Ask(q)
      PROVE  ListingIInv'
  BY <1>2, <1>4, ReaderAsk DEF Ask
<1>5. CASE UNCHANGED listingVars
  <2>1. UNCHANGED <<vars, clock, stamp, log, durable, query, code, rows, seen, expected>>
    BY <1>5 DEF listingVars, vars, reader
  <2>2. IInv' /\ StampsOK' /\ OrderInv'
    BY <2>1, NextIInv, OrderKept DEF StampsOK
  <2>3. ReaderInv'
    BY <2>1 DEF ReaderInv, ReaderOK, ExpectedMatches, ShownToEndOfPage, PagesMissNothing,
       Rank, Matching, Readable, Before, CreatedAt, LimitOf, OffsetOf, IsQuery, Wrap
  <2> QED
    BY <2>2, <2>3
<1> QED
  BY <1>1, <1>3, <1>4, <1>5 DEF ListingNext

LEMMA ListingInvariant == ListingSpec => []ListingIInv
BY InitListing, NextListing, PTL DEF ListingSpec

\* The variables of the reader and of the clock keep their types, for every
\* set of query strings and every width of the integers; a page is never
\* longer than its limit.
THEOREM ListingTyping == ListingSpec => []ListingTypeOK
<1>1. ListingIInv => ListingTypeOK
  BY DEF ListingIInv, ReaderInv, ReaderOK, StampsOK, ListingTypeOK
<1> QED
  BY <1>1, ListingInvariant, PTL

\* A reader that turns pages to the end misses nothing that was there when it
\* began, whatever is committed or lost in between.
THEOREM ReaderMissesNothing == ListingSpec => []PagesMissNothing
<1>1. ListingIInv => PagesMissNothing
  BY DEF ListingIInv, ReaderInv
<1> QED
  BY <1>1, ListingInvariant, PTL

\* The listing only disagrees with the ledger across equal balances.
THEOREM ListingOrder == ListingSpec => []OrderDiffersAcrossEqualBalances
<1>1. ListingIInv => OrderDiffersAcrossEqualBalances
  BY DEF ListingIInv, OrderInv
<1> QED
  BY <1>1, ListingInvariant, PTL

\* A page is the documents whose places are on it, and no others.
THEOREM PageContents == ListingSpec => PagesAreSlices
<1>1. ASSUME ListingIInv, [ListingNext]_listingVars, query' # query, code' = "OK",
             query'.page # Missing, Parses(query'.page), query'.page >= 1,
             (query'.page - 1) * LimitOf(query') <= MaxInt,
             NEW i \in Matching(query')
      PROVE  log[query'.user][i] \in Range(rows')
             <=> Cardinality({j \in Matching(query') : Before(query'.user, j, i)})
                    \div LimitOf(query') = query'.page - 1
  <2>1. PICK q : q = query'
    OBVIOUS
  <2>2. IsQuery(q) /\ List(q)
    <3>1. CASE Write \/ UNCHANGED listingVars
      BY <1>1, <3>1 DEF Write, listingVars, reader
    <3>2. CASE TurnPage
      <4>1. IsQuery(query)
        BY <1>1, <3>2 DEF TurnPage, ListingIInv, ReaderInv, ReaderOK
      <4> QED
        BY <2>1, <3>2, <4>1 DEF TurnPage, List, IsQuery
    <3>3. CASE \E p \in Queries : Ask(p)
      BY <2>1, <3>3, ListingAssumption DEF Ask, List
    <3> QED
      BY <1>1, <3>1, <3>2, <3>3 DEF ListingNext
  <2>3. OffsetOf(q) >= 0 /\ rows' = Find(q)
    BY <1>1, <2>2 DEF List
  <2>4. log[q.user][i] \in Range(Find(q)) <=> Rank(q, i) \div LimitOf(q) = q.page - 1
    BY <1>1, <2>1, <2>2, <2>3, PageIsSlice DEF ListingIInv
  <2> QED
    BY <2>1, <2>3, <2>4 DEF Rank
<1>2. ListingIInv /\ [ListingNext]_listingVars =>
        [ LET q == query'
              u == q.user
              Place(i) == {j \in Matching(q) : Before(u, j, i)}
          IN /\ query' # query /\ code' = "OK"
             /\ q.page # Missing /\ Parses(q.page) /\ q.page >= 1
             /\ (q.page - 1) * LimitOf(q) <= MaxInt
             => \A i \in Matching(q) :
                   log[u][i] \in Range(rows')
                   <=> Cardinality(Place(i)) \div LimitOf(q) = q.page - 1 ]_listingVars
  BY <1>1
<1> QED
  BY <1>2, ListingInvariant, PTL DEF ListingSpec, PagesAreSlices

\* A listing reads and never writes: what is proved of WalletService holds
\* with readers as well.
THEOREM ListingIsService == ListingSpec => Spec
<1>1. ListingInit => Init
  BY DEF ListingInit
<1>2. [ListingNext]_listingVars => [Next]_vars
  BY DEF ListingNext, Write, TurnPage, Ask, List, listingVars
<1> QED
  BY <1>1, <1>2, PTL DEF ListingSpec, Spec
=============================================================================
