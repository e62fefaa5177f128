-------------------------- MODULE RetrievalProofs --------------------------
(***************************************************************************)
(* What is proved of Retrieval for every value of the constants: that no   *)
(* chunk without a row or of another workspace is answered, that fusion    *)
(* respects both searches, that the cut to top_k keeps the best and that a *)
(* query nothing disturbs finds as many chunks as it should.               *)
(***************************************************************************)
EXTENDS Retrieval, FiniteSetTheorems, SequenceTheorems, TLAPS

-----------------------------------------------------------------------------
(* Sorting a finite set.                                                    *)

TotalOrder(S, R) ==
  /\ \A x \in S : <<x, x>> \notin R
  /\ \A x, y \in S : x # y => <<x, y>> \in R \/ <<y, x>> \in R
  /\ \A x, y, z \in S : <<x, y>> \in R /\ <<y, z>> \in R => <<x, z>> \in R

Before(S, R, x) == {y \in S : <<y, x>> \in R}

LEMMA PlaceIsBelow ==
  ASSUME NEW S, IsFiniteSet(S), NEW R, TotalOrder(S, R), NEW x \in S
  PROVE  /\ IsFiniteSet(Before(S, R, x))
         /\ Cardinality(Before(S, R, x)) \in 0..(Cardinality(S) - 1)
<1>1. Before(S, R, x) \in SUBSET S /\ x \notin Before(S, R, x)
  BY DEF Before, TotalOrder
<1>2. /\ IsFiniteSet(Before(S, R, x))
      /\ Cardinality(Before(S, R, x)) <= Cardinality(S)
      /\ Cardinality(S) = Cardinality(Before(S, R, x)) => S = Before(S, R, x)
  BY <1>1, FS_Subset
<1>3. Cardinality(Before(S, R, x)) # Cardinality(S)
  BY <1>1, <1>2
<1>4. Cardinality(Before(S, R, x)) \in Nat /\ Cardinality(S) \in Nat
  BY <1>2, FS_CardinalityType
<1> QED
  BY <1>2, <1>3, <1>4

LEMMA PlaceGrows ==
  ASSUME NEW S, IsFiniteSet(S), NEW R, TotalOrder(S, R), NEW x \in S, NEW y \in S,
         <<x, y>> \in R
  PROVE  Cardinality(Before(S, R, x)) < Cardinality(Before(S, R, y))
<1>1. /\ Before(S, R, x) \in SUBSET Before(S, R, y)
      /\ x \in Before(S, R, y) /\ x \notin Before(S, R, x)
  BY DEF Before, TotalOrder
<1>2. IsFiniteSet(Before(S, R, y)) /\ IsFiniteSet(Before(S, R, x))
  BY PlaceIsBelow
<1>3. /\ Cardinality(Before(S, R, x)) <= Cardinality(Before(S, R, y))
      /\ Cardinality(Before(S, R, y)) = Cardinality(Before(S, R, x))
           => Before(S, R, y) = Before(S, R, x)
  BY <1>1, <1>2, FS_Subset
<1>4. Cardinality(Before(S, R, x)) \in Nat /\ Cardinality(Before(S, R, y)) \in Nat
  BY <1>2, FS_CardinalityType
<1> QED
  BY <1>1, <1>3, <1>4

\* Every place is taken by exactly one member.
LEMMA PlacesAreTaken ==
  ASSUME NEW S, IsFiniteSet(S), NEW R, TotalOrder(S, R)
  PROVE  /\ \A i \in 1..Cardinality(S) :
              \E x \in S : Cardinality(Before(S, R, x)) = i - 1
         /\ \A x, y \in S :
              Cardinality(Before(S, R, x)) = Cardinality(Before(S, R, y)) => x = y
<1> DEFINE n == Cardinality(S)
           place == [x \in S |-> Cardinality(Before(S, R, x))]
<1>1. n \in Nat
  BY FS_CardinalityType
<1>2. \A x \in S : place[x] \in 0..(n - 1)
  BY PlaceIsBelow
<1>3. \A x, y \in S : place[x] = place[y] => x = y
  <2> SUFFICES ASSUME NEW x \in S, NEW y \in S, x # y PROVE place[x] # place[y]
    OBVIOUS
  <2>1. CASE <<x, y>> \in R
    BY <2>1, <1>2, PlaceGrows
  <2>2. CASE <<y, x>> \in R
    BY <2>2, <1>2, PlaceGrows
  <2> QED
    BY <2>1, <2>2 DEF TotalOrder
<1>4. place \in Injection(S, 0..(n - 1))
  BY <1>2, <1>3 DEF Injection, IsInjective
<1>5. IsFiniteSet(0..(n - 1)) /\ Cardinality(0..(n - 1)) = n
  BY <1>1, FS_Interval
<1>6. place \in Surjection(S, 0..(n - 1))
  BY <1>4, <1>5, FS_Injection
<1>7. \A i \in 1..n : i - 1 \in 0..(n - 1)
  BY <1>1
<1> QED
  BY <1>3, <1>6, <1>7 DEF Surjection

\* Sorted lists every member once, and in order.
LEMMA SortedSorts ==
  ASSUME NEW S, IsFiniteSet(S), NEW R, TotalOrder(S, R)
  PROVE  /\ Sorted(S, R) \in [1..Cardinality(S) -> S]
         /\ \A x \in S : \E i \in 1..Cardinality(S) : Sorted(S, R)[i] = x
         /\ \A i, j \in 1..Cardinality(S) :
              Sorted(S, R)[i] = Sorted(S, R)[j] => i = j
         /\ \A i, j \in 1..Cardinality(S) :
              i < j => <<Sorted(S, R)[i], Sorted(S, R)[j]>> \in R
<1> DEFINE n == Cardinality(S)
           s == Sorted(S, R)
           place(x) == Cardinality(Before(S, R, x))
<1>1. n \in Nat
  BY FS_CardinalityType
<1>2. /\ DOMAIN s = 1..n
      /\ \A i \in 1..n : s[i] = CHOOSE x \in S : place(x) = i - 1
  BY DEF Sorted, Before
<1>3. \A i \in 1..n : s[i] \in S /\ place(s[i]) = i - 1
  BY <1>2, PlacesAreTaken
<1>4. s \in [1..n -> S]
  BY <1>2, <1>3 DEF Sorted
<1>5. ASSUME NEW x \in S PROVE \E i \in 1..n : s[i] = x
  <2>1. place(x) + 1 \in 1..n /\ place(x) \in Nat
    BY <1>1, PlaceIsBelow
  <2>2. place(s[place(x) + 1]) = place(x) /\ s[place(x) + 1] \in S
    BY <2>1, <1>3
  <2> QED
    BY <2>1, <2>2, PlacesAreTaken
<1>6. ASSUME NEW i \in 1..n, NEW j \in 1..n, s[i] = s[j] PROVE i = j
  BY <1>3, <1>6
<1>7. ASSUME NEW i \in 1..n, NEW j \in 1..n, i < j PROVE <<s[i], s[j]>> \in R
  <2>1. s[i] \in S /\ s[j] \in S /\ place(s[i]) = i - 1 /\ place(s[j]) = j - 1
    BY <1>3
  <2>2. s[i] # s[j]
    BY <2>1, <1>7
  <2>3. <<s[j], s[i]>> \notin R
    BY <2>1, <1>7, PlaceGrows
  <2> QED
    BY <2>1, <2>2, <2>3 DEF TotalOrder
<1> QED
  BY <1>4, <1>5, <1>6, <1>7

-----------------------------------------------------------------------------
(* Fractions: cross-multiplying compares them as long as no denominator is  *)
(* zero.                                                                    *)

Fraction == [num : Nat, den : Nat \ {0}]

LEMMA Times ==
  ASSUME NEW a \in Nat, NEW b \in Nat
  PROVE  /\ a * b \in Nat
         /\ a # 0 /\ b # 0 => a * b # 0
  OBVIOUS

LEMMA TimesMonotone ==
  ASSUME NEW a \in Nat, NEW b \in Nat, NEW c \in Nat
  PROVE  /\ a <= b => a * c <= b * c
         /\ a < b /\ c # 0 => a * c < b * c
  OBVIOUS

LEMMA TimesCancels ==
  ASSUME NEW a \in Nat, NEW b \in Nat, NEW c \in Nat \ {0}
  PROVE  /\ a * c <= b * c => a <= b
         /\ a * c < b * c => a < b
<1>1. b < a => b * c < a * c
  BY TimesMonotone
<1>2. b <= a => b * c <= a * c
  BY TimesMonotone
<1>3. a * c \in Nat /\ b * c \in Nat
  BY Times
<1> QED
  BY <1>1, <1>2, <1>3

LEMMA Exchange ==
  ASSUME NEW a \in Nat, NEW b \in Nat, NEW c \in Nat
  PROVE  (a * b) * c = (a * c) * b
  OBVIOUS

LEMMA LessIsAnOrder ==
  ASSUME NEW x \in Fraction, NEW y \in Fraction, NEW z \in Fraction
  PROVE  /\ ~ Less(x, x)
         /\ Less(x, y) => ~ Less(y, x)
         /\ Less(x, y) /\ Less(y, z) => Less(x, z)
         /\ ~ Less(y, x) /\ ~ Less(z, y) => ~ Less(z, x)
<1> DEFINE a == x.num  b == y.num  c == z.num
           d == x.den  e == y.den  f == z.den
<1>1. /\ a \in Nat /\ b \in Nat /\ c \in Nat
      /\ d \in Nat \ {0} /\ e \in Nat \ {0} /\ f \in Nat \ {0}
  BY DEF Fraction
<1>2. /\ Less(x, x) <=> a * d < a * d
      /\ Less(x, y) <=> a * e < b * d
      /\ Less(y, x) <=> b * d < a * e
      /\ Less(y, z) <=> b * f < c * e
      /\ Less(z, y) <=> c * e < b * f
      /\ Less(x, z) <=> a * f < c * d
      /\ Less(z, x) <=> c * d < a * f
  BY DEF Less
<1> HIDE DEF a, b, c, d, e, f
<1>3. /\ a * d \in Nat /\ a * e \in Nat /\ b * d \in Nat /\ b * f \in Nat
      /\ c * e \in Nat /\ a * f \in Nat /\ c * d \in Nat
  BY <1>1, Times
<1>4. /\ (a * e) * f = (a * f) * e
      /\ (b * d) * f = (b * f) * d
      /\ (c * e) * d = (c * d) * e
  BY <1>1, Exchange
<1>5. /\ (a * f) * e \in Nat /\ (b * f) * d \in Nat /\ (c * d) * e \in Nat
  BY <1>1, <1>3, Times
<1>6. ASSUME a * e < b * d, b * f < c * e PROVE a * f < c * d
  <2>1. (a * e) * f < (b * d) * f
    BY <1>1, <1>3, <1>6, TimesMonotone
  <2>2. (b * f) * d < (c * e) * d
    BY <1>1, <1>3, <1>6, TimesMonotone
  <2>3. (a * f) * e < (c * d) * e
    BY <1>4, <1>5, <2>1, <2>2
  <2> QED
    BY <1>1, <1>3, <2>3, TimesCancels
<1>7. ASSUME a * e <= b * d, b * f <= c * e PROVE a * f <= c * d
  <2>1. (a * e) * f <= (b * d) * f
    BY <1>1, <1>3, <1>7, TimesMonotone
  <2>2. (b * f) * d <= (c * e) * d
    BY <1>1, <1>3, <1>7, TimesMonotone
  <2>3. (a * f) * e <= (c * d) * e
    BY <1>4, <1>5, <2>1, <2>2
  <2> QED
    BY <1>1, <1>3, <2>3, TimesCancels
<1> QED
  BY <1>2, <1>3, <1>6, <1>7

\* A sum grows with its terms.
LEMMA PlusIsMonotone ==
  ASSUME NEW x \in Fraction, NEW y \in Fraction, NEW u \in Fraction, NEW v \in Fraction,
         ~ Less(u, x), ~ Less(v, y)
  PROVE  /\ Plus(x, y) \in Fraction
         /\ Less(x, u) \/ Less(y, v) => Less(Plus(x, y), Plus(u, v))
<1> DEFINE a == x.num  b == y.num  c == u.num  g == v.num
           d == x.den  e == y.den  f == u.den  h == v.den
           left == (a * f) * (e * h)
           right == (b * h) * (d * f)
           left2 == (c * d) * (e * h)
           right2 == (g * e) * (d * f)
<1>1. /\ a \in Nat /\ b \in Nat /\ c \in Nat /\ g \in Nat
      /\ d \in Nat \ {0} /\ e \in Nat \ {0} /\ f \in Nat \ {0} /\ h \in Nat \ {0}
  BY DEF Fraction
<1>2. /\ Plus(x, y) = [num |-> a * e + b * d, den |-> d * e]
      /\ Plus(u, v) = [num |-> c * h + g * f, den |-> f * h]
  BY DEF Plus
<1>3. /\ a * f <= c * d /\ b * h <= g * e
      /\ Less(x, u) => a * f < c * d
      /\ Less(y, v) => b * h < g * e
  <2> HIDE DEF a, b, c, d, e, f, g, h
  <2>1. /\ Less(u, x) <=> c * d < a * f
        /\ Less(v, y) <=> g * e < b * h
        /\ Less(x, u) <=> a * f < c * d
        /\ Less(y, v) <=> b * h < g * e
    BY DEF Less, a, b, c, d, e, f, g, h
  <2>2. a * f \in Nat /\ c * d \in Nat /\ b * h \in Nat /\ g * e \in Nat
    BY <1>1, Times
  <2> QED
    BY <2>1, <2>2
<1> HIDE DEF a, b, c, d, e, f, g, h
<1>4. /\ a * e \in Nat /\ b * d \in Nat /\ c * h \in Nat /\ g * f \in Nat
      /\ d * e \in Nat /\ f * h \in Nat /\ e * h \in Nat /\ d * f \in Nat
      /\ a * f \in Nat /\ c * d \in Nat /\ b * h \in Nat /\ g * e \in Nat
      /\ d * e # 0 /\ f * h # 0 /\ e * h # 0 /\ d * f # 0
  BY <1>1, Times
<1>5. Plus(x, y) \in Fraction
  BY <1>2, <1>4 DEF Fraction
<1>6. Less(Plus(x, y), Plus(u, v)) <=>
        (a * e + b * d) * (f * h) < (c * h + g * f) * (d * e)
  BY <1>2 DEF Less
<1>7. /\ (a * e + b * d) * (f * h) = left + right
      /\ (c * h + g * f) * (d * e) = left2 + right2
  BY ONLY <1>1
<1>8. left \in Nat /\ right \in Nat /\ left2 \in Nat /\ right2 \in Nat
  BY <1>4, Times
<1>9. /\ left <= left2 /\ right <= right2
      /\ Less(x, u) => left < left2
      /\ Less(y, v) => right < right2
  BY <1>3, <1>4, TimesMonotone
<1> HIDE DEF left, right, left2, right2
<1> QED
  BY <1>5, <1>6, <1>7, <1>8, <1>9

-----------------------------------------------------------------------------
(* Ranks and the fused order.                                               *)

\* A list that repeats nothing.
Lists == {l \in Seq(Chunks) : \A i, j \in DOMAIN l : l[i] = l[j] => i = j}

LEMMA RankIsThePlace ==
  ASSUME NEW l \in Lists, NEW id
  PROVE  /\ Rank(l, id) \in 0..Len(l) /\ Len(l) \in Nat
         /\ id \in ToSet(l) <=> Rank(l, id) # 0
         /\ Rank(l, id) # 0 => l[Rank(l, id)] = id
         /\ \A i \in DOMAIN l : l[i] = id => Rank(l, id) = i
<1>1. l \in Seq(Chunks) /\ DOMAIN l = 1..Len(l) /\ Len(l) \in Nat
  BY LenProperties DEF Lists
<1>2. CASE \E i \in DOMAIN l : l[i] = id
  <2>1. Rank(l, id) \in DOMAIN l /\ l[Rank(l, id)] = id
    BY <1>2 DEF Rank
  <2> QED
    BY <1>1, <2>1 DEF Lists, ToSet
<1>3. CASE ~ \E i \in DOMAIN l : l[i] = id
  BY <1>1, <1>3 DEF Rank, ToSet
<1> QED
  BY <1>2, <1>3

LEMMA ShareFalls ==
  ASSUME NEW r \in Nat, NEW s \in Nat
  PROVE  /\ Share(r) \in Fraction
         /\ AtLeast(r, s) => ~ Less(Share(r), Share(s))
         /\ AtLeast(r, s) /\ r # s => Less(Share(s), Share(r))
<1>1. RRFK \in Nat
  BY RetrievalAssumption DEF RetrievalAssumption
<1>2. Share(r) \in Fraction /\ Share(s) \in Fraction
  BY <1>1 DEF Share, Fraction
<1> DEFINE num(k) == IF k = 0 THEN 0 ELSE 1
           den(k) == IF k = 0 THEN 1 ELSE RRFK + k
<1>3. /\ Share(r).num = num(r) /\ Share(r).den = den(r)
      /\ Share(s).num = num(s) /\ Share(s).den = den(s)
  BY DEF Share
<1>4. /\ Less(Share(r), Share(s)) <=> num(r) * den(s) < num(s) * den(r)
      /\ Less(Share(s), Share(r)) <=> num(s) * den(r) < num(r) * den(s)
  BY <1>3 DEF Less
<1>5. /\ num(r) * den(s) = (IF r = 0 THEN 0 ELSE den(s))
      /\ num(s) * den(r) = (IF s = 0 THEN 0 ELSE den(r))
  BY <1>1
<1>6. /\ AtLeast(r, s) => ~ (num(r) * den(s) < num(s) * den(r))
      /\ AtLeast(r, s) /\ r # s => num(s) * den(r) < num(r) * den(s)
  BY <1>1, <1>5 DEF AtLeast
<1> QED
  BY <1>2, <1>4, <1>6

LEMMA FusedIsAFraction ==
  ASSUME NEW q, q.vector \in Lists, q.lexical \in Lists, NEW id
  PROVE  Fused(q, id) \in Fraction
<1>1. Rank(q.vector, id) \in Nat /\ Rank(q.lexical, id) \in Nat
  BY RankIsThePlace
<1>2. /\ Share(Rank(q.vector, id)) \in Fraction
      /\ Share(Rank(q.lexical, id)) \in Fraction
  BY <1>1, ShareFalls
<1>3. /\ ~ Less(Share(Rank(q.vector, id)), Share(Rank(q.vector, id)))
      /\ ~ Less(Share(Rank(q.lexical, id)), Share(Rank(q.lexical, id)))
  BY <1>2, LessIsAnOrder
<1> QED
  BY <1>2, <1>3, PlusIsMonotone DEF Fused

\* What both searches rank at least as well, one of them better, has the
\* higher score.
LEMMA BetterRanksFuseHigher ==
  ASSUME NEW q, q.vector \in Lists, q.lexical \in Lists, NEW a, NEW b,
         AtLeast(Rank(q.vector, b), Rank(q.vector, a)),
         AtLeast(Rank(q.lexical, b), Rank(q.lexical, a)),
         \/ Rank(q.vector, b) # Rank(q.vector, a)
         \/ Rank(q.lexical, b) # Rank(q.lexical, a)
  PROVE  Less(Fused(q, a), Fused(q, b))
<1> DEFINE va == Rank(q.vector, a)   vb == Rank(q.vector, b)
           la == Rank(q.lexical, a)  lb == Rank(q.lexical, b)
<1>1. va \in Nat /\ vb \in Nat /\ la \in Nat /\ lb \in Nat
  BY RankIsThePlace
<1>2. /\ Share(va) \in Fraction /\ Share(vb) \in Fraction
      /\ Share(la) \in Fraction /\ Share(lb) \in Fraction
      /\ ~ Less(Share(vb), Share(va)) /\ ~ Less(Share(lb), Share(la))
      /\ vb # va => Less(Share(va), Share(vb))
      /\ lb # la => Less(Share(la), Share(lb))
  BY <1>1, ShareFalls
<1>3. Less(Plus(Share(va), Share(la)), Plus(Share(vb), Share(lb)))
  BY <1>2, PlusIsMonotone
<1> QED
  BY <1>3 DEF Fused

LEMMA IdsIndexTellsApart ==
  ASSUME NEW q, q.vector \in Lists, q.lexical \in Lists, NEW a \in Ids(q)
  PROVE  /\ IdsIndex(q, a) \in Nat
         /\ \A b \in Ids(q) : IdsIndex(q, a) = IdsIndex(q, b) => a = b
<1>1. \A c \in Ids(q) :
        /\ Rank(q.vector, c) \in 0..Len(q.vector) /\ Len(q.vector) \in Nat
        /\ Rank(q.lexical, c) \in Nat
        /\ c \in ToSet(q.vector) => /\ Rank(q.vector, c) # 0
                                    /\ q.vector[Rank(q.vector, c)] = c
        /\ c \notin ToSet(q.vector) => /\ Rank(q.lexical, c) # 0
                                       /\ q.lexical[Rank(q.lexical, c)] = c
  BY RankIsThePlace DEF Ids
<1>2. IdsIndex(q, a) \in Nat
  BY <1>1 DEF IdsIndex
<1>3. ASSUME NEW b \in Ids(q), IdsIndex(q, a) = IdsIndex(q, b) PROVE a = b
  <2>1. CASE a \in ToSet(q.vector) /\ b \in ToSet(q.vector)
    BY <1>1, <1>3, <2>1 DEF IdsIndex
  <2>2. CASE a \in ToSet(q.vector) /\ b \notin ToSet(q.vector)
    BY <1>1, <1>3, <2>2 DEF IdsIndex
  <2>3. CASE a \notin ToSet(q.vector) /\ b \in ToSet(q.vector)
    BY <1>1, <1>3, <2>3 DEF IdsIndex
  <2>4. CASE a \notin ToSet(q.vector) /\ b \notin ToSet(q.vector)
    BY <1>1, <1>3, <2>4 DEF IdsIndex
  <2> QED
    BY <2>1, <2>2, <2>3, <2>4
<1> QED
  BY <1>2, <1>3

FusedOrder(q, found) == {pair \in found \X found : Precedes(q, pair[1], pair[2])}

\* The order of the candidates decides between any two of them.
LEMMA FusedOrderIsTotal ==
  ASSUME NEW q, q.vector \in Lists, q.lexical \in Lists, NEW found \in SUBSET Ids(q)
  PROVE  TotalOrder(found, FusedOrder(q, found))
<1> DEFINE R == FusedOrder(q, found)
           F(c) == Fused(q, c)
           K(c) == IdsIndex(q, c)
<1>1. \A a, b \in found : <<a, b>> \in R <=>
        \/ Less(F(b), F(a))
        \/ ~ Less(F(a), F(b)) /\ K(a) < K(b)
  BY DEF FusedOrder, Precedes
<1>2. \A c \in found : F(c) \in Fraction /\ K(c) \in Nat
  BY FusedIsAFraction, IdsIndexTellsApart
<1>3. \A a, b \in found : K(a) = K(b) => a = b
  BY IdsIndexTellsApart
<1> HIDE DEF F, K, R
<1>4. ASSUME NEW a \in found PROVE <<a, a>> \notin R
  <2>1. ~ Less(F(a), F(a))
    BY <1>2, LessIsAnOrder
  <2> QED
    BY <1>1, <1>2, <2>1
<1>5. ASSUME NEW a \in found, NEW b \in found, a # b
      PROVE  <<a, b>> \in R \/ <<b, a>> \in R
  <2>1. K(a) < K(b) \/ K(b) < K(a)
    BY <1>2, <1>3, <1>5
  <2> QED
    BY <1>1, <2>1
<1>6. ASSUME NEW a \in found, NEW b \in found, NEW c \in found,
             <<a, b>> \in R, <<b, c>> \in R
      PROVE  <<a, c>> \in R
  <2>1. /\ F(a) \in Fraction /\ F(b) \in Fraction /\ F(c) \in Fraction
        /\ K(a) \in Nat /\ K(b) \in Nat /\ K(c) \in Nat
    BY <1>2
  <2>2. ~ Less(F(a), F(b)) /\ ~ Less(F(b), F(c))
    BY <1>1, <1>6, <2>1, LessIsAnOrder
  <2>3. ~ Less(F(a), F(c))
    BY <2>1, <2>2, LessIsAnOrder
  <2>4. CASE Less(F(c), F(a))
    BY <1>1, <2>4
  <2>5. CASE ~ Less(F(c), F(a))
    <3>1. ~ Less(F(b), F(a))
      BY <2>1, <2>2, <2>5, LessIsAnOrder
    <3>2. ~ Less(F(c), F(b))
      BY <2>1, <2>2, <2>5, LessIsAnOrder
    <3>3. K(a) < K(b) /\ K(b) < K(c)
      BY <1>1, <1>6, <3>1, <3>2
    <3> QED
      BY <1>1, <2>1, <2>3, <3>3
  <2> QED
    BY <2>4, <2>5
<1> QED
  BY <1>4, <1>5, <1>6 DEF TotalOrder, R

-----------------------------------------------------------------------------
(* The lists of a query.                                                    *)

LEMMA ListIsAFunction ==
  ASSUME NEW n \in Nat, NEW T, NEW f \in [1..n -> T]
  PROVE  f \in Seq(T) /\ Len(f) = n /\ DOMAIN f = 1..n
  OBVIOUS

\* A search answers as many as it may and finds, all different.
LEMMA RankingsAreLists ==
  ASSUME NEW S \in SUBSET Chunks, NEW n \in Nat, NEW l \in Rankings(S, n)
  PROVE  /\ l \in Lists /\ ToSet(l) \subseteq S
         /\ IsFiniteSet(ToSet(l)) /\ Cardinality(ToSet(l)) = Len(l)
         /\ Len(l) = Smaller(n, Cardinality(S)) /\ Cardinality(S) \in Nat
<1>1. IsFiniteSet(S) /\ Cardinality(S) \in Nat
  BY FS_Subset, FS_CardinalityType, RetrievalAssumption DEF RetrievalAssumption
<1> DEFINE k == IF n < Cardinality(S) THEN n ELSE Cardinality(S)
<1>2. k \in Nat /\ k = Smaller(n, Cardinality(S))
  BY <1>1 DEF Smaller
<1>3. PICK T : T \in kSubset(k, S) /\ l \in SetToSeqs(T)
  BY DEF Rankings
<1>4. T \in SUBSET S /\ Cardinality(T) = k
  BY <1>3 DEF kSubset
<1>5. IsFiniteSet(T)
  BY <1>1, <1>4, FS_Subset
<1>6. /\ l \in [1..k -> T]
      /\ \A i, j \in 1..k : i # j => l[i] # l[j]
  BY <1>3, <1>4 DEF SetToSeqs
<1>7. l \in [1..k -> Chunks] /\ ToSet(l) \subseteq T
  BY <1>4, <1>6 DEF ToSet
<1>8. l \in Seq(Chunks) /\ Len(l) = k /\ DOMAIN l = 1..k
  BY <1>2, <1>7, ListIsAFunction
<1>9. l \in Lists
  BY <1>6, <1>8 DEF Lists
<1>10. l \in Bijection(1..k, ToSet(l))
  BY <1>6, <1>8 DEF Bijection, Injection, Surjection, IsInjective, ToSet
<1>11. IsFiniteSet(1..k) /\ Cardinality(1..k) = k
  BY <1>2, FS_Interval
<1>12. IsFiniteSet(ToSet(l)) /\ Cardinality(ToSet(l)) = k
  BY <1>10, <1>11, FS_Bijection DEF ExistsBijection
<1> QED
  BY <1>1, <1>2, <1>4, <1>7, <1>8, <1>9, <1>12

\* The candidates are the chunks found, each once, in the fused order.
LEMMA CandidatesAreSorted ==
  ASSUME NEW q, q.vector \in Lists, q.lexical \in Lists,
         NEW found \in SUBSET Ids(q), found \in SUBSET Chunks
  PROVE  LET c == Candidates(q, found) IN
         /\ c \in Lists /\ ToSet(c) = found
         /\ Len(c) = Cardinality(found) /\ Cardinality(found) \in Nat
         /\ \A i, j \in DOMAIN c : i < j => Precedes(q, c[i], c[j])
<1> DEFINE R == FusedOrder(q, found)
           c == Sorted(found, R)
           n == Cardinality(found)
<1>1. IsFiniteSet(found) /\ n \in Nat
  BY FS_Subset, FS_CardinalityType, RetrievalAssumption DEF RetrievalAssumption
<1>2. Candidates(q, found) = c
  BY DEF Candidates, FusedOrder
<1>3. TotalOrder(found, R)
  BY FusedOrderIsTotal
<1> HIDE DEF R, c
<1>4. /\ c \in [1..n -> found]
      /\ \A x \in found : \E i \in 1..n : c[i] = x
      /\ \A i, j \in 1..n : c[i] = c[j] => i = j
      /\ \A i, j \in 1..n : i < j => <<c[i], c[j]>> \in R
  BY <1>1, <1>3, SortedSorts DEF c
<1>5. c \in [1..n -> Chunks]
  BY <1>4
<1>6. c \in Seq(Chunks) /\ Len(c) = n /\ DOMAIN c = 1..n
  BY <1>1, <1>5, ListIsAFunction
<1>7. c \in Lists
  BY <1>4, <1>6 DEF Lists
<1>8. ToSet(c) = found
  BY <1>4, <1>6 DEF ToSet
<1>9. \A i, j \in DOMAIN c : i < j => Precedes(q, c[i], c[j])
  BY <1>4, <1>6 DEF R, FusedOrder
<1> QED
  BY <1>1, <1>2, <1>6, <1>7, <1>8, <1>9

ScoresOK(scores) == \A i \in DOMAIN scores : scores[i] \in Nat

AboveOrder(places, scores) ==
  {pair \in places \X places : Above(scores, pair[1], pair[2])}

LEMMA AboveIsTotal ==
  ASSUME NEW places \in SUBSET Nat, NEW scores, ScoresOK(scores)
  PROVE  TotalOrder(places, AboveOrder(places, scores))
<1> DEFINE R == AboveOrder(places, scores)
<1>1. \A i, j \in places : <<i, j>> \in R <=>
        \/ Score(scores, i) > Score(scores, j)
        \/ Score(scores, i) = Score(scores, j) /\ i < j
  BY DEF AboveOrder, Above
<1>2. \A i \in places : Score(scores, i) \in Nat
  BY DEF Score, ScoresOK
<1> HIDE DEF R
<1> QED
  BY <1>1, <1>2 DEF TotalOrder, R

Answer == [id : Chunks, scale : {"reranker", "cosine"}]

\* Reranking permutes the candidates into the order of their scores.
LEMMA RerankedIsSorted ==
  ASSUME NEW c \in Lists, NEW scores, ScoresOK(scores)
  PROVE  LET r == Reranked(c, scores) IN
         /\ r \in Seq(Answer) /\ Len(r) = Len(c) /\ Len(c) \in Nat
         /\ \A i \in 1..Len(c) : r[i].scale = "reranker"
         /\ \E order \in [1..Len(c) -> 1..Len(c)] :
              /\ \A i \in 1..Len(c) : r[i].id = c[order[i]]
              /\ \A k \in 1..Len(c) : \E i \in 1..Len(c) : order[i] = k
              /\ \A i, j \in 1..Len(c) : i < j => Above(scores, order[i], order[j])
<1> DEFINE n == Len(c)
           R == AboveOrder(1..n, scores)
           order == Sorted(1..n, R)
           r == Reranked(c, scores)
<1>1. c \in Seq(Chunks) /\ n \in Nat /\ DOMAIN c = 1..n
  BY LenProperties DEF Lists
<1>2. IsFiniteSet(1..n) /\ Cardinality(1..n) = n
  BY <1>1, FS_Interval
<1>3. r = [i \in 1..n |-> [id |-> c[order[i]], scale |-> "reranker"]]
  BY <1>1 DEF Reranked, AboveOrder, Scale
<1>4. TotalOrder(1..n, R)
  BY <1>1, AboveIsTotal
<1> HIDE DEF R, order, r, n
<1>5. /\ order \in [1..n -> 1..n]
      /\ \A k \in 1..n : \E i \in 1..n : order[i] = k
      /\ \A i, j \in 1..n : i < j => <<order[i], order[j]>> \in R
  <2> DEFINE places == 1..n
  <2>1. IsFiniteSet(places) /\ TotalOrder(places, R) /\ Cardinality(places) = n
    BY <1>2, <1>4
  <2> HIDE DEF places
  <2>2. /\ Sorted(places, R) \in [1..n -> places]
        /\ \A k \in places : \E i \in 1..n : Sorted(places, R)[i] = k
        /\ \A i, j \in 1..n :
             i < j => <<Sorted(places, R)[i], Sorted(places, R)[j]>> \in R
    BY <2>1, SortedSorts
  <2> QED
    BY <2>2 DEF order, places
<1>6. \A k \in 1..n : c[k] \in Chunks
  BY <1>1, ElementOfSeq DEF n
<1>7. r \in [1..n -> Answer]
  BY <1>3, <1>5, <1>6 DEF Answer
<1>8. r \in Seq(Answer) /\ Len(r) = n
  BY <1>1, <1>7, ListIsAFunction
<1>9. \A i \in 1..n : r[i].id = c[order[i]] /\ r[i].scale = "reranker"
  BY <1>3
<1>10. \A i, j \in 1..n : i < j => Above(scores, order[i], order[j])
  BY <1>5 DEF R, AboveOrder
<1> QED
  BY <1>1, <1>5, <1>8, <1>9, <1>10 DEF r, n

LEMMA UnrankedIsAList ==
  ASSUME NEW c \in Lists
  PROVE  /\ Unranked(c) \in Seq(Answer) /\ Len(Unranked(c)) = Len(c) /\ Len(c) \in Nat
         /\ \A i \in 1..Len(c) : /\ Unranked(c)[i].id = c[i]
                                 /\ Unranked(c)[i].scale = "cosine"
<1>1. c \in Seq(Chunks) /\ Len(c) \in Nat /\ DOMAIN c = 1..Len(c)
  BY LenProperties DEF Lists
<1>2. \A k \in 1..Len(c) : c[k] \in Chunks
  BY <1>1, ElementOfSeq
<1>3. Unranked(c) = [i \in 1..Len(c) |-> [id |-> c[i], scale |-> "cosine"]]
  BY <1>1 DEF Unranked
<1>4. Unranked(c) \in [1..Len(c) -> Answer]
  BY <1>2, <1>3 DEF Answer
<1> QED
  BY <1>1, <1>3, <1>4, ListIsAFunction

LEMMA TruncateIsAPrefix ==
  ASSUME NEW T, NEW l \in Seq(T), NEW k \in Nat
  PROVE  /\ Truncate(l, k) \in Seq(T)
         /\ Len(Truncate(l, k)) = Smaller(k, Len(l))
         /\ \A i \in 1..Smaller(k, Len(l)) : Truncate(l, k)[i] = l[i]
<1>1. Len(l) \in Nat /\ \A i \in 1..Len(l) : l[i] \in T
  BY LenProperties, ElementOfSeq
<1> DEFINE m == IF Len(l) > k THEN k ELSE Len(l)
<1>2. m \in Nat /\ m = Smaller(k, Len(l)) /\ m <= Len(l)
  BY <1>1 DEF Smaller
<1>3. Truncate(l, k) = SubSeq(l, 1, m)
  BY DEF Truncate
<1> HIDE DEF m
<1>4. \A i \in 1..m : l[i] \in T
  BY <1>1, <1>2
<1>5. /\ SubSeq(l, 1, m) \in Seq(T)
      /\ Len(SubSeq(l, 1, m)) = (IF 1 <= m THEN m - 1 + 1 ELSE 0)
      /\ \A i \in 1..(m - 1 + 1) : SubSeq(l, 1, m)[i] = l[1 + i - 1]
  BY <1>2, <1>4, SubSeqProperties
<1> QED
  BY <1>2, <1>3, <1>5

-----------------------------------------------------------------------------
(* The inductive invariant.  Once the chunk rows are read, the candidates   *)
(* are those found, in the fused order, and the answer is computed from     *)
(* them; while nothing has disturbed the query, what it has read so far is  *)
(* what the stores hold.                                                    *)

Pcs == {"idle", "resolve", "vector", "lexical", "load", "rerank", "answered",
        "degraded", "failed"}
PartialScores == UNION {[S -> Scores] : S \in SUBSET Nat}
QueryState ==
  [pc : Pcs, words : SUBSET Chunks, asked : Int, topK : Nat, collection : Collections,
   vector : Lists, lexical : Lists, candidates : Lists, loaded : SUBSET Chunks,
   scores : PartialScores, results : Seq(Answer)]

StoresOK ==
  /\ rows \in SUBSET Chunks /\ points \in [Collections -> SUBSET Chunks]
  /\ current \in Collections /\ quiet \in BOOLEAN

Found(q) == Own(Ids(q) \cap q.loaded)

RightTopK(q) == q.pc \in {"idle", "failed"} \/ q.topK = EffectiveTopK(q.asked)
Ordered(q) ==
  q.pc \in {"rerank", "answered", "degraded"} =>
    /\ ToSet(q.candidates) = Found(q) /\ Len(q.candidates) = Cardinality(Found(q))
    /\ \A i, j \in DOMAIN q.candidates :
         i < j => Precedes(q, q.candidates[i], q.candidates[j])
Outcome(q) ==
  /\ q.pc \notin {"answered", "degraded"} => q.results = <<>> /\ q.scores = <<>>
  /\ q.pc \notin {"rerank", "answered", "degraded"} =>
       q.candidates = <<>> /\ q.loaded = {}
  /\ q.pc = "answered" => q.results = Results(q, q.scores)
  /\ q.pc = "degraded" => q.results = Truncate(Unranked(q.candidates), q.topK)

Undisturbed(q, r, p, c) ==
  /\ q.pc \in {"vector", "lexical", "load", "rerank", "answered", "degraded"} =>
       q.collection = c
  /\ q.pc \in {"lexical", "load", "rerank", "answered", "degraded"} =>
       /\ ToSet(q.vector) \subseteq Own(p[c])
       /\ Cardinality(ToSet(q.vector)) =
            Smaller(candidatePoolSize(q.topK), Cardinality(Own(p[c])))
  /\ q.pc \in {"load", "rerank", "answered", "degraded"} =>
       ToSet(q.lexical) \subseteq r
  /\ q.pc \in {"rerank", "answered", "degraded"} => Found(q) = Own(Ids(q) \cap r)

QueryOK(q) == q \in QueryState /\ RightTopK(q) /\ Ordered(q) /\ Outcome(q)

RetrievalInv ==
  /\ StoresOK
  /\ QueryOK(query)
  /\ quiet => Undisturbed(query, rows, points, current)

LEMMA EmptyLists ==
  /\ <<>> \in Lists /\ ToSet(<<>>) = {} /\ <<>> \in PartialScores /\ <<>> \in Seq(Answer)
  /\ DOMAIN <<>> = {} /\ Len(<<>>) = 0
<1>1. <<>> \in Seq(Chunks) /\ <<>> \in Seq(Answer) /\ DOMAIN <<>> = {} /\ Len(<<>>) = 0
  BY EmptySeq
<1>2. <<>> \in [{} -> Scores]
  BY <1>1
<1> QED
  BY <1>1, <1>2 DEF Lists, ToSet, PartialScores

LEMMA TopKIsWanted ==
  ASSUME NEW k \in Int
  PROVE  /\ EffectiveTopK(k) \in Nat \ {0}
         /\ EffectiveTopK(k) = IF k <= 0 THEN DefaultTopK ELSE Smaller(k, MaxTopK)
         /\ candidatePoolSize(EffectiveTopK(k)) \in Nat
         /\ candidatePoolSize(EffectiveTopK(k)) >= MinPool
         /\ candidatePoolSize(EffectiveTopK(k)) >= PoolMultiplier * EffectiveTopK(k)
<1>1. /\ DefaultTopK \in Nat \ {0} /\ MaxTopK \in Nat \ {0} /\ DefaultTopK <= MaxTopK
      /\ PoolMultiplier \in Nat /\ MinPool \in Nat
  BY RetrievalAssumption DEF RetrievalAssumption
<1>2. /\ EffectiveTopK(k) \in Nat \ {0}
      /\ EffectiveTopK(k) = IF k <= 0 THEN DefaultTopK ELSE Smaller(k, MaxTopK)
  BY <1>1 DEF EffectiveTopK, Smaller
<1> DEFINE e == EffectiveTopK(k)
<1>3. e * PoolMultiplier \in Nat /\ e * PoolMultiplier = PoolMultiplier * e
  BY <1>1, <1>2
<1> HIDE DEF e
<1> QED
  BY <1>1, <1>2, <1>3 DEF candidatePoolSize, e

LEMMA NoQueryIsOK ==
  ASSUME NEW q, \/ q = NoQuery
                \/ q = [NoQuery EXCEPT !.pc = "failed"]
  PROVE  /\ QueryOK(q)
         /\ \A r, p, c : Undisturbed(q, r, p, c)
<1>1. NoQuery \in QueryState
  BY EmptyLists DEF NoQuery, QueryState, Pcs, Collections
<1>2. /\ NoQuery.pc = "idle" /\ NoQuery.results = <<>> /\ NoQuery.scores = <<>>
      /\ NoQuery.candidates = <<>> /\ NoQuery.loaded = {}
  BY DEF NoQuery
<1>3. /\ q \in QueryState /\ q.pc \in {"idle", "failed"}
      /\ q.results = <<>> /\ q.scores = <<>> /\ q.candidates = <<>> /\ q.loaded = {}
  BY <1>1, <1>2 DEF QueryState, Pcs
<1> QED
  BY <1>3 DEF QueryOK, RightTopK, Ordered, Outcome, Undisturbed

LEMMA InitInv == Init => RetrievalInv
<1> SUFFICES ASSUME Init PROVE RetrievalInv
  OBVIOUS
<1>1. StoresOK
  BY DEF Init, StoresOK, Collections
<1>2. QueryOK(query) /\ Undisturbed(query, rows, points, current)
  BY NoQueryIsOK DEF Init
<1> QED
  BY <1>1, <1>2 DEF RetrievalInv

\* Whatever the world does to the stores, the query keeps what it has read,
\* and is no longer undisturbed if a store has changed.
LEMMA WorldPreserves ==
  ASSUME RetrievalInv, World
  PROVE  RetrievalInv'
<1>1. StoresOK /\ QueryOK(query)
  BY DEF RetrievalInv
<1>2. query' = query
  BY DEF World, StartRun, DeleteChunks, DeleteSourceVectors, ChunkSource,
         UpsertChunkVectors, DeleteRow, RunFails, SetEmbedding, Changes
<1>3. Source \subseteq Chunks /\ Fresh \subseteq Chunks
  BY RetrievalAssumption DEF RetrievalAssumption, Source
<1>4. StoresOK' /\ (quiet' => quiet /\ UNCHANGED <<rows, points, current>>)
  <2>1. CASE StartRun
    BY <1>1, <2>1 DEF StartRun, StoresOK
  <2>2. CASE DeleteChunks
    BY <1>1, <2>2 DEF DeleteChunks, Changes, StoresOK
  <2>3. CASE DeleteSourceVectors
    <3>1. quiet' = FALSE /\ UNCHANGED <<rows, current>>
      BY <2>3 DEF DeleteSourceVectors, Changes
    <3>2. points' = [points EXCEPT ![run.collection] = @ \ Source]
      BY <2>3 DEF DeleteSourceVectors
    <3> QED
      BY <1>1, <3>1, <3>2 DEF StoresOK
  <2>4. CASE ChunkSource
    BY <1>1, <1>3, <2>4 DEF ChunkSource, Changes, StoresOK
  <2>5. CASE UpsertChunkVectors
    BY <1>1, <1>3, <2>5 DEF UpsertChunkVectors, Changes, StoresOK
  <2>6. CASE DeleteRow
    BY <1>1, <2>6 DEF DeleteRow, Changes, StoresOK
  <2>7. CASE RunFails
    BY <1>1, <2>7 DEF RunFails, StoresOK
  <2>8. CASE SetEmbedding
    BY <1>1, <2>8 DEF SetEmbedding, StoresOK, Collections
  <2> QED
    BY <2>1, <2>2, <2>3, <2>4, <2>5, <2>6, <2>7, <2>8 DEF World
<1>5. quiet' => Undisturbed(query', rows', points', current')
  BY <1>2, <1>4 DEF RetrievalInv
<1>6. QueryOK(query')
  BY <1>1, <1>2
<1> QED
  BY <1>4, <1>5, <1>6 DEF RetrievalInv

\* The order and the chunks found depend on nothing but what was read.
LEMMA SameReads ==
  ASSUME NEW q, NEW r, q.vector = r.vector, q.lexical = r.lexical
  PROVE  /\ Ids(q) = Ids(r)
         /\ \A a, b : Precedes(q, a, b) <=> Precedes(r, a, b)
         /\ q.loaded = r.loaded => Found(q) = Found(r)
<1>1. Ids(q) = Ids(r)
  BY DEF Ids
<1>2. \A a : Fused(q, a) = Fused(r, a) /\ IdsIndex(q, a) = IdsIndex(r, a)
  BY DEF Fused, IdsIndex
<1>3. ASSUME NEW a, NEW b PROVE Precedes(q, a, b) <=> Precedes(r, a, b)
  <2>1. /\ Fused(q, a) = Fused(r, a) /\ IdsIndex(q, a) = IdsIndex(r, a)
        /\ Fused(q, b) = Fused(r, b) /\ IdsIndex(q, b) = IdsIndex(r, b)
    BY <1>2
  <2> QED
    BY <2>1 DEF Precedes
<1>4. q.loaded = r.loaded => Found(q) = Found(r)
  BY <1>1 DEF Found
<1> QED
  BY <1>1, <1>3, <1>4

LEMMA BeginPreserves ==
  ASSUME RetrievalInv, Begin
  PROVE  RetrievalInv'
<1>1. StoresOK'
  BY DEF RetrievalInv, StoresOK, Begin
<1>2. PICK k \in TopKs, words \in Queries :
        query' = [NoQuery EXCEPT !.pc = "resolve", !.words = words, !.asked = k,
                                 !.topK = EffectiveTopK(k)]
  BY DEF Begin
<1>3. k \in Int /\ words \in SUBSET Chunks /\ EffectiveTopK(k) \in Nat
  BY TopKIsWanted, RetrievalAssumption DEF RetrievalAssumption
<1>4. NoQuery \in QueryState
  BY NoQueryIsOK DEF QueryOK
<1>5. /\ query' \in QueryState /\ query'.pc = "resolve"
      /\ query'.topK = EffectiveTopK(query'.asked)
  BY <1>2, <1>3, <1>4 DEF QueryState, Pcs
<1>6. /\ NoQuery.results = <<>> /\ NoQuery.scores = <<>>
      /\ NoQuery.candidates = <<>> /\ NoQuery.loaded = {}
  BY DEF NoQuery
<1>7. /\ query'.results = <<>> /\ query'.scores = <<>>
      /\ query'.candidates = <<>> /\ query'.loaded = {}
  BY <1>2, <1>4, <1>6 DEF QueryState
<1>8. QueryOK(query')
  BY <1>5, <1>7 DEF QueryOK, RightTopK, Ordered, Outcome
<1>9. Undisturbed(query', rows', points', current')
  BY <1>5 DEF Undisturbed
<1> QED
  BY <1>1, <1>8, <1>9 DEF RetrievalInv

LEMMA EmbedPreserves ==
  ASSUME RetrievalInv, EmbedQuery
  PROVE  RetrievalInv'
<1>1. /\ query \in QueryState /\ query.pc = "resolve" /\ StoresOK
      /\ query' = [query EXCEPT !.pc = "vector", !.collection = current]
      /\ UNCHANGED <<rows, points, current, quiet>>
  BY DEF RetrievalInv, QueryOK, EmbedQuery
<1>2. StoresOK'
  BY <1>1 DEF StoresOK
<1>3. /\ query' \in QueryState /\ query'.pc = "vector" /\ query'.collection = current
      /\ query'.topK = query.topK /\ query'.asked = query.asked
      /\ query'.results = query.results /\ query'.scores = query.scores
      /\ query'.candidates = query.candidates /\ query'.loaded = query.loaded
  BY <1>1 DEF QueryState, Pcs, StoresOK
<1>4. QueryOK(query')
  BY <1>1, <1>3 DEF RetrievalInv, QueryOK, RightTopK, Ordered, Outcome
<1>5. Undisturbed(query', rows', points', current')
  BY <1>1, <1>3 DEF Undisturbed
<1> QED
  BY <1>2, <1>4, <1>5 DEF RetrievalInv

LEMMA SearchPreserves ==
  ASSUME RetrievalInv, SearchVectors
  PROVE  RetrievalInv'
<1>1. /\ query \in QueryState /\ query.pc = "vector" /\ StoresOK
      /\ UNCHANGED <<rows, points, current, quiet>>
  BY DEF RetrievalInv, QueryOK, SearchVectors
<1> DEFINE V == Own(points[query.collection])
           P == candidatePoolSize(query.topK)
<1>2. PICK list \in Rankings(V, P) :
        query' = [query EXCEPT !.pc = "lexical", !.vector = list]
  BY DEF SearchVectors, Pool
<1>3. V \in SUBSET Chunks /\ P \in Nat
  <2>1. query.collection \in Collections /\ query.asked \in Int
    BY <1>1 DEF QueryState
  <2>2. P \in Nat
    BY <1>1, <2>1, TopKIsWanted DEF RetrievalInv, QueryOK, RightTopK
  <2> QED
    BY <1>1, <2>1, <2>2 DEF StoresOK, Own
<1> HIDE DEF V, P
<1>4. /\ list \in Lists /\ ToSet(list) \subseteq V
      /\ Cardinality(ToSet(list)) = Smaller(P, Cardinality(V))
  BY <1>3, RankingsAreLists
<1>5. StoresOK'
  BY <1>1 DEF StoresOK
<1>6. /\ query' \in QueryState /\ query'.pc = "lexical" /\ query'.vector = list
      /\ query'.collection = query.collection
      /\ query'.topK = query.topK /\ query'.asked = query.asked
      /\ query'.results = query.results /\ query'.scores = query.scores
      /\ query'.candidates = query.candidates /\ query'.loaded = query.loaded
  BY <1>1, <1>2, <1>4 DEF QueryState, Pcs
<1>7. QueryOK(query')
  BY <1>1, <1>6 DEF RetrievalInv, QueryOK, RightTopK, Ordered, Outcome
<1>8. quiet => Undisturbed(query', rows', points', current')
  BY <1>1, <1>4, <1>6 DEF RetrievalInv, Undisturbed, V, P
<1> QED
  BY <1>1, <1>5, <1>7, <1>8 DEF RetrievalInv

\* Without candidates there is nothing to answer.
LEMMA NothingIsAnswered ==
  ASSUME NEW k \in Nat
  PROVE  Truncate(Reranked(<<>>, <<>>), k) = <<>>
<1>1. <<>> \in Lists /\ Len(<<>>) = 0 /\ ScoresOK(<<>>)
  BY EmptyLists DEF ScoresOK
<1> DEFINE r == Reranked(<<>>, <<>>)
<1>2. r \in Seq(Answer) /\ Len(r) = 0
  BY <1>1, RerankedIsSorted
<1> HIDE DEF r
<1>3. Truncate(r, k) \in Seq(Answer) /\ Len(Truncate(r, k)) = Smaller(k, 0)
  BY <1>2, TruncateIsAPrefix
<1>4. Smaller(k, 0) = 0
  BY DEF Smaller
<1> QED
  BY <1>3, <1>4, EmptySeq DEF r

LEMMA LexicalPreserves ==
  ASSUME RetrievalInv, lexicalSearch
  PROVE  RetrievalInv'
<1>1. /\ query \in QueryState /\ query.pc = "lexical" /\ StoresOK /\ QueryOK(query)
      /\ UNCHANGED <<rows, points, current, quiet>>
  BY DEF RetrievalInv, QueryOK, lexicalSearch
<1> DEFINE L == Own(rows) \cap query.words
           P == candidatePoolSize(query.topK)
<1>2. PICK list \in Rankings(L, P) :
        query' = [query EXCEPT !.lexical = list,
          !.pc = IF query.vector = <<>> /\ list = <<>> THEN "answered" ELSE "load"]
  BY DEF lexicalSearch, Pool
<1>3. /\ query.asked \in Int /\ query.vector \in Lists /\ query.topK \in Nat
      /\ query.results = <<>> /\ query.scores = <<>>
      /\ query.candidates = <<>> /\ query.loaded = {}
      /\ query.topK = EffectiveTopK(query.asked)
  BY <1>1 DEF QueryState, QueryOK, Outcome, RightTopK
<1>4. L \in SUBSET Chunks /\ P \in Nat /\ L \subseteq rows
  BY <1>1, <1>3, TopKIsWanted DEF StoresOK, Own
<1> HIDE DEF L, P
<1>5. list \in Lists /\ ToSet(list) \subseteq rows
  BY <1>4, RankingsAreLists
<1>6. StoresOK'
  BY <1>1 DEF StoresOK
<1>7. /\ query' \in QueryState /\ query'.lexical = list
      /\ query'.vector = query.vector /\ query'.collection = query.collection
      /\ query'.topK = query.topK /\ query'.asked = query.asked
      /\ query'.results = <<>> /\ query'.scores = <<>>
      /\ query'.candidates = <<>> /\ query'.loaded = {}
      /\ query'.pc \in {"answered", "load"}
      /\ query'.pc = "answered" => query'.vector = <<>> /\ query'.lexical = <<>>
  BY <1>1, <1>2, <1>3, <1>5 DEF QueryState, Pcs
<1>8. RightTopK(query')
  BY <1>1, <1>3, <1>7 DEF RightTopK
<1>9. Ordered(query')
  <2>1. Found(query') = {}
    BY <1>7 DEF Found, Own
  <2> QED
    BY <1>7, <2>1, EmptyLists, FS_EmptySet DEF Ordered
<1>10. Outcome(query')
  <2>1. Results(query', <<>>) = <<>> /\ query'.topK \in Nat
    BY <1>3, <1>7, NothingIsAnswered DEF Results
  <2> QED
    BY <1>7, <2>1 DEF Outcome
<1>11. quiet => Undisturbed(query', rows', points', current')
  <2>1. query'.pc = "answered" => Ids(query') = {}
    BY <1>7, EmptyLists DEF Ids
  <2>2. query'.pc = "answered" => Found(query') = Own(Ids(query') \cap rows)
    BY <2>1 DEF Found, Own
  <2> QED
    BY <1>1, <1>5, <1>7, <2>2 DEF RetrievalInv, Undisturbed
<1> QED
  BY <1>1, <1>6, <1>7, <1>8, <1>9, <1>10, <1>11 DEF RetrievalInv, QueryOK

LEMMA LoadPreserves ==
  ASSUME RetrievalInv, loadChunks
  PROVE  RetrievalInv'
<1>1. /\ query \in QueryState /\ query.pc = "load" /\ StoresOK /\ QueryOK(query)
      /\ UNCHANGED <<rows, points, current, quiet>>
  BY DEF RetrievalInv, QueryOK, loadChunks
<1> DEFINE found == Own(Loaded(query))
           c == Candidates(query, found)
<1>2. query' = [query EXCEPT !.pc = IF found = {} THEN "answered" ELSE "rerank",
                             !.loaded = rows, !.candidates = c]
  BY DEF loadChunks
<1>3. /\ query.vector \in Lists /\ query.lexical \in Lists /\ query.topK \in Nat
      /\ query.results = <<>> /\ query.scores = <<>>
      /\ query.topK = EffectiveTopK(query.asked)
  BY <1>1 DEF QueryState, QueryOK, Outcome, RightTopK
<1>4. /\ found \in SUBSET Ids(query) /\ found \in SUBSET Chunks
      /\ found = Own(Ids(query) \cap rows)
  BY <1>1 DEF StoresOK, Own, Loaded
<1> HIDE DEF found, c
<1>5. /\ c \in Lists /\ ToSet(c) = found
      /\ Len(c) = Cardinality(found) /\ Cardinality(found) \in Nat
      /\ \A i, j \in DOMAIN c : i < j => Precedes(query, c[i], c[j])
  BY <1>3, <1>4, CandidatesAreSorted DEF c
<1>6. StoresOK'
  BY <1>1 DEF StoresOK
<1>7. /\ query' \in QueryState /\ query'.candidates = c /\ query'.loaded = rows
      /\ query'.vector = query.vector /\ query'.lexical = query.lexical
      /\ query'.collection = query.collection
      /\ query'.topK = query.topK /\ query'.asked = query.asked
      /\ query'.results = <<>> /\ query'.scores = <<>>
      /\ query'.pc \in {"answered", "rerank"}
      /\ query'.pc = "answered" => found = {}
  BY <1>1, <1>2, <1>3, <1>5 DEF QueryState, Pcs, StoresOK
<1>8. /\ Ids(query') = Ids(query) /\ Found(query') = found
      /\ \A a, b : Precedes(query', a, b) <=> Precedes(query, a, b)
  BY <1>4, <1>7, SameReads DEF Found
<1>9. Ordered(query')
  BY <1>5, <1>7, <1>8 DEF Ordered
<1>10. Outcome(query')
  <2>1. CASE query'.pc = "answered"
    <3>1. Cardinality(found) = 0
      BY <1>7, <2>1, FS_EmptySet
    <3>2. c = <<>>
      BY <1>5, <3>1, EmptySeq DEF Lists
    <3> QED
      BY <1>3, <1>7, <2>1, <3>2, NothingIsAnswered DEF Outcome, Results
  <2>2. CASE query'.pc = "rerank"
    BY <1>7, <2>2 DEF Outcome
  <2> QED
    BY <1>7, <2>1, <2>2
<1>11. RightTopK(query')
  BY <1>3, <1>7 DEF RightTopK
<1>12. quiet => Undisturbed(query', rows', points', current')
  BY <1>1, <1>4, <1>7, <1>8 DEF RetrievalInv, Undisturbed
<1> QED
  BY <1>1, <1>6, <1>7, <1>9, <1>10, <1>11, <1>12 DEF RetrievalInv, QueryOK

LEMMA RerankPreserves ==
  ASSUME RetrievalInv, Rerank
  PROVE  RetrievalInv'
<1>1. /\ query \in QueryState /\ query.pc = "rerank" /\ StoresOK /\ QueryOK(query)
      /\ UNCHANGED <<rows, points, current, quiet>>
  BY DEF RetrievalInv, QueryOK, Rerank
<1>2. /\ query.candidates \in Lists /\ query.topK \in Nat
      /\ query.results = <<>> /\ query.scores = <<>>
      /\ RightTopK(query) /\ Ordered(query)
  BY <1>1 DEF QueryState, QueryOK, Outcome
<1>3. \E pc \in {"answered", "degraded"}, scores \in PartialScores :
        /\ query' = [query EXCEPT !.pc = pc, !.scores = scores,
             !.results = IF pc = "answered" THEN Results(query, scores)
                         ELSE Truncate(Unranked(query.candidates), query.topK)]
  <2>1. CASE \E scores \in Answers :
               query' = [query EXCEPT !.pc = "answered", !.scores = scores,
                                      !.results = Results(query, scores)]
    <3>1. PICK scores \in Answers :
            query' = [query EXCEPT !.pc = "answered", !.scores = scores,
                                   !.results = Results(query, scores)]
      BY <2>1
    <3>2. DOMAIN query.candidates \subseteq Nat
      BY <1>2, LenProperties DEF Lists
    <3>3. scores \in PartialScores
      BY <3>1, <3>2 DEF Answers, PartialScores
    <3> QED
      BY <3>1, <3>3
  <2>2. CASE query' = [query EXCEPT !.pc = "degraded",
                         !.results = Truncate(Unranked(query.candidates), query.topK)]
    <3>1. query' = [query EXCEPT !.pc = "degraded", !.scores = <<>>,
                      !.results = Truncate(Unranked(query.candidates), query.topK)]
      BY <1>1, <1>2, <2>2 DEF QueryState
    <3> QED
      BY <3>1, EmptyLists
  <2> QED
    BY <2>1, <2>2 DEF Rerank
<1>4. PICK pc \in {"answered", "degraded"} : \E scores \in PartialScores :
        /\ query' = [query EXCEPT !.pc = pc, !.scores = scores,
             !.results = IF pc = "answered" THEN Results(query, scores)
                         ELSE Truncate(Unranked(query.candidates), query.topK)]
  BY <1>3
<1>5. PICK scores \in PartialScores :
        /\ query' = [query EXCEPT !.pc = pc, !.scores = scores,
             !.results = IF pc = "answered" THEN Results(query, scores)
                         ELSE Truncate(Unranked(query.candidates), query.topK)]
  BY <1>4
<1>6. ScoresOK(scores)
  BY RetrievalAssumption DEF PartialScores, ScoresOK, RetrievalAssumption
<1> DEFINE answer == IF pc = "answered" THEN Results(query, scores)
                     ELSE Truncate(Unranked(query.candidates), query.topK)
<1>7. answer \in Seq(Answer)
  <2>1. Reranked(query.candidates, scores) \in Seq(Answer)
    BY <1>2, <1>6, RerankedIsSorted
  <2>2. Unranked(query.candidates) \in Seq(Answer)
    BY <1>2, UnrankedIsAList
  <2> QED
    BY <1>2, <2>1, <2>2, TruncateIsAPrefix DEF Results
<1> HIDE DEF answer
<1>8. query' = [query EXCEPT !.pc = pc, !.scores = scores, !.results = answer]
  BY <1>5 DEF answer
<1>9. StoresOK'
  BY <1>1 DEF StoresOK
<1>10. /\ query' \in QueryState /\ query'.pc = pc
       /\ query'.scores = scores /\ query'.results = answer
       /\ query'.candidates = query.candidates /\ query'.loaded = query.loaded
       /\ query'.vector = query.vector /\ query'.lexical = query.lexical
       /\ query'.collection = query.collection
       /\ query'.topK = query.topK /\ query'.asked = query.asked
  BY <1>1, <1>7, <1>8 DEF QueryState, Pcs
<1>11. /\ Ids(query') = Ids(query) /\ Found(query') = Found(query)
       /\ \A a, b : Precedes(query', a, b) <=> Precedes(query, a, b)
  BY <1>10, SameReads
<1>12. Ordered(query')
  BY <1>1, <1>2, <1>10, <1>11 DEF Ordered
<1>13. Outcome(query')
  <2>1. pc = "answered" => answer = Results(query', scores)
    BY <1>10 DEF answer, Results
  <2>2. pc = "degraded" =>
          answer = Truncate(Unranked(query'.candidates), query'.topK)
    BY <1>10 DEF answer
  <2> QED
    BY <1>10, <2>1, <2>2 DEF Outcome
<1>14. RightTopK(query')
  BY <1>1, <1>2, <1>10 DEF RightTopK
<1>15. quiet => Undisturbed(query', rows', points', current')
  BY <1>1, <1>10, <1>11 DEF RetrievalInv, Undisturbed
<1> QED
  BY <1>1, <1>9, <1>10, <1>12, <1>13, <1>14, <1>15 DEF RetrievalInv, QueryOK

LEMMA EndPreserves ==
  ASSUME RetrievalInv, QueryFails \/ Finish
  PROVE  RetrievalInv'
<1>1. StoresOK'
  BY DEF RetrievalInv, StoresOK, QueryFails, Finish
<1>2. query' = NoQuery \/ query' = [NoQuery EXCEPT !.pc = "failed"]
  BY DEF QueryFails, Finish
<1>3. /\ QueryOK(query')
      /\ \A r, p, c : Undisturbed(query', r, p, c)
  BY <1>2, NoQueryIsOK
<1> QED
  BY <1>1, <1>3 DEF RetrievalInv

LEMMA StepInv == RetrievalInv /\ [Next]_vars => RetrievalInv'
<1> SUFFICES ASSUME RetrievalInv, [Next]_vars PROVE RetrievalInv'
  OBVIOUS
<1>1. CASE World
  BY <1>1, WorldPreserves
<1>2. CASE Begin
  BY <1>2, BeginPreserves
<1>3. CASE EmbedQuery
  BY <1>3, EmbedPreserves
<1>4. CASE SearchVectors
  BY <1>4, SearchPreserves
<1>5. CASE lexicalSearch
  BY <1>5, LexicalPreserves
<1>6. CASE loadChunks
  BY <1>6, LoadPreserves
<1>7. CASE Rerank
  BY <1>7, RerankPreserves
<1>8. CASE QueryFails \/ Finish
  BY <1>8, EndPreserves
<1>9. CASE UNCHANGED vars
  BY <1>9 DEF vars, RetrievalInv, StoresOK
<1> QED
  BY <1>1, <1>2, <1>3, <1>4, <1>5, <1>6, <1>7, <1>8, <1>9 DEF Next, Retrieve

LEMMA InvHolds == Spec => []RetrievalInv
<1>1. Init => RetrievalInv
  BY InitInv
<1>2. RetrievalInv /\ [Next]_vars => RetrievalInv'
  BY StepInv
<1> QED
  BY <1>1, <1>2, PTL DEF Spec

-----------------------------------------------------------------------------
(* Fusion.                                                                  *)

LEMMA FusionFromInv == RetrievalInv => FusionRespectsBoth
<1> SUFFICES ASSUME RetrievalInv, query.pc = "rerank"
             PROVE  /\ Own(ToSet(query.vector) \cup ToSet(query.lexical)) \cap query.loaded
                         \subseteq ToSet(query.candidates)
                    /\ \A i, j \in DOMAIN query.candidates :
                         i < j => ~Dominates(query.candidates[j], query.candidates[i])
  BY DEF FusionRespectsBoth
<1>1. /\ query \in QueryState /\ query.vector \in Lists /\ query.lexical \in Lists
      /\ Ordered(query)
  BY DEF RetrievalInv, QueryOK, QueryState
<1>2. Own(ToSet(query.vector) \cup ToSet(query.lexical)) \cap query.loaded
        \subseteq ToSet(query.candidates)
  BY <1>1 DEF Ordered, Found, Own, Ids
<1>3. ASSUME NEW i \in DOMAIN query.candidates, NEW j \in DOMAIN query.candidates, i < j,
             Dominates(query.candidates[j], query.candidates[i])
      PROVE  FALSE
  <2> DEFINE a == query.candidates[i]
             b == query.candidates[j]
  <2>1. Precedes(query, a, b)
    BY <1>1, <1>3 DEF Ordered
  <2>2. /\ AtLeast(Rank(query.vector, b), Rank(query.vector, a))
        /\ AtLeast(Rank(query.lexical, b), Rank(query.lexical, a))
        /\ \/ Rank(query.vector, b) # Rank(query.vector, a)
           \/ Rank(query.lexical, b) # Rank(query.lexical, a)
    BY <1>3 DEF Dominates
  <2> HIDE DEF a, b
  <2>3. Less(Fused(query, a), Fused(query, b))
    BY <1>1, <2>2, BetterRanksFuseHigher
  <2>4. Fused(query, a) \in Fraction /\ Fused(query, b) \in Fraction
    BY <1>1, FusedIsAFraction
  <2>5. ~ Less(Fused(query, b), Fused(query, a))
    BY <2>3, <2>4, LessIsAnOrder
  <2> QED
    BY <2>1, <2>3, <2>5 DEF Precedes
<1> QED
  BY <1>2, <1>3

\* FusionRespectsBoth: what either search found and a row of the workspace
\* backs is a candidate, and none comes before one that both searches rank at
\* least as well and one of them better, for any lists, pool and rrfK.
THEOREM FusionIsFair == Spec => []FusionRespectsBoth
<1>1. Spec => []RetrievalInv
  BY InvHolds
<1> QED
  BY <1>1, FusionFromInv, PTL

-----------------------------------------------------------------------------
(* The answer.                                                              *)

\* An answer that the reranker ordered.
LEMMA AnsweredBy ==
  ASSUME RetrievalInv, query.pc = "answered"
  PROVE  /\ query.candidates \in Lists /\ Len(query.candidates) \in Nat
         /\ DOMAIN query.results = 1..Smaller(query.topK, Len(query.candidates))
         /\ Smaller(query.topK, Len(query.candidates)) <= Len(query.candidates)
         /\ \E order \in [1..Len(query.candidates) -> 1..Len(query.candidates)] :
              /\ \A i \in DOMAIN query.results :
                   /\ query.results[i].id = query.candidates[order[i]]
                   /\ query.results[i].scale = "reranker"
              /\ \A k \in 1..Len(query.candidates) :
                   \E i \in 1..Len(query.candidates) : order[i] = k
              /\ \A i, j \in 1..Len(query.candidates) :
                   i < j => Above(query.scores, order[i], order[j])
<1> DEFINE c == query.candidates
           r == Reranked(c, query.scores)
           m == Smaller(query.topK, Len(c))
<1>1. /\ c \in Lists /\ query.topK \in Nat /\ query.scores \in PartialScores
      /\ query.results = Truncate(r, query.topK)
  BY DEF RetrievalInv, QueryOK, QueryState, Outcome, Results
<1>2. ScoresOK(query.scores)
  BY <1>1, RetrievalAssumption DEF PartialScores, ScoresOK, RetrievalAssumption
<1> HIDE DEF c, r
<1>3. /\ r \in Seq(Answer) /\ Len(r) = Len(c) /\ Len(c) \in Nat
      /\ \A i \in 1..Len(c) : r[i].scale = "reranker"
      /\ \E order \in [1..Len(c) -> 1..Len(c)] :
           /\ \A i \in 1..Len(c) : r[i].id = c[order[i]]
           /\ \A k \in 1..Len(c) : \E i \in 1..Len(c) : order[i] = k
           /\ \A i, j \in 1..Len(c) : i < j => Above(query.scores, order[i], order[j])
  BY <1>1, <1>2, RerankedIsSorted DEF r
<1>4. m \in Nat /\ m <= Len(c)
  BY <1>1, <1>3 DEF Smaller
<1>5. /\ query.results \in Seq(Answer) /\ Len(query.results) = m
      /\ \A i \in 1..m : query.results[i] = r[i]
  <2>1. r \in Seq(Answer) /\ query.topK \in Nat
    BY <1>1, <1>3
  <2>2. /\ Truncate(r, query.topK) \in Seq(Answer)
        /\ Len(Truncate(r, query.topK)) = Smaller(query.topK, Len(r))
        /\ \A i \in 1..Smaller(query.topK, Len(r)) : Truncate(r, query.topK)[i] = r[i]
    BY <2>1, TruncateIsAPrefix
  <2> QED
    BY <1>1, <1>3, <2>2
<1>6. DOMAIN query.results = 1..m
  BY <1>5, LenProperties
<1> HIDE DEF m
<1>7. PICK order \in [1..Len(c) -> 1..Len(c)] :
        /\ \A i \in 1..Len(c) : r[i].id = c[order[i]]
        /\ \A k \in 1..Len(c) : \E i \in 1..Len(c) : order[i] = k
        /\ \A i, j \in 1..Len(c) : i < j => Above(query.scores, order[i], order[j])
  BY <1>3
<1>8. \A i \in 1..m : i \in 1..Len(c)
  BY <1>3, <1>4
<1>9. ASSUME NEW i \in DOMAIN query.results
      PROVE  query.results[i].id = c[order[i]] /\ query.results[i].scale = "reranker"
  <2>1. i \in 1..m /\ i \in 1..Len(c)
    BY <1>6, <1>8
  <2>2. query.results[i] = r[i]
    BY <1>5, <2>1
  <2> QED
    BY <1>3, <1>7, <2>1, <2>2
<1> QED
  BY <1>1, <1>3, <1>4, <1>6, <1>7, <1>9 DEF c, m

LEMMA DegradedTo ==
  ASSUME RetrievalInv, query.pc = "degraded"
  PROVE  /\ query.candidates \in Lists /\ Len(query.candidates) \in Nat
         /\ DOMAIN query.results = 1..Smaller(query.topK, Len(query.candidates))
         /\ Smaller(query.topK, Len(query.candidates)) <= Len(query.candidates)
         /\ \A i \in DOMAIN query.results :
              /\ query.results[i].id = query.candidates[i]
              /\ query.results[i].scale = "cosine"
<1> DEFINE c == query.candidates
           r == Unranked(c)
           m == Smaller(query.topK, Len(c))
<1>1. /\ c \in Lists /\ query.topK \in Nat
      /\ query.results = Truncate(r, query.topK)
  BY DEF RetrievalInv, QueryOK, QueryState, Outcome
<1> HIDE DEF c, r
<1>2. /\ r \in Seq(Answer) /\ Len(r) = Len(c) /\ Len(c) \in Nat
      /\ \A i \in 1..Len(c) : r[i].id = c[i] /\ r[i].scale = "cosine"
  BY <1>1, UnrankedIsAList DEF r
<1>3. m \in Nat /\ m <= Len(c)
  BY <1>1, <1>2 DEF Smaller
<1>4. /\ query.results \in Seq(Answer) /\ Len(query.results) = m
      /\ \A i \in 1..m : query.results[i] = r[i]
  <2>1. r \in Seq(Answer) /\ query.topK \in Nat
    BY <1>1, <1>2
  <2>2. /\ Truncate(r, query.topK) \in Seq(Answer)
        /\ Len(Truncate(r, query.topK)) = Smaller(query.topK, Len(r))
        /\ \A i \in 1..Smaller(query.topK, Len(r)) : Truncate(r, query.topK)[i] = r[i]
    BY <2>1, TruncateIsAPrefix
  <2> QED
    BY <1>1, <1>2, <2>2
<1>5. DOMAIN query.results = 1..m
  BY <1>4, LenProperties
<1> HIDE DEF m
<1>6. \A i \in 1..m : i \in 1..Len(c)
  BY <1>2, <1>3
<1> QED
  BY <1>1, <1>2, <1>3, <1>4, <1>5, <1>6 DEF c, m

LEMMA NoAnswerYet ==
  ASSUME RetrievalInv, query.pc \notin {"answered", "degraded"}
  PROVE  DOMAIN query.results = {}
  BY EmptyLists DEF RetrievalInv, QueryOK, Outcome

LEMMA GhostsFromInv == RetrievalInv => NoGhosts
<1> SUFFICES ASSUME RetrievalInv, NEW i \in DOMAIN query.results
             PROVE  query.results[i].id \in query.loaded \ Foreign
  BY DEF NoGhosts
<1>1. query.pc \in {"answered", "degraded"}
  BY NoAnswerYet
<1>2. /\ query.candidates \in Lists /\ Len(query.candidates) \in Nat
      /\ \E k \in 1..Len(query.candidates) : query.results[i].id = query.candidates[k]
  <2>1. CASE query.pc = "answered"
    <3>1. /\ query.candidates \in Lists /\ Len(query.candidates) \in Nat
          /\ i \in 1..Smaller(query.topK, Len(query.candidates))
          /\ Smaller(query.topK, Len(query.candidates)) <= Len(query.candidates)
      BY <2>1, AnsweredBy
    <3>2. query.topK \in Nat
      BY DEF RetrievalInv, QueryOK, QueryState
    <3>3. i \in 1..Len(query.candidates)
      BY <3>1, <3>2 DEF Smaller
    <3> QED
      BY <2>1, <3>1, <3>3, AnsweredBy
  <2>2. CASE query.pc = "degraded"
    <3>1. /\ query.candidates \in Lists /\ Len(query.candidates) \in Nat
          /\ i \in 1..Smaller(query.topK, Len(query.candidates))
          /\ Smaller(query.topK, Len(query.candidates)) <= Len(query.candidates)
      BY <2>2, DegradedTo
    <3>2. query.topK \in Nat
      BY DEF RetrievalInv, QueryOK, QueryState
    <3>3. i \in 1..Len(query.candidates)
      BY <3>1, <3>2 DEF Smaller
    <3> QED
      BY <2>2, <3>1, <3>3, DegradedTo
  <2> QED
    BY <1>1, <2>1, <2>2
<1>3. query.results[i].id \in ToSet(query.candidates)
  BY <1>2, LenProperties DEF Lists, ToSet
<1>4. ToSet(query.candidates) = Found(query)
  BY <1>1 DEF RetrievalInv, QueryOK, Ordered
<1> QED
  BY <1>3, <1>4 DEF Found, Own

\* NoGhosts: a point that outlived its row, or another workspace's chunk, is
\* never answered, whatever a run, a Delete or new settings do between the
\* three reads (loadChunks, service.go:218-238).
THEOREM GhostsAreNotAnswered == Spec => []NoGhosts
<1>1. Spec => []RetrievalInv
  BY InvHolds
<1> QED
  BY <1>1, GhostsFromInv, PTL

LEMMA BestFromInv == RetrievalInv => BestAreAnswered
<1> SUFFICES ASSUME RetrievalInv PROVE BestAreAnswered
  OBVIOUS
<1>1. \A i, j \in DOMAIN query.results : query.results[i].scale = query.results[j].scale
  <2>1. CASE query.pc = "answered"
    <3>1. \A i \in DOMAIN query.results : query.results[i].scale = "reranker"
      BY <2>1, AnsweredBy
    <3> QED
      BY <3>1
  <2>2. CASE query.pc = "degraded"
    <3>1. \A i \in DOMAIN query.results : query.results[i].scale = "cosine"
      BY <2>2, DegradedTo
    <3> QED
      BY <3>1
  <2>3. CASE query.pc \notin {"answered", "degraded"}
    BY <2>3, NoAnswerYet
  <2> QED
    BY <2>1, <2>2, <2>3
<1>2. ASSUME query.pc = "answered", NEW i \in DOMAIN query.results,
             NEW id \in ToSet(query.candidates) \ {query.results[j].id : j \in 1..i}
      PROVE  LET a == query.results[i].id IN
               \/ ScoreOf(a) > ScoreOf(id)
               \/ /\ ScoreOf(a) = ScoreOf(id)
                  /\ Rank(query.candidates, a) < Rank(query.candidates, id)
  <2> DEFINE c == query.candidates
             n == Len(c)
             m == Smaller(query.topK, n)
             a == query.results[i].id
  <2>1. /\ c \in Lists /\ n \in Nat /\ DOMAIN query.results = 1..m /\ m <= n
        /\ m \in Nat
    BY <1>2, AnsweredBy DEF Smaller, RetrievalInv, QueryOK, QueryState
  <2>2. PICK order \in [1..n -> 1..n] :
          /\ \A k \in DOMAIN query.results : query.results[k].id = c[order[k]]
          /\ \A k \in 1..n : \E j \in 1..n : order[j] = k
          /\ \A k, j \in 1..n : k < j => Above(query.scores, order[k], order[j])
    BY <1>2, AnsweredBy
  <2> HIDE DEF c, n, m, a
  <2>3. DOMAIN c = 1..n
    BY <2>1, LenProperties DEF Lists, n
  <2>4. PICK k \in 1..n : id = c[k]
    BY <1>2, <2>3 DEF ToSet, c
  <2>5. PICK j \in 1..n : order[j] = k
    BY <2>2
  <2>6. i \in 1..n /\ i \in 1..m
    BY <1>2, <2>1
  <2>7. ~ (j <= i)
    <3> SUFFICES ASSUME j <= i PROVE FALSE
      OBVIOUS
    <3>1. j \in 1..i /\ j \in DOMAIN query.results
      BY <2>1, <2>6
    <3>2. query.results[j].id = id
      BY <2>2, <2>4, <2>5, <3>1
    <3> QED
      BY <1>2, <3>1, <3>2
  <2>8. Above(query.scores, order[i], k)
    BY <2>2, <2>5, <2>6, <2>7
  <2>9. a = c[order[i]] /\ order[i] \in 1..n
    BY <1>2, <2>2, <2>6 DEF a
  <2>10. Rank(c, a) = order[i] /\ Rank(c, id) = k
    BY <2>1, <2>3, <2>4, <2>9, RankIsThePlace
  <2> QED
    BY <2>8, <2>10 DEF ScoreOf, Above, a, c
<1> QED
  BY <1>1, <1>2 DEF BestAreAnswered

\* BestAreAnswered: the cut to top_k comes after the rerank, so that nothing
\* left out scored higher than what is answered, ties keep the fused order,
\* and scores of two scales never mix, whatever scores are missing.
THEOREM TheBestAreAnswered == Spec => []BestAreAnswered
<1>1. Spec => []RetrievalInv
  BY InvHolds
<1> QED
  BY <1>1, BestFromInv, PTL

-----------------------------------------------------------------------------
(* How many are answered.                                                   *)

LEMMA AnswerLength ==
  ASSUME RetrievalInv, Answered
  PROVE  Len(query.results) = Smaller(query.topK, Cardinality(Found(query)))
<1>1. query.results \in Seq(Answer) /\ query.topK \in Nat
  BY DEF RetrievalInv, QueryOK, QueryState
<1>2. DOMAIN query.results = 1..Len(query.results) /\ Len(query.results) \in Nat
  BY <1>1, LenProperties
<1>3. /\ Len(query.candidates) \in Nat
      /\ DOMAIN query.results = 1..Smaller(query.topK, Len(query.candidates))
  BY AnsweredBy, DegradedTo DEF Answered
<1>4. Smaller(query.topK, Len(query.candidates)) \in Nat
  BY <1>1, <1>3 DEF Smaller
<1> DEFINE m == Smaller(query.topK, Len(query.candidates))
           k == Len(query.results)
<1>5. 1..k = 1..m /\ k \in Nat /\ m \in Nat
  BY <1>2, <1>3, <1>4
<1> HIDE DEF m, k
<1>6. /\ Cardinality(1..k) = (IF 1 > k THEN 0 ELSE k - 1 + 1)
      /\ Cardinality(1..m) = (IF 1 > m THEN 0 ELSE m - 1 + 1)
  BY <1>5, FS_Interval
<1>7. k = m
  BY <1>5, <1>6
<1>8. Len(query.candidates) = Cardinality(Found(query))
  BY DEF RetrievalInv, QueryOK, Ordered, Answered
<1> QED
  BY <1>7, <1>8 DEF k, m

\* A pool wider than the points without rows leaves room for rows.
LEMMA PoolFindsRows ==
  ASSUME NEW all \in SUBSET Chunks, NEW ghosts \in SUBSET all, NEW best \in SUBSET all,
         NEW found \in SUBSET (all \ ghosts), best \ ghosts \subseteq found,
         NEW pool \in Nat, NEW wanted \in Nat, Cardinality(ghosts) + wanted <= pool,
         Cardinality(best) = Smaller(pool, Cardinality(all))
  PROVE  Smaller(wanted, Cardinality(found)) = Smaller(wanted, Cardinality(all \ ghosts))
<1>1. /\ IsFiniteSet(all) /\ IsFiniteSet(ghosts) /\ IsFiniteSet(best)
      /\ IsFiniteSet(found) /\ IsFiniteSet(all \ ghosts) /\ IsFiniteSet(best \ ghosts)
  <2>1. IsFiniteSet(Chunks)
    BY RetrievalAssumption DEF RetrievalAssumption
  <2>2. \A T \in SUBSET Chunks : IsFiniteSet(T)
    BY <2>1, FS_Subset
  <2> QED
    BY <2>2
<1>2. /\ Cardinality(all) \in Nat /\ Cardinality(ghosts) \in Nat
      /\ Cardinality(best) \in Nat /\ Cardinality(found) \in Nat
      /\ Cardinality(all \ ghosts) \in Nat /\ Cardinality(best \ ghosts) \in Nat
  BY <1>1, FS_CardinalityType
<1>3. Cardinality(found) <= Cardinality(all \ ghosts)
  BY <1>1, FS_Subset
<1>4. CASE Cardinality(all) <= pool
  <2>1. Cardinality(best) = Cardinality(all)
    BY <1>2, <1>4 DEF Smaller
  <2>2. best = all
    BY <1>1, <2>1, FS_Subset
  <2>3. found = all \ ghosts
    BY <2>2
  <2> QED
    BY <2>3
<1>5. CASE pool < Cardinality(all)
  <2>1. Cardinality(best) = pool
    BY <1>2, <1>5 DEF Smaller
  <2>2. /\ Cardinality(best \ ghosts) = Cardinality(best) - Cardinality(best \cap ghosts)
        /\ Cardinality(ghosts \cap best) <= Cardinality(ghosts)
    BY <1>1, FS_Difference, FS_Intersection
  <2>3. best \cap ghosts = ghosts \cap best /\ Cardinality(ghosts \cap best) \in Nat
    BY <1>1, FS_Intersection, FS_CardinalityType
  <2>4. Cardinality(best \ ghosts) <= Cardinality(found)
    BY <1>1, FS_Subset
  <2>5. wanted <= Cardinality(found)
    BY <1>2, <2>1, <2>2, <2>3, <2>4
  <2> QED
    BY <1>2, <1>3, <2>5 DEF Smaller
<1> QED
  BY <1>2, <1>4, <1>5

LEMMA FindsFromInv == RetrievalInv => QuietQueryFinds
<1> SUFFICES ASSUME RetrievalInv, Answered, quiet, Own(rows) \subseteq points[current],
                    \/ Cardinality(Ghosts) + Wanted <= MinPool
                    \/ Cardinality(Ghosts) + Wanted <= PoolMultiplier * Wanted
             PROVE  Len(query.results) = Smaller(Wanted, Cardinality(Own(rows)))
  BY DEF QuietQueryFinds
<1> DEFINE all == Own(points[current])
           best == ToSet(query.vector)
           pool == candidatePoolSize(query.topK)
<1>1. /\ query.asked \in Int /\ query.topK = EffectiveTopK(query.asked)
      /\ query.vector \in Lists /\ query.lexical \in Lists
  BY DEF RetrievalInv, QueryOK, QueryState, RightTopK, Answered
<1>2. /\ Wanted = query.topK /\ Wanted \in Nat
      /\ pool \in Nat /\ pool >= MinPool /\ pool >= PoolMultiplier * Wanted
  BY <1>1, TopKIsWanted DEF Wanted
<1>3. /\ best \subseteq all
      /\ Cardinality(best) = Smaller(pool, Cardinality(all))
      /\ Found(query) = Own(Ids(query) \cap rows)
  BY DEF RetrievalInv, Undisturbed, Answered
<1>4. /\ all \in SUBSET Chunks /\ Ghosts = all \ rows /\ Own(rows) = all \ Ghosts
  BY DEF RetrievalInv, StoresOK, Ghosts, Own
<1>5. Found(query) \subseteq all \ Ghosts /\ best \ Ghosts \subseteq Found(query)
  BY <1>3, <1>4 DEF Own, Ids
<1>6. Cardinality(Ghosts) \in Nat
  <2>1. IsFiniteSet(Chunks) /\ Ghosts \in SUBSET Chunks
    BY <1>4, RetrievalAssumption DEF RetrievalAssumption
  <2> QED
    BY <2>1, FS_Subset, FS_CardinalityType
<1>7. Cardinality(Ghosts) + Wanted <= pool
  <2>1. MinPool \in Nat /\ PoolMultiplier \in Nat /\ PoolMultiplier * Wanted \in Nat
    BY <1>2, RetrievalAssumption, Times DEF RetrievalAssumption
  <2> HIDE DEF pool
  <2> QED
    BY <1>2, <1>6, <2>1
<1> HIDE DEF all, best, pool
<1>8. Smaller(Wanted, Cardinality(Found(query))) = Smaller(Wanted, Cardinality(all \ Ghosts))
  <2> DEFINE found == Found(query)
             ghosts == Ghosts
             wanted == Wanted
  <2>1. /\ all \in SUBSET Chunks /\ ghosts \in SUBSET all /\ best \in SUBSET all
        /\ found \in SUBSET (all \ ghosts) /\ best \ ghosts \subseteq found
        /\ pool \in Nat /\ wanted \in Nat /\ Cardinality(ghosts) + wanted <= pool
        /\ Cardinality(best) = Smaller(pool, Cardinality(all))
    BY <1>2, <1>3, <1>4, <1>5, <1>7
  <2> HIDE DEF found, ghosts, wanted
  <2>2. Smaller(wanted, Cardinality(found)) = Smaller(wanted, Cardinality(all \ ghosts))
    BY ONLY <2>1, PoolFindsRows
  <2> QED
    BY <2>2 DEF found, ghosts, wanted
<1> QED
  BY <1>2, <1>4, <1>8, AnswerLength

\* QuietQueryFinds: the pool is wide enough. A query that no store change
\* disturbs answers as many chunks as were asked for or exist, for any top_k,
\* words, rankings and pool size, as long as the points without rows fit into
\* what the pool has to spare.
THEOREM QuietQueriesFind == Spec => []QuietQueryFinds
<1>1. Spec => []RetrievalInv
  BY InvHolds
<1> QED
  BY <1>1, FindsFromInv, PTL

-----------------------------------------------------------------------------
(* Type correctness: what is left of it.                                    *)

Bounds ==
  /\ run \in [next : Steps, collection : Collections]
  /\ query.asked \in TopKs \cup {0} /\ query.topK \in 0..MaxTopK

LEMMA InitBounds == Init => Bounds
  BY RetrievalAssumption
  DEF Init, Bounds, NoQuery, Steps, Collections, RetrievalAssumption

LEMMA StepBounds == RetrievalInv /\ Bounds /\ [Next]_vars => Bounds'
<1> SUFFICES ASSUME RetrievalInv, Bounds, [Next]_vars PROVE Bounds'
  OBVIOUS
<1>1. run' \in [next : Steps, collection : Collections]
  <2>1. CASE World
    <3>1. CASE StartRun
      <4>1. PICK first \in {"rows", "points of it"} :
              run' = [next |-> first, collection |-> current]
        BY <3>1 DEF StartRun
      <4>2. first \in Steps /\ current \in Collections
        BY DEF Steps, RetrievalInv, StoresOK
      <4> QED
        BY <4>1, <4>2
    <3>2. CASE \E step, then \in Steps : Changes(step, then)
      BY <3>2 DEF Bounds, Changes
    <3>3. CASE RunFails
      BY <3>3 DEF Bounds, RunFails, Steps
    <3>4. CASE SetEmbedding
      BY <3>4 DEF Bounds, SetEmbedding
    <3>5. {"rows", "points", "insert", "upsert", "points of it", "row of it", "ended"}
            \subseteq Steps
      BY DEF Steps
    <3>6. DeleteChunks \/ DeleteSourceVectors \/ ChunkSource \/ UpsertChunkVectors
            \/ DeleteRow => \E step, then \in Steps : Changes(step, then)
      BY <3>5 DEF DeleteChunks, DeleteSourceVectors, ChunkSource, UpsertChunkVectors,
                  DeleteRow
    <3> QED
      BY <2>1, <3>1, <3>2, <3>3, <3>4, <3>6 DEF World
  <2>2. CASE Retrieve \/ UNCHANGED vars
    BY <2>2 DEF Bounds, vars, Retrieve, Begin, EmbedQuery, SearchVectors, lexicalSearch,
                loadChunks, Rerank, QueryFails, Finish
  <2> QED
    BY <2>1, <2>2 DEF Next
<1>2. NoQuery \in QueryState /\ query \in QueryState
  BY NoQueryIsOK DEF QueryOK, RetrievalInv
<1>3. \/ query'.asked = query.asked /\ query'.topK = query.topK
      \/ query'.asked = NoQuery.asked /\ query'.topK = NoQuery.topK
      \/ \E k \in TopKs : query'.asked = k /\ query'.topK = EffectiveTopK(k)
  <2>1. CASE World \/ UNCHANGED vars
    BY <2>1 DEF vars, World, StartRun, DeleteChunks, DeleteSourceVectors, ChunkSource,
                UpsertChunkVectors, DeleteRow, RunFails, SetEmbedding, Changes
  <2>2. CASE Begin
    BY <1>2, <2>2 DEF Begin, QueryState
  <2>3. CASE EmbedQuery
    BY <1>2, <2>3 DEF EmbedQuery, QueryState
  <2>4. CASE SearchVectors
    BY <1>2, <2>4 DEF SearchVectors, QueryState
  <2>5. CASE lexicalSearch
    BY <1>2, <2>5 DEF lexicalSearch, QueryState
  <2>6. CASE loadChunks
    BY <1>2, <2>6 DEF loadChunks, QueryState
  <2>7. CASE Rerank
    BY <1>2, <2>7 DEF Rerank, QueryState
  <2>8. CASE QueryFails
    BY <1>2, <2>8 DEF QueryFails, QueryState
  <2>9. CASE Finish
    BY <2>9 DEF Finish
  <2> QED
    BY <2>1, <2>2, <2>3, <2>4, <2>5, <2>6, <2>7, <2>8, <2>9 DEF Next, Retrieve
<1>4. NoQuery.asked = 0 /\ NoQuery.topK = 0 /\ 0 \in 0..MaxTopK
  BY RetrievalAssumption DEF NoQuery, RetrievalAssumption
<1>5. \A k \in TopKs : EffectiveTopK(k) \in 0..MaxTopK
  <2>1. /\ DefaultTopK \in 1..MaxTopK /\ MaxTopK \in Nat
        /\ \A k \in TopKs : k \in Int
    BY RetrievalAssumption DEF RetrievalAssumption
  <2> QED
    BY <2>1 DEF EffectiveTopK
<1>6. query'.asked \in TopKs \cup {0} /\ query'.topK \in 0..MaxTopK
  BY <1>3, <1>4, <1>5 DEF Bounds
<1> QED
  BY <1>1, <1>6 DEF Bounds

LEMMA TypeFromInv == RetrievalInv /\ Bounds => TypeOK
<1> SUFFICES ASSUME RetrievalInv, Bounds PROVE TypeOK
  OBVIOUS
<1>1. query \in QueryState
  BY DEF RetrievalInv, QueryOK
<1>2. ASSUME NEW l \in {query.vector, query.lexical, query.candidates}
      PROVE  /\ \A i \in DOMAIN l : l[i] \in Chunks
             /\ \A i, j \in DOMAIN l : l[i] = l[j] => i = j
  <2>1. l \in Lists
    BY <1>1 DEF QueryState
  <2> QED
    BY <2>1, LenProperties, ElementOfSeq DEF Lists
<1>3. Len(query.results) <= query.topK
  <2>1. query.topK \in Nat
    BY <1>1 DEF QueryState
  <2>2. CASE Answered
    <3>1. Len(query.results) = Smaller(query.topK, Cardinality(Found(query)))
      BY <2>2, AnswerLength
    <3>2. IsFiniteSet(Chunks) /\ Found(query) \in SUBSET Chunks
      BY <1>1, RetrievalAssumption DEF RetrievalAssumption, QueryState, Found, Own
    <3>3. Cardinality(Found(query)) \in Nat
      BY <3>2, FS_Subset, FS_CardinalityType
    <3> QED
      BY <2>1, <3>1, <3>3 DEF Smaller
  <2>3. CASE ~ Answered
    BY <2>1, <2>3, EmptyLists DEF Answered, RetrievalInv, QueryOK, Outcome
  <2> QED
    BY <2>2, <2>3
<1> QED
  BY <1>1, <1>2, <1>3
  DEF TypeOK, Bounds, RetrievalInv, StoresOK, QueryState, Pcs

\* TypeOK: the stores and the request keep their types, no list repeats a
\* chunk and no answer is longer than top_k.
THEOREM TypeCorrect == Spec => []TypeOK
<1>1. RetrievalInv /\ Bounds /\ [Next]_vars => Bounds'
  BY StepBounds
<1>2. Spec => []RetrievalInv
  BY InvHolds
<1> QED
  BY <1>1, <1>2, InitBounds, TypeFromInv, PTL DEF Spec

=============================================================================
