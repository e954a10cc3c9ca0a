------------------------ MODULE HybridSearch_proofs ------------------------
(***************************************************************************)
(* Proofs about HybridSearch.                                              *)
(***************************************************************************)
EXTENDS HybridSearch, KstCalendar_proofs, FiniteSetTheorems, SequenceTheorems, TLAPS

-----------------------------------------------------------------------------
(***************************************************************************)
(* Sorting.                                                                *)
(***************************************************************************)

StrictOrder(S, R) ==
  /\ \A x \in S : <<x, x>> \notin R
  /\ \A x, y, z \in S : <<x, y>> \in R /\ <<y, z>> \in R => <<x, z>> \in R
  /\ \A x, y \in S : x # y => <<x, y>> \in R \/ <<y, x>> \in R

Below(S, R, x) == {y \in S : <<y, x>> \in R}

\* An element of a finite set in order has a place of its own.
LEMMA Ranking ==
  ASSUME NEW S, IsFiniteSet(S), NEW R, StrictOrder(S, R)
  PROVE  /\ Cardinality(S) \in Nat
         /\ \A x \in S : /\ Cardinality(Below(S, R, x)) \in Nat
                         /\ Cardinality(Below(S, R, x)) + 1 \in 1 .. Cardinality(S)
         /\ \A x, y \in S : <<x, y>> \in R =>
              Cardinality(Below(S, R, x)) < Cardinality(Below(S, R, y))
         /\ \A n \in 1 .. Cardinality(S) : \E x \in S : Cardinality(Below(S, R, x)) = n - 1
<1>1. Cardinality(S) \in Nat
  BY FS_CardinalityType
<1>2. ASSUME NEW x \in S
      PROVE  /\ Below(S, R, x) \in SUBSET (S \ {x})
             /\ IsFiniteSet(Below(S, R, x))
             /\ Cardinality(Below(S, R, x)) \in Nat
             /\ Cardinality(Below(S, R, x)) + 1 \in 1 .. Cardinality(S)
  <2>1. Below(S, R, x) \in SUBSET (S \ {x})
    BY DEF Below, StrictOrder
  <2>2. IsFiniteSet(S \ {x}) /\ Cardinality(S \ {x}) = Cardinality(S) - 1
    BY FS_RemoveElement
  <2>3. IsFiniteSet(Below(S, R, x)) /\ Cardinality(Below(S, R, x)) <= Cardinality(S \ {x})
    BY <2>1, <2>2, FS_Subset
  <2>4. Cardinality(Below(S, R, x)) \in Nat
    BY <2>3, FS_CardinalityType
  <2> QED BY <1>1, <2>1, <2>2, <2>3, <2>4
<1>3. ASSUME NEW x \in S, NEW y \in S, <<x, y>> \in R
      PROVE  Cardinality(Below(S, R, x)) < Cardinality(Below(S, R, y))
  <2>1. Below(S, R, x) \cup {x} \in SUBSET Below(S, R, y)
    BY <1>3 DEF Below, StrictOrder
  <2>2. x \notin Below(S, R, x)
    BY DEF Below, StrictOrder
  <2>3. Cardinality(Below(S, R, x) \cup {x}) = Cardinality(Below(S, R, x)) + 1
    BY <1>2, <2>2, FS_AddElement
  <2>4. Cardinality(Below(S, R, x) \cup {x}) <= Cardinality(Below(S, R, y))
    BY <1>2, <2>1, FS_Subset
  <2> QED BY <1>2, <2>3, <2>4
<1>4. ASSUME NEW n \in 1 .. Cardinality(S)
      PROVE  \E x \in S : Cardinality(Below(S, R, x)) = n - 1
  <2> DEFINE rank == [x \in S |-> Cardinality(Below(S, R, x)) + 1]
  <2>1. rank \in [S -> 1 .. Cardinality(S)]
    BY <1>2
  <2>2. ASSUME NEW x \in S, NEW y \in S, rank[x] = rank[y], x # y
        PROVE  FALSE
    <3>1. Cardinality(Below(S, R, x)) = Cardinality(Below(S, R, y))
      BY <1>2, <2>2
    <3>2. <<x, y>> \in R \/ <<y, x>> \in R
      BY <2>2 DEF StrictOrder
    <3> QED BY <1>2, <1>3, <3>1, <3>2
  <2>3. rank \in Injection(S, 1 .. Cardinality(S))
    BY <2>1, <2>2 DEF Injection, IsInjective
  <2>4. /\ IsFiniteSet(1 .. Cardinality(S))
        /\ Cardinality(1 .. Cardinality(S)) = Cardinality(S)
    BY <1>1, FS_Interval
  <2>5. rank \in Surjection(S, 1 .. Cardinality(S))
    BY <2>3, <2>4, FS_Injection
  <2>6. PICK x \in S : rank[x] = n
    BY <2>5 DEF Surjection
  <2> QED BY <1>2, <2>6
<1> QED BY <1>1, <1>2, <1>3, <1>4

\* s lists S in the order R, every element once.
Sorts(s, S, R) ==
  /\ s \in Seq(S) /\ Len(s) = Cardinality(S) /\ Len(s) \in Nat
  /\ DOMAIN s = 1 .. Len(s)
  /\ \A i, j \in 1 .. Len(s) : i < j => <<s[i], s[j]>> \in R /\ s[i] # s[j]
  /\ \A x \in S : \E i \in 1 .. Len(s) : s[i] = x

LEMMA RankSorts ==
  ASSUME NEW S, IsFiniteSet(S), NEW R, StrictOrder(S, R),
         NEW s \in [1 .. Cardinality(S) -> S],
         \A n \in 1 .. Cardinality(S) : Cardinality(Below(S, R, s[n])) = n - 1
  PROVE  Sorts(s, S, R)
<1> DEFINE n == Cardinality(S)
           rank(x) == Cardinality(Below(S, R, x))
<1>1. n \in Nat
  BY Ranking
<1>2. \A x \in S : rank(x) \in Nat /\ rank(x) + 1 \in 1 .. n
  BY Ranking
<1>3. \A x, y \in S : <<x, y>> \in R => rank(x) < rank(y)
  BY Ranking
<1>4. s \in Seq(S) /\ Len(s) = n /\ DOMAIN s = 1 .. n
  BY <1>1
<1>5. \A i \in 1 .. n : s[i] \in S /\ rank(s[i]) = i - 1
  OBVIOUS
<1> HIDE DEF rank
<1>6. ASSUME NEW i \in 1 .. n, NEW j \in 1 .. n, i < j
      PROVE  <<s[i], s[j]>> \in R /\ s[i] # s[j]
  <2>1. s[i] # s[j]
    <3>1. i - 1 # j - 1
      BY <1>1, <1>6
    <3> QED BY <1>5, <3>1
  <2>2. <<s[j], s[i]>> \notin R
    <3>1. ~ (j - 1 < i - 1)
      BY <1>1, <1>6
    <3> QED BY <1>3, <1>5, <3>1
  <2> QED BY <1>5, <2>1, <2>2 DEF StrictOrder
<1>7. ASSUME NEW x \in S
      PROVE  \E i \in 1 .. n : s[i] = x
  <2>1. PICK i \in 1 .. n : i = rank(x) + 1
    BY <1>2
  <2>2. s[i] \in S /\ rank(s[i]) = rank(x)
    BY <1>1, <1>2, <1>5, <2>1
  <2>3. <<s[i], x>> \notin R /\ <<x, s[i]>> \notin R
    <3>1. rank(x) \in Int /\ ~ (rank(x) < rank(x))
      BY <1>2
    <3> QED BY <1>3, <2>2, <3>1
  <2>4. s[i] = x
    BY <2>2, <2>3 DEF StrictOrder
  <2> QED BY <2>4
<1> QED BY <1>1, <1>4, <1>6, <1>7 DEF Sorts

\* The places of a set of numbers.
Up(D) == {p \in D \X D : p[1] < p[2]}

LEMMA PlacesSort ==
  ASSUME NEW D, IsFiniteSet(D), D \subseteq Int
  PROVE  Sorts(Listed(D, LAMBDA m, n : m < n), D, Up(D))
<1>1. StrictOrder(D, Up(D))
  BY DEF StrictOrder, Up
<1>2. \A x \in D : {y \in D : y < x} = Below(D, Up(D), x)
  BY DEF Below, Up
<1> DEFINE s == Listed(D, LAMBDA m, n : m < n)
<1>3. s = [n \in 1 .. Cardinality(D) |->
             CHOOSE x \in D : Cardinality({y \in D : y < x}) = n - 1]
  BY DEF Listed
<1> HIDE DEF s
<1>4. ASSUME NEW n \in 1 .. Cardinality(D)
      PROVE  s[n] \in D /\ Cardinality(Below(D, Up(D), s[n])) = n - 1
  <2>1. \E x \in D : Cardinality({y \in D : y < x}) = n - 1
    <3>1. PICK x \in D : Cardinality(Below(D, Up(D), x)) = n - 1
      BY <1>1, Ranking
    <3> QED BY <1>2, <3>1
  <2>2. s[n] = CHOOSE x \in D : Cardinality({y \in D : y < x}) = n - 1
    BY <1>3
  <2>3. s[n] \in D /\ Cardinality({y \in D : y < s[n]}) = n - 1
    BY <2>1, <2>2
  <2> QED BY <1>2, <2>3
<1>5. s \in [1 .. Cardinality(D) -> D]
  BY <1>3, <1>4
<1>6. Sorts(s, D, Up(D))
  BY <1>1, <1>4, <1>5, RankSorts
<1> QED BY <1>6 DEF s

\* Places in ascending order, and what stands at them.
Ascends(f, D) ==
  /\ f \in [1 .. Cardinality(D) -> D]
  /\ \A i, j \in 1 .. Cardinality(D) : i < j => f[i] < f[j]
  /\ \A d \in D : \E i \in 1 .. Cardinality(D) : f[i] = d

PicksBy(f, s, D) ==
  Ascends(f, D) /\ Picked(s, D) = [i \in 1 .. Cardinality(D) |-> s[f[i]]]

LEMMA PickedIs ==
  ASSUME NEW T, NEW s \in Seq(T), NEW D \in SUBSET (DOMAIN s)
  PROVE  /\ IsFiniteSet(D) /\ Cardinality(D) \in Nat /\ Cardinality(D) <= Len(s)
         /\ \E f : PicksBy(f, s, D)
         /\ Picked(s, D) \in Seq(T) /\ Len(Picked(s, D)) = Cardinality(D)
         /\ \A n \in D : \E i \in 1 .. Cardinality(D) : Picked(s, D)[i] = s[n]
         /\ \A i \in 1 .. Cardinality(D) : \E n \in D : Picked(s, D)[i] = s[n]
<1>1. /\ DOMAIN s = 1 .. Len(s) /\ Len(s) \in Nat
      /\ \A n \in D : n \in Int /\ s[n] \in T
  BY ElementOfSeq
<1>2. IsFiniteSet(D) /\ Cardinality(D) \in Nat /\ Cardinality(D) <= Len(s)
  <2>1. IsFiniteSet(1 .. Len(s)) /\ Cardinality(1 .. Len(s)) = Len(s)
    BY <1>1, FS_Interval
  <2>2. D \in SUBSET (1 .. Len(s))
    BY <1>1
  <2>3. IsFiniteSet(D) /\ Cardinality(D) <= Cardinality(1 .. Len(s))
    BY <2>1, <2>2, FS_Subset
  <2> QED BY <2>1, <2>3, FS_CardinalityType
<1> DEFINE f == Listed(D, LAMBDA m, n : m < n)
<1>3. Sorts(f, D, Up(D))
  BY <1>1, <1>2, PlacesSort
<1>4. Picked(s, D) = [i \in DOMAIN f |-> s[f[i]]]
  BY DEF Picked
<1> HIDE DEF f
<1>5. Ascends(f, D) /\ DOMAIN f = 1 .. Cardinality(D)
  <2>1. f \in [1 .. Cardinality(D) -> D]
    BY <1>3 DEF Sorts
  <2> QED BY <1>3, <2>1 DEF Sorts, Ascends, Up
<1>6. Picked(s, D) = [i \in 1 .. Cardinality(D) |-> s[f[i]]]
  BY <1>4, <1>5
<1>7. Picked(s, D) \in [1 .. Cardinality(D) -> T]
  BY <1>1, <1>5, <1>6 DEF Ascends
<1>8. Picked(s, D) \in Seq(T) /\ Len(Picked(s, D)) = Cardinality(D)
  BY <1>2, <1>7
<1>9. \A n \in D : \E i \in 1 .. Cardinality(D) : Picked(s, D)[i] = s[n]
  BY <1>5, <1>6 DEF Ascends
<1>10. \A i \in 1 .. Cardinality(D) : \E n \in D : Picked(s, D)[i] = s[n]
  BY <1>5, <1>6 DEF Ascends
<1>11. PicksBy(f, s, D)
  BY <1>5, <1>6 DEF PicksBy
<1> QED BY <1>2, <1>8, <1>9, <1>10, <1>11

LEMMA PickedAll ==
  ASSUME NEW T, NEW s \in Seq(T)
  PROVE  Picked(s, DOMAIN s) = s
<1> DEFINE n == Len(s)
<1>1. n \in Nat /\ DOMAIN s = 1 .. n
  OBVIOUS
<1>2. IsFiniteSet(1 .. n) /\ Cardinality(1 .. n) = n
  BY <1>1, FS_Interval
<1>3. ASSUME NEW x \in 1 .. n
      PROVE  Cardinality({y \in 1 .. n : y < x}) = x - 1
  <2>1. x \in Nat /\ x >= 1 /\ {y \in 1 .. n : y < x} = 1 .. (x - 1)
    BY <1>1
  <2>2. Cardinality(1 .. (x - 1)) = x - 1
    BY <2>1, FS_Interval
  <2> QED BY <2>1, <2>2
<1> HIDE DEF n
<1>4. ASSUME NEW i \in 1 .. n
      PROVE  (CHOOSE x \in 1 .. n : Cardinality({y \in 1 .. n : y < x}) = i - 1) = i
  <2> DEFINE c == CHOOSE x \in 1 .. n : Cardinality({y \in 1 .. n : y < x}) = i - 1
  <2>1. i \in 1 .. n /\ Cardinality({y \in 1 .. n : y < i}) = i - 1
    BY <1>3
  <2>2. c \in 1 .. n /\ Cardinality({y \in 1 .. n : y < c}) = i - 1
    BY <2>1
  <2> HIDE DEF c
  <2>3. c - 1 = i - 1
    BY <1>3, <2>2
  <2>4. c = i
    BY <1>1, <2>2, <2>3
  <2> QED BY <2>4 DEF c
<1>5. Listed(1 .. n, LAMBDA k, m : k < m) = [i \in 1 .. n |-> i]
  BY <1>2, <1>4 DEF Listed
<1>6. Picked(s, 1 .. n) = [i \in 1 .. n |-> s[i]]
  BY <1>5 DEF Picked
<1> QED BY <1>1, <1>6 DEF n

-----------------------------------------------------------------------------
(***************************************************************************)
(* The three other orders.                                                 *)
(***************************************************************************)

Sooner(rows) == {p \in rows \X rows : Ahead(p[1], p[2])}

Rated(rows) ==
  /\ IsFiniteSet(rows)
  /\ \A r \in rows : r.score \in Int /\ r.place \in Int
  /\ \A q, r \in rows : q.place = r.place => q = r

LEMMA AheadSorts ==
  ASSUME NEW rows, Rated(rows)
  PROVE  StrictOrder(rows, Sooner(rows)) /\ Sorts(Listed(rows, Ahead), rows, Sooner(rows))
<1>1. StrictOrder(rows, Sooner(rows))
  BY DEF StrictOrder, Sooner, Ahead, Rated
<1>2. \A x \in rows : {y \in rows : Ahead(y, x)} = Below(rows, Sooner(rows), x)
  BY DEF Below, Sooner
<1> DEFINE s == Listed(rows, Ahead)
<1>3. s = [n \in 1 .. Cardinality(rows) |->
             CHOOSE x \in rows : Cardinality({y \in rows : Ahead(y, x)}) = n - 1]
  BY DEF Listed
<1> HIDE DEF s
<1>4. ASSUME NEW n \in 1 .. Cardinality(rows)
      PROVE  s[n] \in rows /\ Cardinality(Below(rows, Sooner(rows), s[n])) = n - 1
  <2>1. \E x \in rows : Cardinality({y \in rows : Ahead(y, x)}) = n - 1
    <3>1. PICK x \in rows : Cardinality(Below(rows, Sooner(rows), x)) = n - 1
      BY <1>1, Ranking DEF Rated
    <3> QED BY <1>2, <3>1
  <2>2. s[n] = CHOOSE x \in rows : Cardinality({y \in rows : Ahead(y, x)}) = n - 1
    BY <1>3
  <2>3. s[n] \in rows /\ Cardinality({y \in rows : Ahead(y, s[n])}) = n - 1
    BY <2>1, <2>2
  <2> QED BY <1>2, <2>3
<1>5. s \in [1 .. Cardinality(rows) -> rows]
  BY <1>3, <1>4
<1>6. Sorts(s, rows, Sooner(rows))
  BY <1>1, <1>4, <1>5, RankSorts DEF Rated
<1> QED BY <1>1, <1>6 DEF s
-----------------------------------------------------------------------------
(***************************************************************************)
(* The words of a plan.                                                    *)
(***************************************************************************)

LEMMA FirstOfIs ==
  ASSUME NEW T, NEW s \in Seq(T), NEW max \in Nat
  PROVE  LET f == FirstOf(s, max) IN
         /\ f \in Seq(T) /\ Len(f) <= max /\ Len(f) <= Len(s) /\ Len(f) = Smaller(max, Len(s))
         /\ \A i \in 1 .. Len(f) : i \in 1 .. Len(s) /\ f[i] = s[i]
         /\ Len(s) <= max => f = s
<1> DEFINE k == Smaller(max, Len(s))
<1>1. k \in 0 .. Len(s) /\ k <= max /\ (Len(s) <= max => k = Len(s)) /\ Len(s) \in Nat
  BY DEF Smaller
<1> HIDE DEF k
<1>2. /\ SubSeq(s, 1, k) \in Seq(T) /\ Len(SubSeq(s, 1, k)) = k
      /\ \A i \in 1 .. k : SubSeq(s, 1, k)[i] = s[i]
  BY <1>1
<1>3. ASSUME Len(s) <= max
      PROVE  SubSeq(s, 1, k) = s
  BY <1>1, <1>2, <1>3, SeqEqual
<1> QED BY <1>1, <1>2, <1>3 DEF FirstOf, k

LEMMA UniqIs ==
  ASSUME NEW T, NEW words \in Seq(T), NEW max \in Nat
  PROVE  LET u == Uniq(words, max) IN
         /\ u \in Seq(T) /\ Len(u) <= max /\ Distinct(u)
         /\ \A i \in DOMAIN u : \E n \in DOMAIN words : u[i] = words[n]
         /\ Distinct(words) /\ Len(words) <= max => u = words
<1> DEFINE D == {n \in DOMAIN words : \A m \in 1 .. n - 1 : words[m] # words[n]}
           k == Cardinality(D)
           s == Picked(words, D)
<1>1. D \in SUBSET (DOMAIN words) /\ DOMAIN words = 1 .. Len(words) /\ Len(words) \in Nat
  OBVIOUS
<1> HIDE DEF D
<1>2. /\ s \in Seq(T) /\ Len(s) = k /\ k \in Nat
      /\ \A i \in 1 .. k : \E n \in D : s[i] = words[n]
  BY <1>1, PickedIs
<1>3. PICK f : PicksBy(f, words, D)
  BY <1>1, PickedIs
<1>4. ASSUME NEW i \in 1 .. k, NEW j \in 1 .. k, i < j
      PROVE  s[i] # s[j]
  <2>1. f[i] \in D /\ f[j] \in D /\ f[i] < f[j]
    BY <1>3, <1>4 DEF PicksBy, Ascends
  <2>2. f[i] \in 1 .. f[j] - 1
    BY <1>1, <2>1
  <2>3. words[f[i]] # words[f[j]]
    BY <2>1, <2>2 DEF D
  <2> QED BY <1>3, <2>3 DEF PicksBy
<1>5. ASSUME Distinct(words)
      PROVE  D = DOMAIN words
  BY <1>1, <1>5 DEF Distinct, D
<1>6. Distinct(words) => s = words
  BY <1>5, PickedAll
<1> DEFINE u == FirstOf(s, max)
<1>7. u = Uniq(words, max)
  BY DEF Uniq, D
<1>8. /\ u \in Seq(T) /\ Len(u) <= max
      /\ \A i \in 1 .. Len(u) : i \in 1 .. k /\ u[i] = s[i]
      /\ Len(s) <= max => u = s
  BY <1>2, FirstOfIs
<1> HIDE DEF s, u, k
<1>9. DOMAIN u = 1 .. Len(u) /\ Len(u) \in Nat
  BY <1>8
<1>10. Distinct(u)
  <2> SUFFICES ASSUME NEW m \in DOMAIN u, NEW n \in DOMAIN u, u[m] = u[n], m # n
               PROVE  FALSE
    BY DEF Distinct
  <2>1. m \in 1 .. k /\ n \in 1 .. k /\ s[m] = s[n]
    BY <1>8, <1>9
  <2>2. m < n \/ n < m
    BY <1>2, <2>1
  <2> QED BY <1>4, <2>1, <2>2
<1>11. \A i \in DOMAIN u : \E n \in DOMAIN words : u[i] = words[n]
  BY <1>1, <1>2, <1>8, <1>9
<1>12. Distinct(words) /\ Len(words) <= max => u = words
  BY <1>6, <1>8
<1> QED BY <1>7, <1>8, <1>10, <1>11, <1>12

\* Words without capitals of the given kinds.
Settle(kinds) == {w \in Words : ~ w.capital /\ w.kind \in kinds}

Terms == {"word", "padded", "phrase", "symbol"}

LEMMA CleanListIs ==
  ASSUME NEW words \in Seq(Words), NEW max \in Nat
  PROVE  LET u == CleanList(words, max) IN
         /\ u \in Seq(Settle(Terms)) /\ Len(u) <= max /\ Distinct(u)
         /\ CleanList(u, max) = u
<1> DEFINE D(ws) == {n \in DOMAIN ws : ws[n].kind \notin {"blank", "short", "stop"}}
           low(s) == [n \in DOMAIN s |-> Lower(s[n])]
<1>1. ASSUME NEW ws \in Seq(Words)
      PROVE  low(Picked(ws, D(ws))) \in Seq(Settle(Terms))
  <2> DEFINE k == Picked(ws, D(ws))
  <2>0. D(ws) \in SUBSET (DOMAIN ws)
    OBVIOUS
  <2> HIDE DEF D
  <2>1. /\ k \in Seq(Words) /\ Len(k) = Cardinality(D(ws))
        /\ \A i \in 1 .. Cardinality(D(ws)) : \E n \in D(ws) : k[i] = ws[n]
    BY <2>0, PickedIs
  <2> HIDE DEF k
  <2>2. DOMAIN k = 1 .. Len(k) /\ Len(k) \in Nat
    BY <2>1
  <2>3. ASSUME NEW i \in 1 .. Len(k)
        PROVE  Lower(k[i]) \in Settle(Terms)
    <3>1. PICK n \in D(ws) : k[i] = ws[n]
      BY <2>1
    <3>2. k[i] \in Words /\ k[i].kind \notin {"blank", "short", "stop"}
      BY <2>1, <2>2, <3>1 DEF D
    <3> QED BY <3>2 DEF Lower, Settle, Terms, Words
  <2>4. low(k) \in [1 .. Len(k) -> Settle(Terms)]
    BY <2>2, <2>3
  <2> QED BY <2>2, <2>4 DEF k
<1>2. ASSUME NEW ws \in Seq(Settle(Terms))
      PROVE  low(Picked(ws, D(ws))) = ws
  <2>1. /\ DOMAIN ws = 1 .. Len(ws) /\ Len(ws) \in Nat
        /\ \A n \in DOMAIN ws : ws[n] \in Settle(Terms)
    OBVIOUS
  <2>2. D(ws) = DOMAIN ws
    BY <2>1 DEF Settle, Terms
  <2>3. Picked(ws, D(ws)) = ws
    BY <2>2, PickedAll
  <2>4. \A w \in Settle(Terms) : Lower(w) = w
    BY DEF Settle, Lower, Words
  <2>5. low(ws) = [n \in DOMAIN ws |-> ws[n]]
    BY <2>1, <2>4
  <2>6. [n \in DOMAIN ws |-> ws[n]] = ws
    OBVIOUS
  <2>7. low(ws) = ws
    BY ONLY <2>5, <2>6
  <2> HIDE DEF low, D
  <2> QED BY ONLY <2>3, <2>7
<1>3. \A ws \in Seq(Words) : CleanList(ws, max) = Uniq(low(Picked(ws, D(ws))), max)
  BY DEF CleanList
<1> HIDE DEF low, D
<1> DEFINE u == CleanList(words, max)
<1>4. /\ u \in Seq(Settle(Terms)) /\ Len(u) <= max /\ Distinct(u)
  BY <1>1, <1>3, UniqIs
<1>5. u \in Seq(Words)
  BY <1>4, SeqMonotonic DEF Settle
<1>6. CleanList(u, max) = Uniq(u, max)
  BY <1>2, <1>3, <1>4, <1>5
<1>7. Uniq(u, max) = u
  BY <1>4, UniqIs
<1> QED BY <1>4, <1>6, <1>7
\* A settled keyword; "short" is what is left of one letter and a zero-width character.
Tokens == {"word", "short"}

LEMMA CleanKeywordsIs ==
  ASSUME NEW words \in Seq(Words), NEW max \in Nat
  PROVE  LET u == CleanKeywords(words, max) IN
         /\ u \in Seq(Settle(Tokens)) /\ Len(u) <= max /\ Len(u) <= 5 /\ Distinct(u)
         /\ CleanKeywords(u, max) = u \/ \E n \in DOMAIN words : words[n].kind = "padded"
<1> DEFINE D(ws) == {n \in DOMAIN ws : ws[n].kind \in {"word", "padded"}}
           token(w) == [Lower(w) EXCEPT !.kind = IF @ = "padded" THEN "short" ELSE @]
           low(s) == [n \in DOMAIN s |-> token(s[n])]
           most == Smaller(5, max)
<1>1. ASSUME NEW ws \in Seq(Words), NEW kinds,
             \A n \in DOMAIN ws : ws[n].kind \in {"word", "padded"} =>
               (IF ws[n].kind = "padded" THEN "short" ELSE "word") \in kinds
      PROVE  low(Picked(ws, D(ws))) \in Seq(Settle(kinds))
  <2> DEFINE k == Picked(ws, D(ws))
  <2>0. D(ws) \in SUBSET (DOMAIN ws)
    OBVIOUS
  <2> HIDE DEF D
  <2>1. /\ k \in Seq(Words) /\ Len(k) = Cardinality(D(ws))
        /\ \A i \in 1 .. Cardinality(D(ws)) : \E n \in D(ws) : k[i] = ws[n]
    BY <2>0, PickedIs
  <2> HIDE DEF k
  <2>2. DOMAIN k = 1 .. Len(k) /\ Len(k) \in Nat
    BY <2>1
  <2>3. ASSUME NEW i \in 1 .. Len(k)
        PROVE  token(k[i]) \in Settle(kinds)
    <3>1. PICK n \in D(ws) : k[i] = ws[n]
      BY <2>1
    <3>2. /\ k[i] \in Words /\ k[i].kind \in {"word", "padded"}
          /\ (IF k[i].kind = "padded" THEN "short" ELSE "word") \in kinds
      BY <1>1, <2>0, <2>1, <2>2, <3>1 DEF D
    <3> QED BY <3>2 DEF Lower, Settle, Words
  <2>4. low(k) \in [1 .. Len(k) -> Settle(kinds)]
    BY <2>2, <2>3
  <2> QED BY <2>2, <2>4 DEF k
<1>2. ASSUME NEW ws \in Seq(Settle({"word"}))
      PROVE  low(Picked(ws, D(ws))) = ws
  <2>1. /\ DOMAIN ws = 1 .. Len(ws) /\ Len(ws) \in Nat
        /\ \A n \in DOMAIN ws : ws[n] \in Settle({"word"})
    OBVIOUS
  <2>2. D(ws) = DOMAIN ws
    BY <2>1 DEF Settle
  <2>3. Picked(ws, D(ws)) = ws
    BY <2>2, PickedAll
  <2>4. \A w \in Settle({"word"}) : token(w) = w
    BY DEF Settle, Lower, Words
  <2>5. low(ws) = [n \in DOMAIN ws |-> ws[n]]
    BY <2>1, <2>4
  <2>6. [n \in DOMAIN ws |-> ws[n]] = ws
    OBVIOUS
  <2> HIDE DEF low, D
  <2> QED BY <2>3, <2>5, <2>6
<1>3. \A ws \in Seq(Words) : CleanKeywords(ws, max) = Uniq(low(Picked(ws, D(ws))), most)
  BY DEF CleanKeywords
<1>4. most \in Nat /\ most <= 5 /\ most <= max
  BY DEF Smaller
<1> HIDE DEF low, D, most
<1> DEFINE u == CleanKeywords(words, max)
<1>5. /\ u \in Seq(Settle(Tokens)) /\ Len(u) <= most /\ Distinct(u)
  <2>1. low(Picked(words, D(words))) \in Seq(Settle(Tokens))
    BY <1>1 DEF Tokens
  <2> QED BY <1>3, <1>4, <2>1, UniqIs
<1>6. Len(u) <= max /\ Len(u) <= 5
  BY <1>4, <1>5
<1>7. ASSUME \A n \in DOMAIN words : words[n].kind # "padded"
      PROVE  CleanKeywords(u, max) = u
  <2>1. low(Picked(words, D(words))) \in Seq(Settle({"word"}))
    BY <1>1, <1>7
  <2>2. u \in Seq(Settle({"word"}))
    BY <1>3, <1>4, <2>1, UniqIs
  <2>3. u \in Seq(Words)
    BY <2>2, SeqMonotonic DEF Settle
  <2>4. CleanKeywords(u, max) = Uniq(u, most)
    BY <1>2, <1>3, <2>2, <2>3
  <2>5. Uniq(u, most) = u
    BY <1>4, <1>5, UniqIs
  <2> QED BY <2>4, <2>5
<1> QED BY <1>5, <1>6, <1>7
-----------------------------------------------------------------------------
(***************************************************************************)
(* The plan.                                                               *)
(***************************************************************************)

\* A whole quotient is the quotient.
LEMMA WholeQuotient ==
  ASSUME NEW a \in Int, NEW b \in Int, b > 0, NEW q \in Int, a = b * q
  PROVE  a \div b = q
<1>1. /\ a = b * (a \div b) + (a % b) /\ a % b \in 0 .. b - 1 /\ a \div b \in Int
  BY Z3
<1>2. b * (q - (a \div b)) \in 0 .. b - 1
  BY <1>1, Z3
<1> DEFINE d == q - (a \div b)
<1>3. d \in Int /\ b * d \in 0 .. b - 1
  BY <1>1, <1>2
<1> HIDE DEF d
<1>4. d = 0
  BY <1>3, Z3
<1> QED BY <1>1, <1>4 DEF d

LEMMA WeightsSum ==
  ASSUME NEW raw \in RawPlans, Accepts(raw)
  PROVE  LET w == Weights(raw) IN
         w.chunk \in 0 .. 30 /\ w.title \in 0 .. 30 /\ w.chunk + w.title = 30
<1> DEFINE c == raw.chunk
           t == raw.title
<1>1. c \in 0 .. 30 /\ t \in 0 .. 30 /\ (c + t > 0 => (30 * c) % (c + t) = 0)
  BY DEF RawPlans, Accepts
<1> HIDE DEF c, t
<1>2. ASSUME c + t > 0
      PROVE  LET q == (30 * c) \div (c + t) IN q \in 0 .. 30 /\ (30 * t) \div (c + t) = 30 - q
  <2> DEFINE q == (30 * c) \div (c + t)
  <2>1. q \in Int /\ 30 * c = (c + t) * q
    BY <1>1, <1>2, Z3
  <2> HIDE DEF q
  <2>2. 30 * t = (c + t) * (30 - q)
    BY <1>1, <2>1, Z3
  <2>3. (30 * t) \div (c + t) = 30 - q
    BY <1>1, <1>2, <2>1, <2>2, WholeQuotient
  <2>4. q >= 0 /\ q <= 30
    BY <1>1, <1>2, <2>1, Z3
  <2> QED BY <2>1, <2>3, <2>4 DEF q
<1>3. CASE c + t > 0
  BY <1>2, <1>3 DEF Weights, c, t
<1>4. CASE ~ (c + t > 0)
  BY <1>4 DEF Weights, c, t
<1> QED BY <1>3, <1>4
\* A plan as generateSearchPlan leaves it.
Ready(p) ==
  /\ p.topK \in 1 .. 10 /\ p.limit \in 1 .. 20 /\ p.threshold \in 0 .. 10
  /\ p.chunk \in 0 .. 30 /\ p.title \in 0 .. 30 /\ p.chunk + p.title = 30
  /\ p.enabled \in BOOLEAN /\ p.bias \in Biases /\ p.alpha \in 0 .. 100
  /\ p.maxRewrites \in 0 .. 4 /\ p.maxKeywords \in 0 .. 5
  /\ p.rewrites \in Seq(Settle(Terms)) /\ Len(p.rewrites) <= p.maxRewrites
  /\ Distinct(p.rewrites) /\ CleanList(p.rewrites, p.maxRewrites) = p.rewrites
  /\ p.keywords \in Seq(Settle(Tokens)) /\ Len(p.keywords) <= 5
  /\ Distinct(p.keywords)

LEMMA Normalized ==
  ASSUME NEW raw \in RawPlans, NEW base, Accepts(raw)
  PROVE  LET p == Normalize(raw, base) IN
         /\ Ready(p)
         /\ p.time = TimeFilter(raw, base)
         /\ p.enabled = raw.enabled
         /\ \/ CleanKeywords(p.keywords, p.maxKeywords) = p.keywords
            \/ \E n \in DOMAIN raw.keywords : raw.keywords[n].kind = "padded"
<1> DEFINE p == Normalize(raw, base)
           bias == IF raw.bias = "none" THEN "balanced" ELSE raw.bias
           maxRewrites == Or(raw.maxRewrites, 3)
           maxKeywords == Smaller(5, Or(raw.maxKeywords, 6))
<1>1. /\ p.topK = Or(raw.topK, 5) /\ p.limit = Or(raw.limit, 5)
      /\ p.threshold = Or(raw.threshold, 2)
      /\ p.chunk = Weights(raw).chunk /\ p.title = Weights(raw).title
      /\ p.enabled = raw.enabled /\ p.bias = bias
      /\ p.alpha = Or(raw.alpha, Preset[bias].alpha)
      /\ p.maxRewrites = maxRewrites /\ p.maxKeywords = maxKeywords
      /\ p.rewrites = CleanList(raw.rewrites, maxRewrites)
      /\ p.keywords = CleanKeywords(raw.keywords, maxKeywords)
      /\ p.time = TimeFilter(raw, base)
  BY DEF Normalize
<1>2. /\ raw.rewrites \in Seq(Words) /\ raw.keywords \in Seq(Words) /\ raw.enabled \in BOOLEAN
      /\ raw.alpha \in Int
  BY DEF RawPlans
<1>3. bias \in Biases /\ maxRewrites \in 0 .. 4 /\ maxKeywords \in 0 .. 5
  BY DEF Accepts, Biases, Smaller
<1>4. Or(raw.alpha, Preset[bias].alpha) \in 0 .. 100
  <2>1. \A b \in Biases : Preset[b].alpha \in 0 .. 100
    BY DEF Biases, Preset
  <2>2. Or(raw.alpha, 0) \in 0 .. 100
    BY DEF Accepts
  <2> HIDE DEF bias
  <2>3. Preset[bias].alpha \in 0 .. 100
    BY <1>3, <2>1
  <2> QED BY <2>2, <2>3 DEF Or
<1>5. p.topK \in 1 .. 10 /\ p.limit \in 1 .. 20 /\ p.threshold \in 0 .. 10
  BY <1>1 DEF Accepts
<1>6. p.chunk \in 0 .. 30 /\ p.title \in 0 .. 30 /\ p.chunk + p.title = 30
  BY <1>1, WeightsSum
<1> HIDE DEF p, bias, maxRewrites, maxKeywords
<1>7. /\ p.rewrites \in Seq(Settle(Terms)) /\ Len(p.rewrites) <= p.maxRewrites
      /\ Distinct(p.rewrites) /\ CleanList(p.rewrites, p.maxRewrites) = p.rewrites
  BY <1>1, <1>2, <1>3, CleanListIs
<1>8. /\ p.keywords \in Seq(Settle(Tokens)) /\ Len(p.keywords) <= 5
      /\ Distinct(p.keywords)
      /\ \/ CleanKeywords(p.keywords, p.maxKeywords) = p.keywords
         \/ \E n \in DOMAIN raw.keywords : raw.keywords[n].kind = "padded"
  <2>1. maxKeywords \in Nat
    BY <1>3
  <2>2. /\ p.keywords \in Seq(Settle(Tokens)) /\ Len(p.keywords) <= 5
        /\ Distinct(p.keywords)
    BY <1>1, <1>2, <2>1, CleanKeywordsIs
  <2>3. \/ CleanKeywords(CleanKeywords(raw.keywords, maxKeywords), maxKeywords)
             = CleanKeywords(raw.keywords, maxKeywords)
        \/ \E n \in DOMAIN raw.keywords : raw.keywords[n].kind = "padded"
    BY <1>2, <2>1, CleanKeywordsIs
  <2> QED BY <1>1, <2>2, <2>3
<1>9. Ready(p)
  BY <1>1, <1>2, <1>3, <1>4, <1>5, <1>6, <1>7, <1>8 DEF Ready
<1> QED BY <1>1, <1>8, <1>9 DEF p

\* The filters of a settled plan stay as they are.
LEMMA TimeSettled ==
  ASSUME NEW raw, NEW base, NEW p, p.time = TimeFilter(raw, base)
  PROVE  TimeFilter(p, 0) = p.time
<1> DEFINE range(r) == [type |-> "absolute", from |-> {r.from}, to |-> {r.to}]
<1>1. ASSUME NEW f \in p.time
      PROVE  \E a, b : f = [type |-> "absolute", from |-> {a}, to |-> {b}]
  <2>1. PICK g \in raw.time : f \in {range(r) : r \in ToAbsoluteRangeKst(g, base)}
    BY <1>1 DEF TimeFilter
  <2>2. PICK r \in ToAbsoluteRangeKst(g, base) : f = range(r)
    BY <2>1
  <2> QED BY <2>2
<1>2. ASSUME NEW a, NEW b, NEW f, f = [type |-> "absolute", from |-> {a}, to |-> {b}]
      PROVE  {range(r) : r \in ToAbsoluteRangeKst(f, 0)} = {f}
  <2>1. ToAbsoluteRangeKst(f, 0) = {[from |-> a, to |-> b]}
    <3>1. f.type = "absolute" /\ f.from = {a} /\ f.to = {b}
      BY <1>2
    <3>2. AbsoluteRange(f) = {[from |-> a, to |-> b]}
      BY <3>1 DEF AbsoluteRange
    <3> QED BY <3>1, <3>2 DEF ToAbsoluteRangeKst
  <2>2. range([from |-> a, to |-> b]) = f
    BY <1>2
  <2> HIDE DEF range
  <2> QED BY <2>1, <2>2
<1>3. \A f \in p.time : {range(r) : r \in ToAbsoluteRangeKst(f, 0)} = {f}
  <2> HIDE DEF range
  <2> TAKE f \in p.time
  <2>1. PICK a, b : f = [type |-> "absolute", from |-> {a}, to |-> {b}]
    BY <1>1
  <2> QED BY <1>2, <2>1
<1> QED BY <1>3 DEF TimeFilter

\* A settled plan is accepted, and becomes itself if its keywords do.
LEMMA ReadySettled ==
  ASSUME NEW raw \in RawPlans, NEW base, Accepts(raw)
  PROVE  LET p == Normalize(raw, base) IN
         /\ Accepts(p)
         /\ CleanKeywords(p.keywords, p.maxKeywords) = p.keywords => Normalize(p, 0) = p
<1> DEFINE p == Normalize(raw, base)
<1>1. Ready(p) /\ p.time = TimeFilter(raw, base)
  BY Normalized
<1>2. p = [topK |-> p.topK, limit |-> p.limit, threshold |-> p.threshold,
           chunk |-> p.chunk, title |-> p.title, enabled |-> p.enabled, bias |-> p.bias,
           alpha |-> p.alpha, maxRewrites |-> p.maxRewrites, maxKeywords |-> p.maxKeywords,
           rewrites |-> p.rewrites, keywords |-> p.keywords, time |-> p.time]
  BY DEF Normalize
<1> HIDE DEF p
<1>3. Accepts(p)
  BY <1>1, SMTT(40) DEF Accepts, Ready, Or, Absent, Biases
<1>4. /\ Or(p.topK, 5) = p.topK /\ Or(p.limit, 5) = p.limit /\ Or(p.threshold, 2) = p.threshold
      /\ Or(p.alpha, Preset[p.bias].alpha) = p.alpha
      /\ Or(p.maxRewrites, 3) = p.maxRewrites
      /\ Smaller(5, Or(p.maxKeywords, 6)) = p.maxKeywords
      /\ p.bias # "none"
  <2>1. /\ p.topK \in 1 .. 10 /\ p.limit \in 1 .. 20 /\ p.threshold \in 0 .. 10
        /\ p.bias \in Biases /\ p.alpha \in 0 .. 100
        /\ p.maxRewrites \in 0 .. 4 /\ p.maxKeywords \in 0 .. 5
    BY <1>1 DEF Ready
  <2>2. \A v \in Nat : \A d : Or(v, d) = v
    BY DEF Or, Absent
  <2>3. /\ p.topK \in Nat /\ p.limit \in Nat /\ p.threshold \in Nat /\ p.alpha \in Nat
        /\ p.maxRewrites \in Nat /\ p.maxKeywords \in Nat
    BY <2>1
  <2>4. Smaller(5, p.maxKeywords) = p.maxKeywords
    BY <2>1 DEF Smaller
  <2>5. p.bias # "none"
    BY <2>1 DEF Biases
  <2> QED BY <2>2, <2>3, <2>4, <2>5
<1>5. Weights(p).chunk = p.chunk /\ Weights(p).title = p.title
  <2>1. p.chunk \in 0 .. 30 /\ p.title \in 0 .. 30 /\ p.chunk + p.title = 30
    BY <1>1 DEF Ready
  <2>2. (30 * p.chunk) \div 30 = p.chunk /\ (30 * p.title) \div 30 = p.title
    BY <2>1
  <2>3. Weights(p) = [chunk |-> (30 * p.chunk) \div 30, title |-> (30 * p.title) \div 30]
    BY <2>1 DEF Weights
  <2> QED BY <2>2, <2>3
<1>6. TimeFilter(p, 0) = p.time
  BY <1>1, TimeSettled
<1>7. ASSUME CleanKeywords(p.keywords, p.maxKeywords) = p.keywords
      PROVE  Normalize(p, 0) = p
  <2>1. CleanList(p.rewrites, p.maxRewrites) = p.rewrites
    BY <1>1 DEF Ready
  <2> QED BY <1>2, <1>4, <1>5, <1>6, <1>7, <2>1 DEF Normalize
<1> QED BY <1>3, <1>7 DEF p
-----------------------------------------------------------------------------
(***************************************************************************)
(* Rows and candidates.                                                    *)
(***************************************************************************)

LEMMA MaxIs ==
  ASSUME NEW S \in SUBSET Int, IsFiniteSet(S), NEW e \in S
  PROVE  Max(S) \in S /\ \A x \in S : x <= Max(S)
<1> DEFINE f == Listed(S, LAMBDA m, n : m < n)
           k == Cardinality(S)
<1>1. Sorts(f, S, Up(S)) /\ k \in Nat
  BY PlacesSort, FS_CardinalityType
<1> HIDE DEF f
<1>2. PICK i \in 1 .. k : f[i] = e
  BY <1>1 DEF Sorts
<1>3. f[k] \in S
  BY <1>1, <1>2 DEF Sorts
<1>4. ASSUME NEW x \in S
      PROVE  f[k] >= x
  <2>1. PICK j \in 1 .. k : f[j] = x
    BY <1>1 DEF Sorts
  <2>2. j = k \/ j < k
    BY <1>1
  <2>3. ASSUME j < k
        PROVE  x < f[k]
    <3>1. <<f[j], f[k]>> \in Up(S)
      BY <1>1, <2>3 DEF Sorts
    <3> QED BY <2>1, <3>1 DEF Up
  <2>4. x \in Int /\ f[k] \in Int
    BY <1>3
  <2> QED BY <2>1, <2>2, <2>3, <2>4
<1>5. /\ Max(S) \in S
      /\ \A x \in S : Max(S) >= x
  BY <1>3, <1>4 DEF Max
<1> QED BY <1>5

LEMMA MinIs ==
  ASSUME NEW S \in SUBSET Int, IsFiniteSet(S), NEW e \in S
  PROVE  Min(S) \in S /\ \A x \in S : Min(S) <= x
<1> DEFINE f == Listed(S, LAMBDA m, n : m < n)
           k == Cardinality(S)
<1>1. Sorts(f, S, Up(S)) /\ k \in Nat
  BY PlacesSort, FS_CardinalityType
<1> HIDE DEF f
<1>2. PICK i \in 1 .. k : f[i] = e
  BY <1>1 DEF Sorts
<1>3. f[1] \in S
  BY <1>1, <1>2 DEF Sorts
<1>4. ASSUME NEW x \in S
      PROVE  f[1] <= x
  <2>1. PICK j \in 1 .. k : f[j] = x
    BY <1>1 DEF Sorts
  <2>2. j = 1 \/ 1 < j
    BY <1>1
  <2>3. ASSUME 1 < j
        PROVE  f[1] < x
    <3>1. <<f[1], f[j]>> \in Up(S)
      BY <1>1, <2>3 DEF Sorts
    <3> QED BY <2>1, <3>1 DEF Up
  <2>4. x \in Int /\ f[1] \in Int
    BY <1>3
  <2> QED BY <2>1, <2>2, <2>3, <2>4
<1>5. /\ Min(S) \in S
      /\ \A x \in S : Min(S) <= x
  BY <1>3, <1>4 DEF Min
<1> QED BY <1>5

LEMMA ImageFinite ==
  ASSUME NEW S, IsFiniteSet(S), NEW T, NEW f \in [S -> T]
  PROVE  IsFiniteSet({f[x] : x \in S})
<1>1. f \in Surjection(S, {f[x] : x \in S})
  BY DEF Surjection
<1> QED BY <1>1, FS_Surjection

LEMMA ChunksFinite == IsFiniteSet(Chunks)
<1> DEFINE of(p) == {[post |-> p, index |-> n] : n \in 0 .. ChunkCount[p] - 1}
<1>1. ASSUME NEW p \in Posts
      PROVE  IsFiniteSet(of(p))
  <2>1. IsFiniteSet(0 .. ChunkCount[p] - 1)
    BY FS_Interval, SearchAssumption
  <2> DEFINE f == [n \in 0 .. ChunkCount[p] - 1 |-> [post |-> p, index |-> n]]
  <2>2. IsFiniteSet({f[n] : n \in 0 .. ChunkCount[p] - 1})
    <3>1. f \in [0 .. ChunkCount[p] - 1 -> of(p)]
      OBVIOUS
    <3> HIDE DEF f, of
    <3> QED BY <2>1, <3>1, ImageFinite
  <2>3. {f[n] : n \in 0 .. ChunkCount[p] - 1} = of(p)
    OBVIOUS
  <2> QED BY <2>2, <2>3
<1> HIDE DEF of
<1>2. IsFiniteSet({of(p) : p \in Posts})
  <2> DEFINE f == [p \in Posts |-> of(p)]
  <2>1. f \in [Posts -> {of(p) : p \in Posts}]
    OBVIOUS
  <2>2. IsFiniteSet({f[p] : p \in Posts})
    <3>1. IsFiniteSet(Posts)
      BY SearchAssumption
    <3> HIDE DEF f
    <3> QED BY <2>1, <3>1, ImageFinite
  <2>3. {f[p] : p \in Posts} = {of(p) : p \in Posts}
    OBVIOUS
  <2> QED BY <2>2, <2>3
<1>3. IsFiniteSet(UNION {of(p) : p \in Posts})
  BY <1>1, <1>2, FS_UNION
<1> QED BY <1>3 DEF Chunks, of

LEMMA ChunkIs ==
  ASSUME NEW c \in Chunks
  PROVE  /\ c.post \in Posts /\ c.index \in Nat
         /\ c.post \in Int /\ c.index \in Int
         /\ c = [post |-> c.post, index |-> c.index]
<1>1. PICK p \in Posts : c \in {[post |-> p, index |-> n] : n \in 0 .. ChunkCount[p] - 1}
  BY DEF Chunks
<1>2. PICK n \in 0 .. ChunkCount[p] - 1 : c = [post |-> p, index |-> n]
  BY <1>1
<1>3. ChunkCount[p] \in Nat /\ p \in Nat
  BY SearchAssumption
<1> QED BY <1>2, <1>3

\* The order of the rows of one statement.
FoundBefore(hits, kind, c, d) ==
  IF kind = "text" \/ hits[c] = hits[d] THEN Before(c, d) ELSE hits[c] > hits[d]

Found(S, hits, kind) == {p \in S \X S : FoundBefore(hits, kind, p[1], p[2])}

Hit(hits) == \E D \in SUBSET Chunks : hits \in [D -> Scores]

LEMMA ScoresAre == Scores \subseteq Int /\ IsFiniteSet(Scores) /\ 0 \in Scores
<1> DEFINE low == -50  high == 50
<1>1. low \in Int /\ high \in Int
  OBVIOUS
<1>2. Scores \subseteq Int /\ 0 \in Scores
  BY DEF Scores
<1> HIDE DEF low, high
<1>3. IsFiniteSet(low .. high)
  BY ONLY <1>1, FS_Interval
<1> QED BY <1>2, <1>3 DEF Scores, low, high

LEMMA FoundSorts ==
  ASSUME NEW hits, Hit(hits), NEW kind
  PROVE  \E found :
           /\ Sorts(found, DOMAIN hits, Found(DOMAIN hits, hits, kind))
           /\ Rows(hits, kind) =
                [n \in DOMAIN found |-> [key |-> KeyOf(found[n], kind), score |-> hits[found[n]]]]
<1> DEFINE D == DOMAIN hits
           before(c, d) == IF kind = "text" \/ hits[c] = hits[d] THEN Before(c, d)
                                                                ELSE hits[c] > hits[d]
           R == Found(D, hits, kind)
           s == Listed(DOMAIN hits, before)
<1>1. D \in SUBSET Chunks /\ \A c \in D : hits[c] \in Int
  BY ScoresAre DEF Hit
<1>2. IsFiniteSet(D)
  BY <1>1, ChunksFinite, FS_Subset
<1>3. \A c \in D : c.post \in Int /\ c.index \in Int /\ c = [post |-> c.post, index |-> c.index]
  BY <1>1, ChunkIs
<1>4. \A x, y \in D : <<x, y>> \in R <=> FoundBefore(hits, kind, x, y)
  <2> HIDE DEF D
  <2> QED BY DEF Found
<1>5. StrictOrder(D, R)
  <2>1. \A x \in D : ~ FoundBefore(hits, kind, x, x)
    BY <1>1, <1>3 DEF FoundBefore, Before
  <2>2. \A x, y, z \in D :
          FoundBefore(hits, kind, x, y) /\ FoundBefore(hits, kind, y, z)
            => FoundBefore(hits, kind, x, z)
    BY <1>1, <1>3 DEF FoundBefore, Before
  <2>3. \A x, y \in D : x # y => FoundBefore(hits, kind, x, y) \/ FoundBefore(hits, kind, y, x)
    <3> TAKE x, y \in D
    <3>1. x # y => x.post # y.post \/ x.index # y.index
      BY <1>3
    <3> QED BY <1>1, <1>3, <3>1 DEF FoundBefore, Before
  <2> HIDE DEF D, R
  <2> QED BY <1>4, <2>1, <2>2, <2>3 DEF StrictOrder
<1>6. \A x \in D : {y \in D : before(y, x)} = Below(D, R, x)
  <2>1. \A x, y \in D : FoundBefore(hits, kind, x, y) <=> before(x, y)
    BY DEF FoundBefore
  <2> HIDE DEF before, D, R
  <2> QED BY <1>4, <2>1 DEF Below
<1>7. s = [n \in 1 .. Cardinality(D) |->
             CHOOSE x \in D : Cardinality({y \in D : before(y, x)}) = n - 1]
  BY DEF Listed
<1>8. Rows(hits, kind) = [n \in DOMAIN s |-> [key |-> KeyOf(s[n], kind), score |-> hits[s[n]]]]
  BY DEF Rows
<1> HIDE DEF s, D, R, before
<1>9. ASSUME NEW n \in 1 .. Cardinality(D)
      PROVE  s[n] \in D /\ Cardinality(Below(D, R, s[n])) = n - 1
  <2>1. \E x \in D : Cardinality({y \in D : before(y, x)}) = n - 1
    <3>1. PICK x \in D : Cardinality(Below(D, R, x)) = n - 1
      BY <1>2, <1>5, Ranking
    <3> QED BY <1>6, <3>1
  <2>2. s[n] = CHOOSE x \in D : Cardinality({y \in D : before(y, x)}) = n - 1
    BY <1>7
  <2>3. s[n] \in D /\ Cardinality({y \in D : before(y, s[n])}) = n - 1
    BY <2>1, <2>2
  <2> QED BY <1>6, <2>3
<1>10. s \in [1 .. Cardinality(D) -> D]
  BY <1>7, <1>9
<1>11. Sorts(s, D, R)
  BY <1>2, <1>5, <1>9, <1>10, RankSorts
<1> QED BY <1>8, <1>11 DEF D, R

Keys == [post : Posts, index : Nat, by : {"index", "content"}, version : Nat]

\* In one blog a key is a chunk.
Plain(k) == k.by = "index" /\ k.version = 0

Row == [key : Keys, score : Scores]

UniqueKeys(s) == \A m, n \in DOMAIN s : s[m].key = s[n].key => m = n

LEMMA RowsAre ==
  ASSUME NEW hits, Hit(hits), NEW kind \in {"vec", "text"}, body \in [Posts -> Nat]
  PROVE  LET rows == Rows(hits, kind) IN
         /\ rows \in Seq(Row) /\ Len(rows) = Cardinality(DOMAIN hits)
         /\ UniqueKeys(rows)
         /\ scope = "user" => \A n \in DOMAIN rows : Plain(rows[n].key)
<1> DEFINE rows == Rows(hits, kind)
           k == Cardinality(DOMAIN hits)
<1>1. PICK found :
        /\ Sorts(found, DOMAIN hits, Found(DOMAIN hits, hits, kind))
        /\ rows = [n \in DOMAIN found |->
                     [key |-> KeyOf(found[n], kind), score |-> hits[found[n]]]]
  BY FoundSorts
<1>2. DOMAIN hits \in SUBSET Chunks /\ \A c \in DOMAIN hits : hits[c] \in Scores
  BY DEF Hit
<1>3. DOMAIN found = 1 .. k /\ k \in Nat /\ \A n \in 1 .. k : found[n] \in DOMAIN hits
  BY <1>1 DEF Sorts
<1>4. ASSUME NEW c \in Chunks
      PROVE  /\ KeyOf(c, kind) \in Keys
             /\ KeyOf(c, kind).post = c.post /\ KeyOf(c, kind).index = c.index
             /\ scope = "user" => Plain(KeyOf(c, kind))
  BY ChunkIs DEF KeyOf, Keys, Plain
<1>5. rows \in [1 .. k -> Row]
  BY <1>1, <1>2, <1>3, <1>4 DEF Row
<1>6. rows \in Seq(Row) /\ Len(rows) = k
  BY <1>3, <1>5
<1>7. \A n \in 1 .. k : rows[n].key = KeyOf(found[n], kind) /\ found[n] \in Chunks
  BY <1>1, <1>2, <1>3
<1>8. ASSUME NEW m \in 1 .. k, NEW n \in 1 .. k, rows[m].key = rows[n].key
      PROVE  m = n
  <2>1. found[m].post = found[n].post /\ found[m].index = found[n].index
    BY <1>4, <1>7, <1>8
  <2>2. found[m] = found[n]
    BY <1>7, <2>1, ChunkIs
  <2>3. ~ (m < n) /\ ~ (n < m)
    BY <1>1, <1>3, <2>2 DEF Sorts
  <2> QED BY <1>3, <2>3
<1>9. DOMAIN rows = 1 .. k
  BY <1>5
<1> HIDE DEF rows
<1>10. UniqueKeys(rows)
  BY <1>8, <1>9 DEF UniqueKeys
<1> QED BY <1>4, <1>6, <1>7, <1>9, <1>10 DEF rows
Candidate == [key : Keys, vec : Scores, text : Scores]

LEMMA CandidateIs ==
  ASSUME NEW c \in Candidate
  PROVE  c.key \in Keys /\ c.vec \in Scores /\ c.text \in Scores
  BY DEF Candidate

Candidates(c) ==
  /\ c \in Seq(Candidate) /\ UniqueKeys(c)
  /\ scope = "user" => \A n \in DOMAIN c : Plain(c[n].key)

LEMMA JoinIs ==
  ASSUME NEW T, NEW a \in Seq(T), NEW b \in Seq(T), NEW k, k = Len(a), NEW l, l = Len(b)
  PROVE  /\ a \o b \in Seq(T) /\ DOMAIN (a \o b) = 1 .. k + l
         /\ \A n \in 1 .. k + l :
              /\ n <= k => n \in 1 .. k /\ (a \o b)[n] = a[n]
              /\ ~ (n <= k) => n - k \in 1 .. l /\ (a \o b)[n] = b[n - k]
<1>1. k \in Nat /\ l \in Nat
  OBVIOUS
<1>2. a \o b \in Seq(T) /\ Len(a \o b) = k + l
  BY ConcatProperties
<1>3. \A n \in 1 .. k + l : (a \o b)[n] = IF n <= k THEN a[n] ELSE b[n - k]
  BY ConcatProperties
<1>4. DOMAIN (a \o b) = 1 .. k + l
  BY <1>1, <1>2
<1> QED BY <1>1, <1>2, <1>3, <1>4

\* One score of a candidate is set.
Put(kind, m, c) == [c EXCEPT ![kind] = m]

\* It is the same candidate.
Improves(up, c) == up \in Candidate /\ up.key = c.key

LEMMA PutIs ==
  ASSUME NEW c \in Candidate, NEW m \in Scores, NEW kind \in {"vec", "text"}
  PROVE  Improves(Put(kind, m, c), c)
  BY DEF Candidate, Put, Improves

\* It is raised to the best of the scores in T.
Raised(kind, T, c) == Put(kind, Max(T \cup {c[kind]}), c)

LEMMA RaiseIs ==
  ASSUME NEW kind \in {"vec", "text"}, NEW T \in SUBSET Scores, NEW c \in Candidate
  PROVE  Improves(Raised(kind, T, c), c)
<1> DEFINE S == T \cup {c[kind]}
<1>1. c[kind] \in S /\ S \in SUBSET Scores
  BY DEF Candidate
<1> DEFINE m == Max(S)
<1>2. m \in Scores
  <2> HIDE DEF S
  <2>1. IsFiniteSet(S) /\ S \in SUBSET Int
    BY <1>1, ScoresAre, FS_Subset
  <2> QED BY <1>1, <2>1, MaxIs
<1> HIDE DEF m
<1>3. Raised(kind, T, c) = Put(kind, m, c)
  BY DEF Raised, m
<1> QED BY <1>2, <1>3, PutIs

Entry(kind, r) ==
  [key |-> r.key, vec |-> IF kind = "vec" THEN r.score ELSE 0,
                  text |-> IF kind = "text" THEN r.score ELSE 0]

LEMMA EntryIs ==
  ASSUME NEW kind \in {"vec", "text"}, NEW r \in Row
  PROVE  Entry(kind, r) \in Candidate /\ Entry(kind, r).key = r.key
  BY ScoresAre DEF Row, Candidate, Entry

LEMMA MergeIs ==
  ASSUME Candidates(cand), NEW kind \in {"vec", "text"}, NEW rows \in Seq(Row), UniqueKeys(rows),
         scope = "user" => \A n \in DOMAIN rows : Plain(rows[n].key)
  PROVE  Candidates(Merge(kind, rows))
<1> DEFINE scores(key) == {rows[n].score : n \in {m \in DOMAIN rows : rows[m].key = key}}
           D == {n \in DOMAIN rows : \A m \in DOMAIN cand : cand[m].key # rows[n].key}
           fresh == Picked(rows, D)
           up(c) == Raised(kind, scores(c.key), c)
           old == [n \in DOMAIN cand |-> up(cand[n])]
           new == [n \in DOMAIN fresh |-> Entry(kind, fresh[n])]
           k == Len(cand)
           l == Cardinality(D)
<1>1. Merge(kind, rows) = old \o new
  BY DEF Merge, Entry, Raised, Put
<1>2. /\ DOMAIN cand = 1 .. k /\ k \in Nat /\ \A n \in 1 .. k : cand[n] \in Candidate
      /\ DOMAIN rows = 1 .. Len(rows) /\ \A n \in DOMAIN rows : rows[n] \in Row
  BY DEF Candidates
<1>3. D \in SUBSET (DOMAIN rows)
  OBVIOUS
<1>4. ASSUME NEW c \in Candidate
      PROVE  Improves(up(c), c)
  <2>1. scores(c.key) \in SUBSET Scores
    <3>1. \A n \in DOMAIN rows : rows[n].score \in Scores
      BY <1>2 DEF Row
    <3> QED BY <3>1
  <2> QED BY <2>1, RaiseIs
<1> HIDE DEF up, D
<1>6. /\ fresh \in Seq(Row) /\ Len(fresh) = l /\ l \in Nat
      /\ \A i \in 1 .. l : \E n \in D : fresh[i] = rows[n]
  BY <1>3, PickedIs
<1>7. PICK f : PicksBy(f, rows, D)
  BY <1>3, PickedIs
<1>8. ASSUME NEW i \in 1 .. l, NEW j \in 1 .. l, fresh[i].key = fresh[j].key
      PROVE  i = j
  <2>1. /\ fresh[i] = rows[f[i]] /\ fresh[j] = rows[f[j]]
        /\ f[i] \in DOMAIN rows /\ f[j] \in DOMAIN rows
    BY <1>3, <1>7 DEF PicksBy, Ascends
  <2>2. f[i] = f[j]
    BY <1>8, <2>1 DEF UniqueKeys
  <2>3. (i < j => f[i] < f[j]) /\ (j < i => f[j] < f[i]) /\ f[i] \in Int
    BY <1>2, <1>7, <2>1 DEF PicksBy, Ascends
  <2> QED BY <1>6, <2>2, <2>3
<1>9. DOMAIN fresh = 1 .. l /\ \A i \in 1 .. l : fresh[i] \in Row
  BY <1>6
<1> HIDE DEF fresh
<1>10. /\ old \in Seq(Candidate) /\ Len(old) = k
       /\ \A n \in 1 .. k : old[n] = up(cand[n])
  <2>1. old \in [1 .. k -> Candidate]
    BY <1>2, <1>4 DEF Improves
  <2> QED BY <1>2, <2>1
<1>11. /\ new \in Seq(Candidate) /\ Len(new) = l
       /\ \A n \in 1 .. l : new[n] = Entry(kind, fresh[n])
  <2>1. new \in [1 .. l -> Candidate]
    BY <1>9, EntryIs
  <2> QED BY <1>6, <1>9, <2>1
<1> DEFINE all == old \o new
<1> HIDE DEF old, new
<1>12. /\ all \in Seq(Candidate) /\ DOMAIN all = 1 .. k + l
       /\ \A n \in 1 .. k + l :
            /\ n <= k => n \in 1 .. k /\ all[n] = old[n]
            /\ ~ (n <= k) => n - k \in 1 .. l /\ all[n] = new[n - k]
  <2> HIDE DEF k, l
  <2> QED BY <1>10, <1>11, JoinIs
<1> HIDE DEF all
<1>13. ASSUME NEW n \in 1 .. k + l
       PROVE  /\ n <= k => n \in 1 .. k /\ all[n].key = cand[n].key
              /\ ~ (n <= k) => /\ n - k \in 1 .. l /\ all[n].key = fresh[n - k].key
                               /\ \E m \in D : fresh[n - k] = rows[m]
  <2>1. CASE n <= k
    <3>1. n \in 1 .. k /\ cand[n] \in Candidate /\ all[n] = up(cand[n])
      BY <1>2, <1>10, <1>12, <2>1
    <3> QED BY <1>4, <2>1, <3>1 DEF Improves
  <2>2. CASE ~ (n <= k)
    <3>1. n - k \in 1 .. l /\ fresh[n - k] \in Row /\ all[n] = Entry(kind, fresh[n - k])
      BY <1>9, <1>11, <1>12, <2>2
    <3> QED BY <1>6, <2>2, <3>1, EntryIs
  <2> QED BY <2>1, <2>2
<1>14. ASSUME NEW m \in 1 .. k + l, NEW n \in 1 .. k + l, all[m].key = all[n].key
       PROVE  m = n
  <2>1. \A i \in 1 .. k, j \in D : cand[i].key # rows[j].key
    BY <1>2 DEF D
  <2>2. CASE m <= k /\ n <= k
    BY <1>2, <1>13, <1>14, <2>2 DEF Candidates, UniqueKeys
  <2>3. CASE ~ (m <= k) /\ ~ (n <= k)
    <3>1. m - k = n - k
      BY <1>8, <1>13, <1>14, <2>3
    <3> QED BY <1>2, <1>6, <3>1
  <2> QED BY <1>13, <1>14, <2>1, <2>2, <2>3
<1>15. UniqueKeys(all)
  BY <1>12, <1>14 DEF UniqueKeys
<1>16. ASSUME scope = "user", NEW n \in 1 .. k + l
       PROVE  Plain(all[n].key)
  BY <1>2, <1>3, <1>13, <1>16 DEF Candidates
<1>17. Candidates(all)
  BY <1>12, <1>13, <1>15, <1>16 DEF Candidates
<1> QED BY <1>1, <1>17 DEF all
-----------------------------------------------------------------------------
(***************************************************************************)
(* The score of a candidate.                                               *)
(***************************************************************************)

LEMMA BestIs ==
  ASSUME NEW c, Candidates(c), NEW kind \in {"vec", "text"}
  PROVE  /\ Span(c, kind) \in 0 .. 100 /\ Worst(c, kind) \in Int
         /\ \A n \in DOMAIN c : /\ c[n][kind] \in Int
                                /\ c[n][kind] - Worst(c, kind) \in 0 .. Span(c, kind)
<1> DEFINE S == {0} \cup {c[n][kind] : n \in DOMAIN c}
<1>1. \A n \in DOMAIN c : c[n][kind] \in Scores
  <2> TAKE n \in DOMAIN c
  <2>1. c[n] \in Candidate
    BY DEF Candidates
  <2> QED BY <2>1 DEF Candidate
<1>2. S \in SUBSET Scores /\ 0 \in S /\ \A n \in DOMAIN c : c[n][kind] \in S
  BY <1>1, ScoresAre
<1>3. Best(c, kind) = Max(S) /\ Worst(c, kind) = Min(S)
  BY DEF Best, Worst
<1> HIDE DEF S
<1>4. IsFiniteSet(S) /\ S \in SUBSET Int
  BY <1>2, ScoresAre, FS_Subset
<1> DEFINE b == Max(S)
           w == Min(S)
<1>5. b \in S /\ w \in S /\ \A x \in S : w <= x /\ x <= b
  BY <1>2, <1>4, MaxIs, MinIs
<1>6. Span(c, kind) = b - w /\ Worst(c, kind) = w
  BY <1>3 DEF Span
<1> HIDE DEF b, w
<1>7. b \in -50 .. 50 /\ w \in -50 .. 50
  BY <1>2, <1>5 DEF Scores
<1>8. w <= 0 /\ 0 <= b
  BY <1>2, <1>5
<1>9. b - w \in 0 .. 100 /\ w \in Int
  BY <1>7, <1>8
<1>10. ASSUME NEW n \in DOMAIN c
       PROVE  c[n][kind] \in Int /\ c[n][kind] - w \in 0 .. b - w
  <2> DEFINE x == c[n][kind]
  <2>1. x \in Int /\ w <= x /\ x <= b
    BY <1>2, <1>4, <1>5
  <2> HIDE DEF x
  <2>2. x - w \in 0 .. b - w
    BY <1>7, <2>1
  <2> QED BY <2>1, <2>2 DEF x
<1> QED BY <1>6, <1>9, <1>10

\* Hundredths tell scores of at most a hundred apart.
LEMMA Hundredths ==
  ASSUME NEW b \in 1 .. 100, NEW x \in 0 .. b, NEW y \in 0 .. b
  PROVE  /\ (100 * x) \div b \in 0 .. 100
         /\ x <= y => (100 * x) \div b <= (100 * y) \div b
         /\ x < y => (100 * x) \div b < (100 * y) \div b
         /\ 10 * x < 9 * b => (100 * x) \div b < 90
<1> DEFINE p == (100 * x) \div b
           q == (100 * y) \div b
<1>1. /\ p \in Int /\ b * p <= 100 * x /\ 100 * x < b * p + b
      /\ q \in Int /\ b * q <= 100 * y /\ 100 * y < b * q + b
  BY Z3
<1> HIDE DEF p, q
<1>2. p \in 0 .. 100
  <2>1. p >= 0
    BY <1>1, Z3
  <2>2. p <= 100
    BY <1>1, Z3
  <2> QED BY <1>1, <2>1, <2>2
<1>3. ASSUME x < y PROVE p < q
  BY <1>1, <1>3, Z3
<1>4. ASSUME 10 * x < 9 * b PROVE p < 90
  BY <1>1, <1>4, Z3
<1>5. ASSUME x <= y PROVE p <= q
  <2>1. x = y \/ x < y
    BY <1>5
  <2>2. x = y => p = q
    BY DEF p, q
  <2> QED BY <1>1, <1>3, <2>1, <2>2
<1> QED BY <1>2, <1>3, <1>4, <1>5 DEF p, q

LEMMA NormalIs ==
  ASSUME NEW c, Candidates(c), NEW kind \in {"vec", "text"}, NEW m \in DOMAIN c, NEW n \in DOMAIN c
  PROVE  /\ Normal(c, m, kind) \in 0 .. 100
         /\ c[m][kind] <= c[n][kind] => Normal(c, m, kind) <= Normal(c, n, kind)
         /\ c[m][kind] < c[n][kind] => Normal(c, m, kind) < Normal(c, n, kind)
         /\ 10 * (c[m][kind] - Worst(c, kind)) < 9 * Span(c, kind) => Normal(c, m, kind) < 90
<1> DEFINE b == Span(c, kind)
           z == Worst(c, kind)
           x == c[m][kind]
           y == c[n][kind]
           v == x - z
           w == y - z
<1>1. /\ b \in 0 .. 100 /\ z \in Int /\ x \in Int /\ y \in Int
      /\ v \in 0 .. b /\ w \in 0 .. b
  BY BestIs
<1>2. /\ Normal(c, m, kind) = IF b > 0 THEN (100 * v) \div b ELSE 0
      /\ Normal(c, n, kind) = IF b > 0 THEN (100 * w) \div b ELSE 0
  BY DEF Normal
<1> HIDE DEF b, x, y, z
<1>3. (x <= y <=> v <= w) /\ (x < y <=> v < w)
  BY <1>1
<1> HIDE DEF v, w
<1>4. CASE b > 0
  <2>1. b \in 1 .. 100
    BY <1>1, <1>4
  <2> DEFINE i == (100 * v) \div b
             j == (100 * w) \div b
  <2>2. /\ i \in 0 .. 100
        /\ v <= w => i <= j
        /\ v < w => i < j
        /\ 10 * v < 9 * b => i < 90
    BY <1>1, <2>1, Hundredths
  <2>3. Normal(c, m, kind) = i /\ Normal(c, n, kind) = j
    BY <1>2, <1>4
  <2> HIDE DEF i, j
  <2> QED BY <1>3, <2>2, <2>3 DEF b, x, y, z, v
<1>5. CASE ~ (b > 0)
  <2>1. b = 0 /\ v = 0 /\ w = 0
    BY <1>1, <1>5
  <2>2. Normal(c, m, kind) = 0 /\ Normal(c, n, kind) = 0
    BY <1>2, <1>5
  <2>3. ~ (x < y)
    BY <1>3, <2>1
  <2> QED BY <2>2, <2>3 DEF x, y
<1> QED BY <1>4, <1>5

LEMMA BoostIs ==
  ASSUME NEW x \in 0 .. 100, NEW y \in 0 .. 100, NEW t \in Int
  PROVE  /\ Boost(x, t) \in 0 .. 100
         /\ x <= y => Boost(x, t) <= Boost(y, t)
         /\ x < y /\ x < 90 => Boost(x, t) < Boost(y, t)
  BY DEF Boost, Smaller

\* Hundredths of a hundredth.
Points == 0 .. 10000

LEMMA PointsAre ==
  Points \subseteq Int /\ \A n \in Int : n \in Points <=> 0 <= n /\ n <= 10000
<1> DEFINE k == 10000
<1>1. k \in Int
  OBVIOUS
<1> HIDE DEF k
<1>2. \A n \in Int : n \in 0 .. k <=> 0 <= n /\ n <= k
  BY <1>1
<1>3. 0 .. k \subseteq Int
  BY <1>1
<1> QED BY ONLY <1>2, <1>3, PTL DEF Points, k

Mix(a, v, t) == a * v + (100 - a) * t

\* A weighted sum grows with its parts.
LEMMA Weighted ==
  ASSUME NEW a \in 0 .. 100, NEW v \in 0 .. 100, NEW t \in 0 .. 100,
         NEW w \in 0 .. 100, NEW u \in 0 .. 100
  PROVE  /\ Mix(a, v, t) \in Points /\ Mix(a, w, u) \in Points
         /\ v < w /\ t <= u /\ a > 0 => Mix(a, v, t) < Mix(a, w, u)
         /\ v <= w /\ t < u /\ a < 100 => Mix(a, v, t) < Mix(a, w, u)
<1>1. ASSUME NEW i \in 0 .. 100, NEW j \in 0 .. 100, NEW k \in 0 .. 100
      PROVE  /\ i * j \in 0 .. 100 * i
             /\ j <= k => i * j <= i * k
             /\ j < k /\ i > 0 => i * j < i * k
  <2>1. i * j >= 0 /\ i * j <= 100 * i /\ i * j \in Int /\ i * k \in Int
    BY Z3
  <2>2. j <= k => i * j <= i * k
    BY Z3
  <2>3. j < k /\ i > 0 => i * j < i * k
    BY Z3
  <2> QED BY <2>1, <2>2, <2>3
<1> DEFINE b == 100 - a
<1>2. b \in 0 .. 100
  OBVIOUS
<1> HIDE DEF b
<1>3. /\ a * v \in 0 .. 100 * a /\ b * t \in 0 .. 100 * b
      /\ a * w \in 0 .. 100 * a /\ b * u \in 0 .. 100 * b
      /\ v <= w => a * v <= a * w
      /\ t <= u => b * t <= b * u
      /\ v < w /\ a > 0 => a * v < a * w
      /\ t < u /\ b > 0 => b * t < b * u
  BY <1>1, <1>2, ZenonT(40)
<1> DEFINE av == a * v  aw == a * w  bt == b * t  bu == b * u
<1>4. /\ av \in 0 .. 100 * a /\ bt \in 0 .. 100 * b
      /\ aw \in 0 .. 100 * a /\ bu \in 0 .. 100 * b
      /\ v <= w => av <= aw
      /\ t <= u => bt <= bu
      /\ v < w /\ a > 0 => av < aw
      /\ t < u /\ b > 0 => bt < bu
  BY <1>3
<1> HIDE DEF av, aw, bt, bu
<1>5. 100 * a + 100 * b = 10000 /\ (a < 100 => b > 0)
  BY DEF b
<1>6. /\ av + bt \in Points /\ aw + bu \in Points
      /\ v < w /\ t <= u /\ a > 0 => av + bt < aw + bu
      /\ v <= w /\ t < u /\ a < 100 => av + bt < aw + bu
  <2>1. /\ av + bt \in Int /\ 0 <= av + bt /\ av + bt <= 10000
        /\ aw + bu \in Int /\ 0 <= aw + bu /\ aw + bu <= 10000
    BY <1>2, <1>4, <1>5
  <2>2. /\ v < w /\ t <= u /\ a > 0 => av + bt < aw + bu
        /\ v <= w /\ t < u /\ a < 100 => av + bt < aw + bu
    BY <1>2, <1>4, <1>5
  <2>3. \A n \in Int : 0 <= n /\ n <= 10000 => n \in Points
    BY PointsAre
  <2> QED BY ONLY <2>1, <2>2, <2>3
<1>7. Mix(a, v, t) = av + bt /\ Mix(a, w, u) = aw + bu
  BY DEF Mix, av, aw, bt, bu, b
<1> QED BY <1>6, <1>7
\* A candidate that beats another has the higher score.
NoTop(c, y, kind) == 10 * (y[kind] - Worst(c, kind)) < 9 * Span(c, kind)

Better(c, x, y) ==
  /\ x.vec >= y.vec /\ x.text >= y.text
  /\ \/ Settled.alpha > 0 /\ x.vec > y.vec /\ NoTop(c, y, "vec")
     \/ Settled.alpha < 100 /\ x.text > y.text /\ NoTop(c, y, "text")

LEMMA FusedIs ==
  ASSUME Ready(Settled), NEW c, Candidates(c), NEW m \in DOMAIN c, NEW n \in DOMAIN c
  PROVE  /\ FusedScore(c, m) \in Points
         /\ Better(c, c[n], c[m]) => FusedScore(c, n) > FusedScore(c, m)
<1> DEFINE a == Settled.alpha
           s == Preset[Settled.bias].sem
           l == Preset[Settled.bias].lex
           v(i) == Boost(Normal(c, i, "vec"), s)
           t(i) == Boost(Normal(c, i, "text"), l)
<1>1. a \in 0 .. 100 /\ Settled.bias \in Biases
  BY DEF Ready
<1>2. s \in Int /\ l \in Int
  <2>1. \A b \in Biases : Preset[b].sem \in Int /\ Preset[b].lex \in Int
    BY DEF Biases, Preset
  <2> QED BY <1>1, <2>1
<1>3. \A i \in DOMAIN c : FusedScore(c, i) = Mix(a, v(i), t(i))
  BY DEF FusedScore, Mix
<1> HIDE DEF s, l
<1>4. ASSUME NEW kind \in {"vec", "text"}, NEW h \in Int
      PROVE  LET x == c[m][kind]  y == c[n][kind]
                 p == Boost(Normal(c, m, kind), h)  q == Boost(Normal(c, n, kind), h) IN
             /\ p \in 0 .. 100 /\ q \in 0 .. 100 /\ x \in Int /\ y \in Int
             /\ x <= y => p <= q
             /\ x < y /\ NoTop(c, c[m], kind) => p < q
  <2> DEFINE x == c[m][kind]
             y == c[n][kind]
             i == Normal(c, m, kind)
             j == Normal(c, n, kind)
  <2>1. x \in Int /\ y \in Int
    BY BestIs
  <2>2. i \in 0 .. 100 /\ j \in 0 .. 100
    BY NormalIs
  <2>3. x <= y => i <= j
    BY NormalIs
  <2>4. x < y => i < j
    BY NormalIs
  <2>5. NoTop(c, c[m], kind) => i < 90
    BY NormalIs DEF NoTop
  <2> HIDE DEF i, j, x, y
  <2>6. /\ Boost(i, h) \in 0 .. 100 /\ Boost(j, h) \in 0 .. 100
        /\ i <= j => Boost(i, h) <= Boost(j, h)
        /\ i < j /\ i < 90 => Boost(i, h) < Boost(j, h)
    BY <2>2, <1>4, BoostIs
  <2> QED BY <2>1, <2>3, <2>4, <2>5, <2>6 DEF i, j, x, y
<1>5. /\ v(m) \in 0 .. 100 /\ v(n) \in 0 .. 100 /\ c[m].vec \in Int /\ c[n].vec \in Int
      /\ c[m].vec <= c[n].vec => v(m) <= v(n)
      /\ c[m].vec < c[n].vec /\ NoTop(c, c[m], "vec") => v(m) < v(n)
  BY <1>2, <1>4
<1>6. /\ t(m) \in 0 .. 100 /\ t(n) \in 0 .. 100 /\ c[m].text \in Int /\ c[n].text \in Int
      /\ c[m].text <= c[n].text => t(m) <= t(n)
      /\ c[m].text < c[n].text /\ NoTop(c, c[m], "text") => t(m) < t(n)
  BY <1>2, <1>4
<1> DEFINE vm == v(m)  vn == v(n)  tm == t(m)  tn == t(n)
<1>9. FusedScore(c, m) = Mix(a, vm, tm) /\ FusedScore(c, n) = Mix(a, vn, tn)
  BY <1>3
<1>10. vm \in 0 .. 100 /\ vn \in 0 .. 100 /\ tm \in 0 .. 100 /\ tn \in 0 .. 100
  BY <1>5, <1>6
<1>11. ASSUME Better(c, c[n], c[m])
       PROVE  vm <= vn /\ tm <= tn /\ ((vm < vn /\ a > 0) \/ (tm < tn /\ a < 100))
  <2>1. vm <= vn /\ tm <= tn
    BY <1>5, <1>6, <1>11 DEF Better
  <2>2. (vm < vn /\ a > 0) \/ (tm < tn /\ a < 100)
    <3> HIDE DEF v, t
    <3> QED BY <1>5, <1>6, <1>11 DEF Better
  <2> QED BY <2>1, <2>2
<1> HIDE DEF v, t, a, vm, vn, tm, tn
<1>12. /\ Mix(a, vm, tm) \in Points /\ Mix(a, vn, tn) \in Points
       /\ vm < vn /\ tm <= tn /\ a > 0 => Mix(a, vm, tm) < Mix(a, vn, tn)
       /\ vm <= vn /\ tm < tn /\ a < 100 => Mix(a, vm, tm) < Mix(a, vn, tn)
  <2>1. a \in 0 .. 100
    BY <1>1
  <2> QED BY ONLY <2>1, <1>10, Weighted, Zenon
<1> DEFINE mm == Mix(a, vm, tm)  nn == Mix(a, vn, tn)
<1>13. /\ mm \in Points /\ nn \in Points
       /\ vm < vn /\ tm <= tn /\ a > 0 => mm < nn
       /\ vm <= vn /\ tm < tn /\ a < 100 => mm < nn
  BY <1>12 DEF mm, nn
<1>14. FusedScore(c, m) = mm /\ FusedScore(c, n) = nn
  BY <1>9 DEF mm, nn
<1> HIDE DEF mm, nn
<1>15. ASSUME Better(c, c[n], c[m]) PROVE nn > mm
  <2>1. mm < nn
    BY <1>10, <1>11, <1>13, <1>15
  <2>2. mm \in Int /\ nn \in Int
    BY <1>13, PointsAre
  <2> QED BY <2>1, <2>2
<1> QED BY <1>13, <1>14, <1>15, Zenon

-----------------------------------------------------------------------------
(***************************************************************************)
(* The fused result.                                                       *)
(***************************************************************************)

RowOf(c, n) == [key |-> c[n].key, score |-> FusedScore(c, n), place |-> n]

LEMMA ScoredIs ==
  ASSUME Ready(Settled), NEW c, Candidates(c)
  PROVE  /\ Rated(Scored(c))
         /\ \A r \in Scored(c) : /\ r.place \in DOMAIN c /\ r = RowOf(c, r.place)
                                 /\ r.key = c[r.place].key /\ r.key \in Keys
                                 /\ r.score \in Points
         /\ \A q, r \in Scored(c) : q.key = r.key => q = r
         /\ \A n \in DOMAIN c : RowOf(c, n) \in Scored(c) /\ RowOf(c, n).key = c[n].key
<1>1. Scored(c) = {RowOf(c, n) : n \in DOMAIN c}
  BY DEF Scored, RowOf
<1>2. DOMAIN c = 1 .. Len(c) /\ Len(c) \in Nat /\ \A n \in DOMAIN c : c[n] \in Candidate
  BY DEF Candidates
<1>3. ASSUME NEW n \in DOMAIN c
      PROVE  /\ RowOf(c, n).place = n /\ RowOf(c, n).key = c[n].key
             /\ RowOf(c, n).key \in Keys /\ RowOf(c, n).score \in Points
  <2>1. c[n].key \in Keys
    BY <1>2, CandidateIs
  <2>2. FusedScore(c, n) \in Points
    BY FusedIs
  <2> QED BY <2>1, <2>2 DEF RowOf
<1>4. IsFiniteSet(Scored(c))
  <2> DEFINE f == [n \in DOMAIN c |-> RowOf(c, n)]
  <2>1. IsFiniteSet(DOMAIN c)
    BY <1>2, FS_Interval
  <2>2. f \in [DOMAIN c -> Scored(c)] /\ Scored(c) = {f[n] : n \in DOMAIN c}
    BY <1>1
  <2> DEFINE D == DOMAIN c
             T == Scored(c)
  <2>3. f \in [D -> T] /\ IsFiniteSet(D)
    BY <2>1, <2>2
  <2>4. T = {f[n] : n \in D}
    BY <2>2
  <2> HIDE DEF f, D, T
  <2>5. IsFiniteSet({f[n] : n \in D})
    BY <2>3, ImageFinite
  <2>6. IsFiniteSet(T)
    BY <2>4, <2>5
  <2> QED BY <2>6 DEF T
<1>5. \A r \in Scored(c) : \E n \in DOMAIN c : r = RowOf(c, n)
  BY <1>1
<1>6. ASSUME NEW r \in Scored(c)
      PROVE  /\ r.place \in DOMAIN c /\ r = RowOf(c, r.place)
             /\ r.key = c[r.place].key /\ r.key \in Keys
             /\ r.score \in Points
  <2>1. PICK n \in DOMAIN c : r = RowOf(c, n)
    BY <1>5
  <2>2. /\ RowOf(c, n).place = n /\ RowOf(c, n).key = c[n].key
        /\ RowOf(c, n).key \in Keys /\ RowOf(c, n).score \in Points
    BY <1>3
  <2>3. /\ r.place = n /\ r.key = c[n].key
        /\ r.key \in Keys /\ r.score \in Points
    BY ONLY <2>1, <2>2
  <2> QED BY ONLY <2>1, <2>3
<1>7. \A q, r \in Scored(c) : q.place = r.place => q = r
  BY <1>6
<1>8. ASSUME NEW q \in Scored(c), NEW r \in Scored(c), q.key = r.key
      PROVE  q = r
  <2>1. c[q.place].key = c[r.place].key
    BY <1>6, <1>8
  <2>2. q.place = r.place
    BY <1>6, <2>1 DEF Candidates, UniqueKeys
  <2> QED BY <1>7, <2>2
<1>9. \A r \in Scored(c) : r.place \in Int /\ r.score \in Int
  <2> TAKE r \in Scored(c)
  <2>1. r.place \in DOMAIN c /\ r.score \in Points
    BY <1>6
  <2>2. r.place \in 1 .. Len(c)
    BY <1>2, <2>1
  <2>3. (\A x \in 1 .. Len(c) : x \in Int) /\ \A x \in Points : x \in Int
    BY <1>2, PointsAre
  <2> QED BY ONLY <2>1, <2>2, <2>3
<1>10. Rated(Scored(c))
  BY <1>4, <1>7, <1>9 DEF Rated
<1>11. \A n \in DOMAIN c : RowOf(c, n) \in Scored(c) /\ RowOf(c, n).key = c[n].key
  BY <1>1, <1>3
<1>12. \A r \in Scored(c) : /\ r.place \in DOMAIN c /\ r = RowOf(c, r.place)
                             /\ r.key = c[r.place].key /\ r.key \in Keys
                             /\ r.score \in Points
  BY <1>6
<1>13. \A q, r \in Scored(c) : q.key = r.key => q = r
  BY <1>8
<1> QED BY ONLY <1>10, <1>11, <1>12, <1>13

LEMMA RatedSubset ==
  ASSUME NEW rows, Rated(rows), NEW some \in SUBSET rows
  PROVE  Rated(some)
<1>1. IsFiniteSet(some)
  BY FS_Subset DEF Rated
<1> QED BY <1>1 DEF Rated

\* Two that are ahead of all others.
LEMMA TopTwo ==
  ASSUME NEW S, IsFiniteSet(S), NEW R, StrictOrder(S, R), NEW x \in S,
         ~ (Cardinality(Below(S, R, x)) < 2)
  PROVE  \E a, b \in S :
           /\ a # b /\ <<a, x>> \in R /\ <<b, x>> \in R
           /\ \A y \in S : Cardinality(Below(S, R, y)) < 2 <=> y \in {a, b}
<1> DEFINE rank(y) == Cardinality(Below(S, R, y))
<1>1. /\ Cardinality(S) \in Nat
      /\ \A y \in S : rank(y) \in Nat /\ rank(y) + 1 \in 1 .. Cardinality(S)
      /\ \A y, z \in S : <<y, z>> \in R => rank(y) < rank(z)
      /\ \A n \in 1 .. Cardinality(S) : \E y \in S : rank(y) = n - 1
  BY Ranking
<1> HIDE DEF rank
<1>2. rank(x) \in Nat /\ rank(x) >= 2 /\ 1 \in 1 .. Cardinality(S) /\ 2 \in 1 .. Cardinality(S)
  <2>1. ~ (rank(x) < 2)
    BY DEF rank
  <2> QED BY <1>1, <2>1
<1>3. PICK a \in S : rank(a) = 0
  BY <1>1, <1>2
<1>4. PICK b \in S : rank(b) = 1
  BY <1>1, <1>2
<1>5. a # b
  BY <1>3, <1>4
<1>6. \A y, z \in S : rank(y) < rank(z) => <<y, z>> \in R
  <2> SUFFICES ASSUME NEW y \in S, NEW z \in S, rank(y) < rank(z)
               PROVE  <<y, z>> \in R
    OBVIOUS
  <2>1. rank(y) \in Nat /\ rank(z) \in Nat /\ y # z /\ <<z, y>> \notin R
    BY <1>1
  <2> QED BY <2>1 DEF StrictOrder
<1>7. <<a, x>> \in R /\ <<b, x>> \in R
  BY <1>2, <1>3, <1>4, <1>6
<1>8. \A y, z \in S : rank(y) = rank(z) => y = z
  <2> SUFFICES ASSUME NEW y \in S, NEW z \in S, rank(y) = rank(z)
               PROVE  y = z
    OBVIOUS
  <2>1. <<y, z>> \notin R /\ <<z, y>> \notin R
    BY <1>1
  <2> QED BY <2>1 DEF StrictOrder
<1>9. \A y \in S : rank(y) < 2 <=> y \in {a, b}
  BY <1>1, <1>3, <1>4, <1>8
<1> QED BY <1>5, <1>7, <1>9 DEF rank

LEMMA FuseIs ==
  ASSUME Ready(Settled), NEW c, Candidates(c), Limit \in Nat
  PROVE  \E best, k :
           /\ k \in Nat /\ k <= Limit
           /\ best \in [1 .. k -> Diversified(Scored(c))]
           /\ Fuse(c) = [n \in 1 .. k |-> Chunk(best[n])]
           /\ \A m, n \in 1 .. k : m < n => Ahead(best[m], best[n])
           /\ \A q \in Diversified(Scored(c)) :
                \/ \E m \in 1 .. k : best[m] = q
                \/ k = Limit /\ \A n \in 1 .. k : Ahead(best[n], q)
<1> DEFINE rows == Diversified(Scored(c))
           list == Listed(rows, Ahead)
           best == FirstOf(list, Limit)
           k == Len(best)
<1>1. Rated(rows)
  <2>1. rows \in SUBSET Scored(c)
    BY DEF Diversified
  <2> QED BY <2>1, ScoredIs, RatedSubset
<1>2. Fuse(c) = [n \in DOMAIN best |-> Chunk(best[n])]
  BY DEF Fuse
<1> HIDE DEF rows
<1>3. Sorts(list, rows, Sooner(rows))
  BY <1>1, AheadSorts
<1> HIDE DEF list
<1>4. /\ list \in Seq(rows) /\ Len(list) \in Nat
      /\ \A x \in rows : \E i \in 1 .. Len(list) : list[i] = x
  BY <1>3 DEF Sorts
<1>5. \A i, j \in 1 .. Len(list) : i < j => Ahead(list[i], list[j])
  BY <1>3 DEF Sorts, Sooner
<1>6. /\ best \in Seq(rows) /\ k <= Limit /\ k <= Len(list) /\ k = Smaller(Limit, Len(list))
      /\ \A i \in 1 .. k : i \in 1 .. Len(list) /\ best[i] = list[i]
  BY <1>4, FirstOfIs
<1> HIDE DEF best
<1>7. k \in Nat /\ DOMAIN best = 1 .. k /\ best \in [1 .. k -> rows]
  BY <1>6
<1> HIDE DEF k
<1>8. ASSUME NEW m \in 1 .. k, NEW n \in 1 .. k, m < n
      PROVE  Ahead(best[m], best[n])
  BY <1>5, <1>6, <1>8
<1>9. ASSUME NEW q \in rows
      PROVE  \/ \E m \in 1 .. k : best[m] = q
             \/ k = Limit /\ \A n \in 1 .. k : Ahead(best[n], q)
  <2>1. PICK i \in 1 .. Len(list) : list[i] = q
    BY <1>4
  <2>2. CASE i <= k
    <3>1. i \in 1 .. k
      BY <1>4, <1>7, <2>2
    <3> QED BY <1>6, <2>1, <3>1
  <2>3. CASE ~ (i <= k)
    <3>1. k = Limit
      BY <1>4, <1>6, <1>7, <2>3 DEF Smaller
    <3>2. ASSUME NEW n \in 1 .. k
          PROVE  Ahead(best[n], q)
      <4>1. n < i /\ n \in 1 .. Len(list) /\ best[n] = list[n]
        BY <1>4, <1>6, <1>7, <2>3
      <4> QED BY <1>5, <2>1, <4>1
    <3> QED BY <3>1, <3>2
  <2> QED BY <2>2, <2>3
<1>10. Fuse(c) = [n \in 1 .. k |-> Chunk(best[n])]
  BY <1>2, <1>7
<1>11. k <= Limit
  BY <1>6 DEF k
<1> QED BY <1>7, <1>8, <1>9, <1>10, <1>11 DEF rows

-----------------------------------------------------------------------------
(***************************************************************************)
(* The inductive invariant.                                                *)
(***************************************************************************)

Pcs == {"plan", "embed", "vector", "text", "embedOne", "semantic", "done", "failed"}

AskedInv ==
  /\ pc \in Pcs /\ scope \in {"user", "global"}
  /\ asked # {} => \E a \in Asked : asked = {a} /\ a.scope = scope

\* The plan is that of the request, as long as that is there.
PlanInv ==
  \/ pc \in {"plan", "failed"} /\ plan = {}
  \/ /\ pc # "plan"
     /\ \E a \in Asked : /\ Accepts(a.raw) /\ a.scope = scope /\ asked \subseteq {a}
                         /\ plan = {Normalize(a.raw, a.base)}

QueryInv ==
  /\ kept \subseteq 0 .. 4 /\ 0 \in kept /\ at \in kept
  /\ pc \notin {"vector", "text"} => at = 0
  /\ eligible \subseteq Posts /\ body \in [Posts -> Nat]

FoundInv ==
  /\ Candidates(cand)
  /\ pc \in {"plan", "embed", "embedOne", "semantic"} => cand = <<>>

\* Chunks as runHybridSearch and runSemanticSearch answer them.
Answered == [key : Keys, score : Int]

Result(chunks) ==
  /\ chunks \in Seq(Answered) /\ UniqueKeys(chunks)
  /\ scope = "user" => \A n \in DOMAIN chunks : Plain(chunks[n].key)

\* As a vector search alone answers them.
Alone(chunks) == Len(chunks) <= VectorLimit /\ \A n \in DOMAIN chunks : chunks[n].score \in Scores

AnswerInv ==
  /\ Result(result)
  /\ IF pc = "done"
     THEN /\ IF cand # <<>> THEN result = Fuse(cand) ELSE Alone(result)
          /\ page = IF scope = "global" THEN AggregatePosts(result) ELSE <<>>
     ELSE result = <<>> /\ page = <<>>

IInv == AskedInv /\ PlanInv /\ QueryInv /\ FoundInv /\ AnswerInv

-----------------------------------------------------------------------------
(***************************************************************************)
(* What the steps make.                                                    *)
(***************************************************************************)

LEMMA SeqOf ==
  ASSUME NEW T, NEW k \in Nat, NEW f, f = [n \in 1 .. k |-> f[n]], \A n \in 1 .. k : f[n] \in T
  PROVE  f \in Seq(T) /\ Len(f) = k
<1>1. f \in [1 .. k -> T]
  OBVIOUS
<1> QED BY <1>1

LEMMA SeqWiden ==
  ASSUME NEW S, NEW T, S \subseteq T, NEW s \in Seq(S)
  PROVE  s \in Seq(T)
<1>1. s = [n \in 1 .. Len(s) |-> s[n]] /\ Len(s) \in Nat /\ \A n \in 1 .. Len(s) : s[n] \in T
  OBVIOUS
<1> QED BY <1>1, SeqOf

LEMMA PlanIs ==
  ASSUME PlanInv, pc \notin {"plan", "failed"}
  PROVE  /\ Ready(Settled)
         /\ \E a \in Asked : /\ a.raw \in RawPlans /\ Accepts(a.raw) /\ a.scope = scope
                             /\ asked \subseteq {a} /\ Settled = Normalize(a.raw, a.base)
<1>1. PICK a \in Asked : /\ Accepts(a.raw) /\ a.scope = scope /\ asked \subseteq {a}
                         /\ plan = {Normalize(a.raw, a.base)}
  BY DEF PlanInv
<1>2. Settled = Normalize(a.raw, a.base)
  BY <1>1 DEF Settled, The
<1>3. a.raw \in RawPlans
  BY SearchAssumption DEF Requests
<1>4. Ready(Settled)
  BY <1>1, <1>2, <1>3, Normalized
<1> QED BY <1>1, <1>2, <1>3, <1>4

LEMMA LimitsAre ==
  ASSUME Ready(Settled)
  PROVE  Limit \in 1 .. 20 /\ VectorLimit \in 1 .. 50 /\ TextLimit \in 1 .. 50
<1>1. Settled.topK \in 1 .. 10 /\ Settled.limit \in 1 .. 20
  BY DEF Ready
<1> QED BY <1>1, SearchAssumption DEF Limit, VectorLimit, TextLimit, Smaller, Larger

LEMMA HitsAre ==
  ASSUME NEW scores \in SUBSET Scores, NEW max \in Nat, NEW hits \in Hits(scores, max)
  PROVE  Hit(hits) /\ Cardinality(DOMAIN hits) <= max
<1>1. PICK D \in SUBSET Chunks : hits \in [D -> scores] /\ Cardinality(D) <= max
  BY DEF Hits
<1>2. hits \in [D -> Scores] /\ DOMAIN hits = D
  BY <1>1
<1> QED BY <1>1, <1>2 DEF Hit

\* A search adds to the candidates.
LEMMA SearchFinds ==
  ASSUME NEW kind \in {"vec", "text"}, NEW scores \in SUBSET Scores, NEW max \in Nat,
         Candidates(cand), body \in [Posts -> Nat],
         NEW rows \in {Rows(hits, kind) : hits \in Hits(scores, max)}
  PROVE  Candidates(Merge(kind, rows))
<1>1. PICK hits \in Hits(scores, max) : rows = Rows(hits, kind)
  OBVIOUS
<1>2. Hit(hits)
  BY HitsAre
<1>3. /\ rows \in Seq(Row) /\ UniqueKeys(rows)
      /\ scope = "user" => \A n \in DOMAIN rows : Plain(rows[n].key)
  BY <1>1, <1>2, RowsAre
<1> QED BY <1>3, MergeIs

LEMMA RowsResult ==
  ASSUME Ready(Settled), body \in [Posts -> Nat], NEW hits \in Hits(VecScores, VectorLimit)
  PROVE  Result(Rows(hits, "vec")) /\ Alone(Rows(hits, "vec"))
<1> DEFINE rows == Rows(hits, "vec")
<1>1. VectorLimit \in 1 .. 50
  BY LimitsAre
<1>2. Hit(hits) /\ Cardinality(DOMAIN hits) <= VectorLimit
  <2>1. VecScores \in SUBSET Scores /\ VectorLimit \in Nat
    BY <1>1, SearchAssumption
  <2> QED BY <2>1, HitsAre
<1>3. /\ rows \in Seq(Row) /\ Len(rows) = Cardinality(DOMAIN hits) /\ UniqueKeys(rows)
      /\ scope = "user" => \A n \in DOMAIN rows : Plain(rows[n].key)
  BY <1>2, RowsAre
<1> HIDE DEF rows
<1>4. rows \in Seq(Answered)
  <2>1. Row \subseteq Answered
    <3> QED BY ScoresAre DEF Row, Answered
  <2> QED BY <1>3, <2>1, SeqWiden
<1>5. Alone(rows)
  <2>1. Len(rows) <= VectorLimit
    BY <1>2, <1>3
  <2>2. \A n \in DOMAIN rows : rows[n].score \in Scores
    <3> TAKE n \in DOMAIN rows
    <3>1. rows[n] \in Row
      BY <1>3
    <3> QED BY <3>1 DEF Row
  <2> QED BY <2>1, <2>2 DEF Alone
<1> QED BY <1>3, <1>4, <1>5 DEF Result, rows

LEMMA FuseResult ==
  ASSUME Ready(Settled), NEW c, Candidates(c)
  PROVE  /\ Result(Fuse(c)) /\ Len(Fuse(c)) <= Limit
         /\ \A n \in DOMAIN Fuse(c) : Fuse(c)[n].score \in Points
<1>1. Limit \in 1 .. 20
  BY LimitsAre
<1>2. PICK best, k :
        /\ k \in Nat /\ k <= Limit
        /\ best \in [1 .. k -> Diversified(Scored(c))]
        /\ Fuse(c) = [n \in 1 .. k |-> Chunk(best[n])]
        /\ \A m, n \in 1 .. k : m < n => Ahead(best[m], best[n])
  BY <1>1, FuseIs
<1>3. \A n \in 1 .. k : best[n] \in Scored(c)
  BY <1>2 DEF Diversified
<1> DEFINE f == Fuse(c)
<1>4. \A n \in 1 .. k : /\ f[n] = Chunk(best[n]) /\ f[n].key = best[n].key
                        /\ f[n].score \in Points /\ f[n] \in Answered
  <2> TAKE n \in 1 .. k
  <2>1. best[n].key \in Keys /\ best[n].score \in Points
    BY <1>3, ScoredIs
  <2>2. f[n] = Chunk(best[n])
    BY <1>2
  <2>3. Points \subseteq Int
    BY PointsAre
  <2>4. f[n] = [key |-> best[n].key, score |-> best[n].score]
    BY <2>2 DEF Chunk
  <2>5. best[n].score \in Int
    BY <2>1, <2>3
  <2> QED BY ONLY <2>1, <2>2, <2>4, <2>5 DEF Answered
<1>5. DOMAIN f = 1 .. k
  BY <1>2
<1> HIDE DEF f
<1>6. f \in Seq(Answered) /\ Len(f) = k
  <2>1. f = [n \in 1 .. k |-> f[n]]
    BY <1>2 DEF f
  <2>2. \A n \in 1 .. k : f[n] \in Answered
    BY <1>4
  <2> QED BY <1>2, <2>1, <2>2, SeqOf
<1>7. \A m, n \in 1 .. k : f[m].key = f[n].key => m = n
  <2> SUFFICES ASSUME NEW m \in 1 .. k, NEW n \in 1 .. k, f[m].key = f[n].key, m # n
               PROVE  FALSE
    OBVIOUS
  <2>1. best[m] = best[n]
    <3>1. best[m].key = best[n].key
      BY <1>4
    <3> QED BY <1>3, <3>1, ScoredIs
  <2>2. ~ Ahead(best[m], best[m])
    <3>1. best[m].score \in Int /\ best[m].place \in Int
      BY <1>3, ScoredIs DEF Rated
    <3> QED BY <3>1 DEF Ahead
  <2>3. m < n \/ n < m
    BY <1>2
  <2> QED BY <1>2, <2>1, <2>2, <2>3
<1>8. UniqueKeys(f)
  BY <1>5, <1>7 DEF UniqueKeys
<1>9. ASSUME scope = "user", NEW n \in 1 .. k
      PROVE  Plain(f[n].key)
  <2>1. best[n].place \in DOMAIN c /\ best[n].key = c[best[n].place].key
    BY <1>3, ScoredIs
  <2>2. f[n].key = c[best[n].place].key
    BY <1>4, <2>1
  <2> QED BY <1>9, <2>1, <2>2 DEF Candidates
<1> QED BY <1>2, <1>4, <1>5, <1>6, <1>8, <1>9 DEF Result, f

\* The ranking of what has been scored.
Ranked(rows, max) ==
  LET best == FirstOf(Listed(Diversified(rows), Ahead), max) IN
  [n \in DOMAIN best |-> Chunk(best[n])]

LEMMA FusePrimed ==
  ASSUME plan' = plan, scope' = scope
  PROVE  Fuse(cand)' = Fuse(cand')
<1>1. Fuse(cand)' = Ranked(Scored(cand)', Limit')
  BY DEF Fuse, Ranked
<1>2. Fuse(cand') = Ranked(Scored(cand'), Limit)
  BY DEF Fuse, Ranked
<1>3. Settled' = Settled
  BY DEF Settled
<1>4. Limit' = Limit
  BY <1>3 DEF Limit
<1>5. \A n \in DOMAIN cand' : FusedScore(cand, n)' = FusedScore(cand', n)
  BY <1>3 DEF FusedScore, Normal, Span, Best, Worst
<1>6. Scored(cand)' = Scored(cand')
  BY <1>5 DEF Scored
<1> QED BY <1>1, <1>2, <1>4, <1>6

LEMMA FoundPrimed ==
  ASSUME scope' = scope, Candidates(cand')
  PROVE  Candidates(cand)'
  BY DEF Candidates, UniqueKeys, Plain

LEMMA ResultPrimed ==
  ASSUME scope' = scope, Result(result')
  PROVE  Result(result)'
  BY DEF Result

LEMMA AlonePrimed ==
  ASSUME scope' = scope, plan' = plan, NEW chunks, Alone(chunks), result' = chunks
  PROVE  Alone(result)'
<1>1. VectorLimit' = VectorLimit
  BY DEF VectorLimit, Settled
<1> QED BY <1>1 DEF Alone

-----------------------------------------------------------------------------
(***************************************************************************)
(* The page.                                                               *)
(***************************************************************************)

ScoreOf(of) == 5 * of[1].score + IF Len(of) > 1 THEN of[2].score ELSE 0

ChunksOf(chunks, p) == Picked(chunks, PlacesOf(chunks, p))

HitOf(chunks, p) ==
  [post |-> p, score |-> ScoreOf(ChunksOf(chunks, p)), place |-> Min(PlacesOf(chunks, p))]

HitsOn(chunks) == {HitOf(chunks, chunks[n].key.post) : n \in DOMAIN chunks}

\* The order of the posts of a page.
Newer(x, y) ==
  IF x.score = y.score /\ Created[x.post] # Created[y.post]
  THEN Created[x.post] > Created[y.post] ELSE Ahead(x, y)

OnPage(S) == {p \in S \X S : Newer(p[1], p[2])}

Dated(S) ==
  /\ IsFiniteSet(S)
  /\ \A h \in S : h.score \in Int /\ h.place \in Int /\ Created[h.post] \in Int
  /\ \A h, g \in S : h.place = g.place => h = g

LEMMA NewerSorts ==
  ASSUME NEW S, Dated(S)
  PROVE  Sorts(Listed(S, Newer), S, OnPage(S))
<1>1. StrictOrder(S, OnPage(S))
  BY DEF StrictOrder, OnPage, Newer, Ahead, Dated
<1>2. \A x \in S : {y \in S : Newer(y, x)} = Below(S, OnPage(S), x)
  BY DEF Below, OnPage
<1> DEFINE s == Listed(S, Newer)
<1>3. s = [n \in 1 .. Cardinality(S) |->
             CHOOSE x \in S : Cardinality({y \in S : Newer(y, x)}) = n - 1]
  BY DEF Listed
<1> HIDE DEF s
<1>4. ASSUME NEW n \in 1 .. Cardinality(S)
      PROVE  s[n] \in S /\ Cardinality(Below(S, OnPage(S), s[n])) = n - 1
  <2>1. \E x \in S : Cardinality({y \in S : Newer(y, x)}) = n - 1
    <3>1. PICK x \in S : Cardinality(Below(S, OnPage(S), x)) = n - 1
      BY <1>1, Ranking DEF Dated
    <3> QED BY <1>2, <3>1
  <2>2. s[n] = CHOOSE x \in S : Cardinality({y \in S : Newer(y, x)}) = n - 1
    BY <1>3
  <2>3. s[n] \in S /\ Cardinality({y \in S : Newer(y, s[n])}) = n - 1
    BY <2>1, <2>2
  <2> QED BY <1>2, <2>3
<1>5. s \in [1 .. Cardinality(S) -> S]
  BY <1>3, <1>4
<1>6. Sorts(s, S, OnPage(S))
  BY <1>1, <1>4, <1>5, RankSorts DEF Dated
<1> QED BY <1>6 DEF s

LEMMA ChunksOfIs ==
  ASSUME NEW chunks, Result(chunks), NEW n \in DOMAIN chunks
  PROVE  LET p  == chunks[n].key.post
             of == ChunksOf(chunks, p) IN
         /\ p \in Posts
         /\ Min(PlacesOf(chunks, p)) \in DOMAIN chunks
         /\ chunks[Min(PlacesOf(chunks, p))].key.post = p
         /\ Len(of) \in Nat /\ Len(of) >= 1
         /\ \A i \in 1 .. Len(of) :
              of[i].score \in Int /\ \E m \in DOMAIN chunks : of[i] = chunks[m]
<1> DEFINE p == chunks[n].key.post
           D == PlacesOf(chunks, p)
           of == ChunksOf(chunks, p)
<1>1. chunks \in Seq(Answered) /\ DOMAIN chunks = 1 .. Len(chunks) /\ Len(chunks) \in Nat
  BY DEF Result
<1>2. \A i \in DOMAIN chunks : chunks[i] \in Answered
  BY <1>1
<1>3. \A c \in Answered : c.key.post \in Posts /\ c.score \in Int
  BY DEF Answered, Keys
<1>4. D \in SUBSET (DOMAIN chunks) /\ n \in D /\ \A i \in D : chunks[i].key.post = p
  BY DEF PlacesOf
<1> HIDE DEF D
<1>5. /\ IsFiniteSet(D) /\ Cardinality(D) \in Nat
      /\ of \in Seq(Answered) /\ Len(of) = Cardinality(D)
      /\ \E i \in 1 .. Cardinality(D) : of[i] = chunks[n]
      /\ \A i \in 1 .. Cardinality(D) : \E m \in D : of[i] = chunks[m]
  BY <1>1, <1>4, PickedIs DEF ChunksOf, D
<1>6. Min(D) \in D
  <2>1. D \in SUBSET Int
    BY <1>1, <1>4
  <2> QED BY <1>4, <1>5, <2>1, MinIs
<1>7. Len(of) \in Nat /\ Len(of) >= 1
  BY <1>5
<1>8. ASSUME NEW i \in 1 .. Len(of)
      PROVE  of[i].score \in Int /\ \E m \in DOMAIN chunks : of[i] = chunks[m]
  <2>1. PICK m \in D : of[i] = chunks[m]
    BY <1>5
  <2>2. m \in DOMAIN chunks /\ chunks[m].score \in Int
    BY <1>2, <1>3, <1>4
  <2> QED BY <2>1, <2>2
<1>9. p \in Posts
  BY <1>2, <1>3
<1> QED BY <1>4, <1>6, <1>7, <1>8, <1>9 DEF D

LEMMA ScoreIs ==
  ASSUME NEW of, Len(of) \in Nat, Len(of) >= 1, \A i \in 1 .. Len(of) : of[i].score \in Int
  PROVE  ScoreOf(of) \in Int
<1>1. of[1].score \in Int
  OBVIOUS
<1>2. Len(of) > 1 => of[2].score \in Int
  OBVIOUS
<1> QED BY <1>1, <1>2 DEF ScoreOf

LEMMA HitsOnAre ==
  ASSUME NEW chunks, Result(chunks)
  PROVE  /\ Dated(HitsOn(chunks))
         /\ \A h \in HitsOn(chunks) : /\ h = HitOf(chunks, h.post)
                                      /\ \E n \in DOMAIN chunks : h.post = chunks[n].key.post
         /\ \A n \in DOMAIN chunks : HitOf(chunks, chunks[n].key.post) \in HitsOn(chunks)
<1> DEFINE S == HitsOn(chunks)
           f == [n \in DOMAIN chunks |-> HitOf(chunks, chunks[n].key.post)]
<1>1. \A p : HitOf(chunks, p).post = p /\ HitOf(chunks, p).place = Min(PlacesOf(chunks, p))
             /\ HitOf(chunks, p).score = ScoreOf(ChunksOf(chunks, p))
  BY DEF HitOf
<1>2. IsFiniteSet(S)
  <2> DEFINE D == DOMAIN chunks
  <2>1. DOMAIN chunks = 1 .. Len(chunks) /\ Len(chunks) \in Nat
    BY DEF Result
  <2>2. IsFiniteSet(D)
    BY <2>1, FS_Interval
  <2>3. f \in [D -> S]
    BY DEF HitsOn
  <2>4. S = {f[n] : n \in D}
    BY DEF HitsOn
  <2> HIDE DEF f, D, S
  <2>5. IsFiniteSet({f[n] : n \in D})
    BY <2>2, <2>3, ImageFinite
  <2> QED BY <2>4, <2>5
<1>3. \A h \in S : \E n \in DOMAIN chunks : h = HitOf(chunks, chunks[n].key.post)
  BY DEF HitsOn
<1>4. ASSUME NEW h \in S
      PROVE  /\ h = HitOf(chunks, h.post)
             /\ \E n \in DOMAIN chunks : h.post = chunks[n].key.post
             /\ h.score \in Int /\ h.place \in Int /\ Created[h.post] \in Int
             /\ chunks[h.place].key.post = h.post
  <2>1. PICK n \in DOMAIN chunks : h = HitOf(chunks, chunks[n].key.post)
    BY <1>3
  <2> DEFINE p == chunks[n].key.post
             of == ChunksOf(chunks, p)
  <2>2. h.post = p /\ h.place = Min(PlacesOf(chunks, p)) /\ h.score = ScoreOf(of)
    BY <1>1, <2>1
  <2>3. /\ p \in Posts
        /\ Min(PlacesOf(chunks, p)) \in DOMAIN chunks
        /\ chunks[Min(PlacesOf(chunks, p))].key.post = p
        /\ Len(of) \in Nat /\ Len(of) >= 1
        /\ \A i \in 1 .. Len(of) : of[i].score \in Int
    BY ChunksOfIs
  <2>4. ScoreOf(of) \in Int
    BY <2>3, ScoreIs
  <2>5. DOMAIN chunks \subseteq Int
    BY DEF Result
  <2>6. Created[p] \in Int
    BY <2>3, SearchAssumption
  <2> HIDE DEF of
  <2>7. h.score \in Int /\ h.place \in Int /\ Created[h.post] \in Int
    BY <2>2, <2>3, <2>4, <2>5, <2>6
  <2>8. chunks[h.place].key.post = h.post
    BY <2>2, <2>3
  <2> QED BY <2>1, <2>2, <2>7, <2>8
<1>5. ASSUME NEW h \in S, NEW g \in S, h.place = g.place
      PROVE  h = g
  <2>1. h.post = g.post
    BY <1>4, <1>5
  <2> QED BY <1>4, <2>1
<1>6. Dated(S)
  BY <1>2, <1>4, <1>5 DEF Dated
<1>7. \A n \in DOMAIN chunks : HitOf(chunks, chunks[n].key.post) \in S
  BY DEF HitsOn
<1> QED BY <1>4, <1>6, <1>7

LEMMA PageIs ==
  ASSUME NEW chunks, Result(chunks)
  PROVE  \E posts, k :
           /\ Sorts(posts, HitsOn(chunks), OnPage(HitsOn(chunks)))
           /\ k \in 0 .. PageLimit /\ k <= Len(posts)
           /\ k < PageLimit /\ Offset = 0 => k = Len(posts)
           /\ AggregatePosts(chunks) = [n \in 1 .. k |-> posts[Offset + n].post]
           /\ \A n \in 1 .. k : Offset + n \in 1 .. Len(posts)
<1> DEFINE S == HitsOn(chunks)
           posts == Listed(S, Newer)
           k == Larger(0, Smaller(PageLimit, Len(posts) - Offset))
<1>1. AggregatePosts(chunks) = [n \in 1 .. k |-> posts[Offset + n].post]
  BY DEF AggregatePosts, HitsOn, HitOf, ScoreOf, ChunksOf, Newer, Listed
<1>2. Sorts(posts, S, OnPage(S))
  BY HitsOnAre, NewerSorts
<1> HIDE DEF posts
<1>3. Len(posts) \in Nat /\ PageLimit \in Nat /\ Offset \in Nat
  BY <1>2, SearchAssumption DEF Sorts
<1>4. /\ k \in 0 .. PageLimit /\ k <= Len(posts)
      /\ k < PageLimit /\ Offset = 0 => k = Len(posts)
      /\ \A n \in 1 .. k : Offset + n \in 1 .. Len(posts)
  BY <1>3 DEF Larger, Smaller
<1> QED BY <1>1, <1>2, <1>4

LEMMA PageShort ==
  ASSUME NEW chunks, Result(chunks)
  PROVE  Len(AggregatePosts(chunks)) <= PageLimit
<1>1. PICK posts, k :
        /\ Sorts(posts, HitsOn(chunks), OnPage(HitsOn(chunks)))
        /\ k \in 0 .. PageLimit /\ k <= Len(posts)
        /\ k < PageLimit /\ Offset = 0 => k = Len(posts)
        /\ AggregatePosts(chunks) = [n \in 1 .. k |-> posts[Offset + n].post]
        /\ \A n \in 1 .. k : Offset + n \in 1 .. Len(posts)
  BY PageIs, Zenon
<1>2. PageLimit \in Nat
  BY SearchAssumption
<1>3. Len(AggregatePosts(chunks)) = k
  BY <1>1, <1>2
<1> QED BY <1>1, <1>2, <1>3

-----------------------------------------------------------------------------
(***************************************************************************)
(* The invariant holds.                                                    *)
(***************************************************************************)

LEMMA InitInv == Init => IInv
<1> SUFFICES ASSUME Init PROVE IInv
  OBVIOUS
<1> USE DEF Init
<1>1. AskedInv
  BY SearchAssumption DEF AskedInv, Pcs, Requests
<1>2. PlanInv
  BY DEF PlanInv
<1>3. QueryInv
  BY DEF QueryInv
<1>4. FoundInv
  BY DEF FoundInv, Candidates, UniqueKeys
<1>5. AnswerInv
  BY DEF AnswerInv, Result, UniqueKeys
<1> QED BY <1>1, <1>2, <1>3, <1>4, <1>5 DEF IInv

\* The parts of a step that leave their state alone.
LEMMA SamePlan ==
  ASSUME PlanInv, pc \notin {"plan", "failed"}, pc' # "plan",
         UNCHANGED <<plan, scope>>, asked' \in {asked, {}}
  PROVE  PlanInv'
  BY DEF PlanInv

LEMMA SameAsked ==
  ASSUME AskedInv, pc' \in Pcs, scope' = scope, asked' \in {asked, {}}
  PROVE  AskedInv'
  BY DEF AskedInv

LEMMA NoAnswer ==
  ASSUME AnswerInv, pc # "done", pc' # "done", UNCHANGED <<result, page>>
  PROVE  AnswerInv'
<1>1. result' = <<>> /\ page' = <<>>
  BY DEF AnswerInv
<1>2. Result(result)'
  BY <1>1 DEF Result, UniqueKeys
<1> QED BY <1>1, <1>2 DEF AnswerInv

LEMMA SameFound ==
  ASSUME FoundInv, UNCHANGED <<cand, scope>>,
         pc' \in {"plan", "embed", "embedOne", "semantic"} => cand = <<>>
  PROVE  FoundInv'
<1>1. Candidates(cand)'
  BY FoundPrimed DEF FoundInv
<1> QED BY <1>1 DEF FoundInv

LEMMA Answers ==
  ASSUME scope' = scope, plan' = plan, NEW chunks, Result(chunks), Answer(chunks), pc' = "done",
         IF cand' # <<>> THEN chunks = Fuse(cand)' ELSE Alone(chunks)
  PROVE  AnswerInv'
<1>1. result' = chunks /\ page' = IF scope = "global" THEN AggregatePosts(chunks) ELSE <<>>
  BY DEF Answer
<1>2. Result(result)'
  BY <1>1, ResultPrimed
<1>3. AggregatePosts(result)' = AggregatePosts(chunks)
  BY <1>1
<1>4. page' = IF scope' = "global" THEN AggregatePosts(result)' ELSE <<>>
  BY <1>1, <1>3
<1>5. IF cand' # <<>> THEN result' = Fuse(cand)' ELSE Alone(result)'
  BY <1>1, AlonePrimed
<1> QED BY <1>1, <1>2, <1>4, <1>5 DEF AnswerInv

LEMMA NextQueryIs == NextQuery \subseteq kept
  BY DEF NextQuery

LEMMA AfterTextInv ==
  ASSUME IInv, pc = "text", Candidates(cand'), AfterText,
         UNCHANGED <<scope, asked, plan, kept, eligible>>, body' = body
  PROVE  IInv'
<1>0. AskedInv /\ PlanInv /\ QueryInv /\ FoundInv /\ AnswerInv
  BY DEF IInv
<1>1. Ready(Settled) /\ pc' \in {"text", "embedOne", "done"}
  BY <1>0, PlanIs DEF AfterText
<1>2. AskedInv' /\ PlanInv'
  BY <1>0, <1>1, SameAsked, SamePlan DEF Pcs
<1>3. QueryInv'
  <2>1. at' \in kept /\ (pc' \notin {"vector", "text"} => at' = 0)
    BY <1>0, NextQueryIs DEF AfterText, QueryInv
  <2> QED BY <1>0, <2>1 DEF QueryInv
<1>4. FoundInv'
  <2>1. Candidates(cand)'
    BY FoundPrimed
  <2>2. pc' \in {"plan", "embed", "embedOne", "semantic"} => cand' = <<>>
    BY DEF AfterText
  <2> QED BY <2>1, <2>2 DEF FoundInv
<1>5. AnswerInv'
  <2>1. CASE pc' # "done"
    <3>1. UNCHANGED <<result, page>>
      BY <2>1 DEF AfterText
    <3> QED BY <1>0, <2>1, <3>1, NoAnswer
  <2>2. CASE pc' = "done"
    <3>1. Answer(Fuse(cand')) /\ cand' # <<>>
      BY <2>2 DEF AfterText
    <3>2. Result(Fuse(cand'))
      BY <1>1, FuseResult
    <3>3. Fuse(cand)' = Fuse(cand')
      BY FusePrimed
    <3> QED BY <2>2, <3>1, <3>2, <3>3, Answers
  <2> QED BY <2>1, <2>2
<1> QED BY <1>2, <1>3, <1>4, <1>5 DEF IInv

LEMMA BeginInv ==
  ASSUME IInv, pc \in {"embed", "embedOne"}, BeginSearch, kept' \subseteq 0 .. 4, 0 \in kept',
         pc' \in {"vector", "semantic"}
  PROVE  IInv'
<1>0. AskedInv /\ PlanInv /\ QueryInv /\ FoundInv /\ AnswerInv
  BY DEF IInv
<1> USE DEF BeginSearch
<1>1. AskedInv' /\ PlanInv'
  BY <1>0, SameAsked, SamePlan DEF Pcs
<1>2. QueryInv'
  <2>1. eligible' \subseteq Posts
    BY DEF Eligible
  <2> QED BY <1>0, <2>1 DEF QueryInv
<1>3. FoundInv'
  BY <1>0, SameFound DEF FoundInv
<1>4. AnswerInv'
  BY <1>0, NoAnswer
<1> QED BY <1>1, <1>2, <1>3, <1>4 DEF IInv

\* Every step keeps it.
LEMMA StepInv == IInv /\ [Next]_vars => IInv'
<1> SUFFICES ASSUME IInv, [Next]_vars PROVE IInv'
  OBVIOUS
<1>0. AskedInv /\ PlanInv /\ QueryInv /\ FoundInv /\ AnswerInv
  BY DEF IInv
<1>1. CASE PlanFails
  <2> USE <1>1 DEF PlanFails
  <2>1. AskedInv' /\ QueryInv'
    BY <1>0, SameAsked DEF Pcs, QueryInv
  <2>2. PlanInv'
    BY <1>0 DEF PlanInv
  <2>3. FoundInv' /\ AnswerInv'
    BY <1>0, SameFound, NoAnswer
  <2> QED BY <2>1, <2>2, <2>3 DEF IInv
<1>2. CASE Plan
  <2>1. PICK a \in asked : /\ Accepts(a.raw) /\ plan' = {Normalize(a.raw, a.base)}
                           /\ pc' = IF a.raw.enabled THEN "embed" ELSE "embedOne"
    BY <1>2 DEF Plan
  <2>2. /\ pc = "plan" /\ pc' \in {"embed", "embedOne"}
        /\ UNCHANGED <<at, scope, asked, kept, eligible, body, cand, result, page>>
    BY <1>2, <2>1 DEF Plan
  <2>3. a \in Asked /\ asked = {a} /\ a.scope = scope
    BY <1>0, <2>1 DEF AskedInv
  <2>4. AskedInv' /\ QueryInv'
    BY <1>0, <2>2, SameAsked DEF Pcs, QueryInv
  <2>5. PlanInv'
    BY <2>1, <2>2, <2>3 DEF PlanInv
  <2>6. FoundInv' /\ AnswerInv'
    BY <1>0, <2>2, SameFound, NoAnswer DEF FoundInv
  <2> QED BY <2>4, <2>5, <2>6 DEF IInv
<1>3. CASE Embed
  <2>1. /\ pc = "embed" /\ pc' = "vector" /\ BeginSearch
        /\ kept' \in {{0} \cup s : s \in SUBSET (1 .. Len(Settled.rewrites))}
    BY <1>3 DEF Embed
  <2>2. Len(Settled.rewrites) <= 4 /\ Len(Settled.rewrites) \in Nat
    <3>1. Ready(Settled)
      BY <1>0, <2>1, PlanIs
    <3>2. /\ Len(Settled.rewrites) <= Settled.maxRewrites /\ Settled.maxRewrites \in 0 .. 4
          /\ Settled.rewrites \in Seq(Settle(Terms))
      BY <3>1 DEF Ready
    <3>3. Len(Settled.rewrites) \in Nat
      BY <3>2
    <3> QED BY <3>2, <3>3
  <2>3. kept' \subseteq 0 .. 4 /\ 0 \in kept'
    <3> DEFINE m == Len(Settled.rewrites)
    <3>1. PICK s \in SUBSET (1 .. m) : kept' = {0} \cup s
      BY <2>1
    <3>2. m \in Nat /\ m <= 4
      BY <2>2
    <3> HIDE DEF m
    <3> QED BY <3>1, <3>2
  <2> QED BY <2>1, <2>3, BeginInv
<1>4. CASE VectorSearch
  <2>1. /\ pc = "vector" /\ pc' \in {"vector", "text"}
        /\ UNCHANGED <<scope, asked, plan, kept, eligible, body, result, page>>
    BY <1>4 DEF VectorSearch
  <2>2. Candidates(cand')
    <3>1. PICK rows \in {Rows(hits, "vec") : hits \in Hits(VecScores, VectorLimit)} :
                 cand' = Merge("vec", rows)
      BY <1>4 DEF VectorSearch
    <3>2. VectorLimit \in Nat
      <4>1. Ready(Settled)
        BY <1>0, <2>1, PlanIs
      <4> QED BY <4>1, LimitsAre
    <3>3. VecScores \in SUBSET Scores
      BY SearchAssumption
    <3>4. Candidates(cand) /\ body \in [Posts -> Nat]
      BY <1>0 DEF FoundInv, QueryInv
    <3> QED BY <3>1, <3>2, <3>3, <3>4, SearchFinds
  <2>3. FoundInv'
    <3>1. Candidates(cand)'
      BY <2>1, <2>2, FoundPrimed
    <3> QED BY <2>1, <3>1 DEF FoundInv
  <2>4. QueryInv'
    <3>1. at' \in kept
      BY <1>0, <1>4, NextQueryIs DEF VectorSearch, QueryInv
    <3> QED BY <1>0, <2>1, <3>1 DEF QueryInv
  <2>5. AskedInv' /\ PlanInv'
    BY <1>0, <2>1, SameAsked, SamePlan DEF Pcs
  <2>6. AnswerInv'
    BY <1>0, <2>1, NoAnswer
  <2> QED BY <2>3, <2>4, <2>5, <2>6 DEF IInv
<1>5. CASE TextSearch
  <2>1. /\ pc = "text" /\ AfterText
        /\ UNCHANGED <<scope, asked, plan, kept, eligible>> /\ body' = body
    BY <1>5 DEF TextSearch
  <2>2. PICK rows \in {Rows(hits, "text") : hits \in Hits(TextScores, TextLimit)} :
               cand' = Merge("text", rows)
    BY <1>5 DEF TextSearch
  <2>3. TextLimit \in Nat
    <3>1. Ready(Settled)
      BY <1>0, <2>1, PlanIs
    <3> QED BY <3>1, LimitsAre
  <2>4. TextScores \in SUBSET Scores
    BY SearchAssumption
  <2>5. Candidates(cand) /\ body \in [Posts -> Nat]
    BY <1>0 DEF FoundInv, QueryInv
  <2>6. Candidates(cand')
    BY <2>2, <2>3, <2>4, <2>5, SearchFinds
  <2> QED BY <2>1, <2>6, AfterTextInv
<1>6. CASE RewriteFails
  <2>1. Candidates(cand')
    BY <1>0, <1>6 DEF RewriteFails, FoundInv
  <2> QED BY <1>6, <2>1, AfterTextInv DEF RewriteFails
<1>7. CASE EmbedOne
  <2>1. kept \subseteq 0 .. 4 /\ 0 \in kept
    BY <1>0 DEF QueryInv
  <2> QED BY <1>7, <2>1, BeginInv DEF EmbedOne
<1>8. CASE SemanticSearch
  <2>1. /\ pc = "semantic" /\ pc' = "done"
        /\ UNCHANGED <<at, scope, asked, plan, kept, eligible, body, cand>>
    BY <1>8 DEF SemanticSearch
  <2>2. PICK hits \in Hits(VecScores, VectorLimit) : Answer(Rows(hits, "vec"))
    BY <1>8 DEF SemanticSearch
  <2>3. AskedInv' /\ PlanInv' /\ QueryInv'
    BY <1>0, <2>1, SameAsked, SamePlan DEF Pcs, QueryInv
  <2>4. FoundInv' /\ cand' = <<>>
    <3>1. cand = <<>>
      BY <1>0, <2>1 DEF FoundInv
    <3> QED BY <1>0, <2>1, <3>1, SameFound
  <2>5. Result(Rows(hits, "vec")) /\ Alone(Rows(hits, "vec"))
    <3>1. Ready(Settled) /\ body \in [Posts -> Nat]
      BY <1>0, <2>1, PlanIs DEF QueryInv
    <3> QED BY <3>1, RowsResult
  <2>6. AnswerInv'
    BY <2>1, <2>2, <2>4, <2>5, Answers
  <2> QED BY <2>3, <2>4, <2>6 DEF IInv
<1>9. CASE SearchFails
  <2> USE <1>9 DEF SearchFails
  <2>1. AskedInv' /\ PlanInv'
    BY <1>0, SameAsked, SamePlan DEF Pcs
  <2>2. QueryInv'
    BY <1>0 DEF QueryInv
  <2>3. FoundInv' /\ AnswerInv'
    BY <1>0, SameFound, NoAnswer
  <2> QED BY <2>1, <2>2, <2>3 DEF IInv
<1>10. CASE \E p \in Posts : ReplaceChunks(p)
  <2> USE <1>10 DEF ReplaceChunks
  <2>1. AskedInv' /\ PlanInv'
    BY <1>0, SameAsked, SamePlan DEF Pcs, AskedInv
  <2>2. QueryInv'
    BY <1>0 DEF QueryInv
  <2>3. FoundInv' /\ AnswerInv'
    BY <1>0, SameFound, NoAnswer
  <2> QED BY <2>1, <2>2, <2>3 DEF IInv
<1>11. CASE UNCHANGED vars
  <2> USE <1>11 DEF vars
  <2>1. AskedInv' /\ PlanInv' /\ QueryInv'
    BY <1>0 DEF AskedInv, PlanInv, QueryInv
  <2>2. FoundInv'
    BY <1>0, SameFound DEF FoundInv
  <2>3. AnswerInv'
    <3>1. Result(result)'
      BY <1>0, ResultPrimed DEF AnswerInv
    <3>2. Fuse(cand)' = Fuse(cand)
      BY FusePrimed
    <3>3. AggregatePosts(result)' = AggregatePosts(result)
      BY <1>11
    <3>4. Alone(result) => Alone(result)'
      BY AlonePrimed
    <3> QED BY <1>0, <3>1, <3>2, <3>3, <3>4 DEF AnswerInv
  <2> QED BY <2>1, <2>2, <2>3 DEF IInv
<1> QED BY <1>1, <1>2, <1>3, <1>4, <1>5, <1>6, <1>7, <1>8, <1>9, <1>10, <1>11 DEF Next

\* At every await of a search its plan is that of the request, its candidates are
\* chunks that were hit, told apart by their keys, and what it has answered was
\* ranked from all of them (runHybridSearch, runSemanticSearch).
THEOREM Invariant == Spec => []IInv
  BY InitInv, StepInv, PTL DEF Spec

-----------------------------------------------------------------------------
(***************************************************************************)
(* The properties.                                                         *)
(***************************************************************************)

LEMMA AtMostOne ==
  ASSUME NEW S, S # {} => \E x : S = {x}
  PROVE  Cardinality(S) <= 1
<1>1. CASE S = {}
  BY <1>1, FS_EmptySet
<1>2. CASE S # {}
  <2>1. PICK x : S = {x}
    BY <1>2
  <2>2. Cardinality({x}) = 1
    BY FS_Singleton
  <2> QED BY <2>1, <2>2
<1> QED BY <1>1, <1>2

LEMMA InvTypes == IInv => TypeOK
<1> SUFFICES ASSUME IInv PROVE TypeOK
  OBVIOUS
<1>0. AskedInv /\ PlanInv /\ QueryInv /\ FoundInv /\ AnswerInv
  BY DEF IInv
<1>1. /\ pc \in {"plan", "embed", "vector", "text", "embedOne", "semantic", "done", "failed"}
      /\ scope \in {"user", "global"}
      /\ asked # {} => \E a \in Asked : asked = {a} /\ a.scope = scope
  BY <1>0 DEF AskedInv, Pcs
<1>2. \A a \in asked : a.scope = scope
  BY <1>1
<1>3. Cardinality(asked) <= 1
  BY <1>1, AtMostOne
<1>4. Cardinality(plan) <= 1
  <2>1. plan # {} => \E x : plan = {x}
    BY <1>0 DEF PlanInv
  <2> QED BY <2>1, AtMostOne
<1>5. kept \subseteq 0 .. 4 /\ at \in kept /\ eligible \subseteq Posts /\ body \in [Posts -> Nat]
  BY <1>0 DEF QueryInv
<1>6. \A n \in DOMAIN cand : cand[n].vec \in Scores /\ cand[n].text \in Scores
  <2> TAKE n \in DOMAIN cand
  <2>1. cand[n] \in Candidate
    BY <1>0 DEF FoundInv, Candidates
  <2> QED BY <2>1, CandidateIs
<1>7. /\ result # <<>> => pc = "done" /\ Len(result) <= IF Fused THEN Limit ELSE VectorLimit
      /\ \A n \in DOMAIN result : result[n].score \in IF Fused THEN Points ELSE Scores
  <2>1. CASE Fused
    <3>1. Ready(Settled) /\ Candidates(cand) /\ result = Fuse(cand) /\ pc = "done"
      BY <1>0, <2>1, PlanIs DEF Fused, FoundInv, AnswerInv
    <3>2. Len(result) <= Limit /\ \A n \in DOMAIN result : result[n].score \in Points
      BY <3>1, FuseResult
    <3> QED BY <2>1, <3>1, <3>2
  <2>2. CASE pc = "done" /\ ~ Fused
    <3>1. Alone(result)
      BY <1>0, <2>2 DEF Fused, AnswerInv
    <3> QED BY <2>2, <3>1 DEF Alone
  <2>3. CASE pc # "done"
    BY <1>0, <2>3 DEF AnswerInv
  <2> QED BY <2>1, <2>2, <2>3
<1>8. \A n \in DOMAIN result : /\ result[n].key.post \in Posts
                               /\ result[n].score \in IF Fused THEN Points ELSE Scores
  <2> TAKE n \in DOMAIN result
  <2>1. result[n] \in Answered
    BY <1>0 DEF AnswerInv, Result
  <2>2. result[n].key.post \in Posts
    BY <2>1 DEF Answered, Keys
  <2> QED BY <1>7, <2>2
<1>9. Len(page) <= PageLimit
  <2>1. Result(result) /\ (page = <<>> \/ page = AggregatePosts(result))
    BY <1>0 DEF AnswerInv
  <2>2. Len(<<>>) <= PageLimit
    BY SearchAssumption
  <2> QED BY <2>1, <2>2, PageShort
<1> QED BY ONLY <1>1, <1>2, <1>3, <1>4, <1>5, <1>6, <1>7, <1>8, <1>9, PTL DEF TypeOK, Points

\* The state of a search keeps its types, whatever the LLM, the embeddings and
\* PostgreSQL answer: only queries that were kept are searched, a fused result is
\* no longer than was asked for, that of a vector search alone than its LIMIT, and
\* a page has no more posts than it may.
THEOREM Types == Spec => []TypeOK
  BY Invariant, InvTypes, PTL

LEMMA InvOnce == IInv => ChunkOnce
<1> SUFFICES ASSUME IInv, scope = "user", NEW m \in DOMAIN result, NEW n \in DOMAIN result,
                    result[m].key.post = result[n].key.post,
                    result[m].key.index = result[n].key.index
             PROVE  m = n
  BY DEF ChunkOnce
<1>1. Result(result)
  BY DEF IInv, AnswerInv
<1>2. Plain(result[m].key) /\ Plain(result[n].key) /\ UniqueKeys(result)
  BY <1>1 DEF Result
<1>3. result[m].key \in Keys /\ result[n].key \in Keys
  <2>1. result[m] \in Answered /\ result[n] \in Answered
    BY <1>1 DEF Result
  <2> QED BY <2>1 DEF Answered
<1>4. \A k, l \in Keys : k.post = l.post /\ k.index = l.index /\ Plain(k) /\ Plain(l) => k = l
  BY DEF Keys, Plain
<1>5. result[m].key = result[n].key
  BY <1>2, <1>3, <1>4
<1> QED BY <1>2, <1>5 DEF UniqueKeys

\* A chunk of a blog is in the prompt once, though several queries of both kinds
\* hit it and a worker replaces its text between two of them: byKey tells chunks
\* apart by their number.
THEOREM OnceEach == Spec => []ChunkOnce
  BY Invariant, InvOnce, PTL

LEMMA NoCapitals ==
  ASSUME NEW a, NEW b, NEW K, a \in Seq(Settle(K)), NEW L, b \in Seq(Settle(L))
  PROVE  \A n \in DOMAIN (a \o b) : ~ (a \o b)[n].capital
<1> DEFINE T == {w \in Words : ~ w.capital}
<1>1. a \in Seq(T) /\ b \in Seq(T)
  <2>1. Settle(K) \subseteq T /\ Settle(L) \subseteq T
    BY DEF Settle
  <2> QED BY <2>1, SeqWiden
<1>2. a \o b \in Seq(T)
  BY <1>1, ConcatProperties
<1>3. \A w \in T : ~ w.capital
  OBVIOUS
<1> HIDE DEF T
<1>4. \A n \in DOMAIN (a \o b) : (a \o b)[n] \in T
  <2> DEFINE s == a \o b
  <2>1. s \in Seq(T)
    BY <1>2
  <2> HIDE DEF s
  <2>2. \A n \in DOMAIN s : s[n] \in T
    BY <2>1
  <2> QED BY <2>2 DEF s
<1> QED BY <1>3, <1>4

LEMMA InvSettled == IInv => PlanSettled
<1> SUFFICES ASSUME IInv, PlanReady PROVE PlanSettled
  BY DEF PlanSettled
<1>1. pc \in {"embed", "embedOne"} /\ asked # {}
  BY DEF PlanReady
<1>2. PICK a \in Asked : /\ a.raw \in RawPlans /\ Accepts(a.raw) /\ asked \subseteq {a}
                         /\ Settled = Normalize(a.raw, a.base)
  BY <1>1, PlanIs DEF IInv
<1> DEFINE p == Settled
<1>3. /\ Ready(p)
      /\ \/ CleanKeywords(p.keywords, p.maxKeywords) = p.keywords
         \/ \E n \in DOMAIN a.raw.keywords : a.raw.keywords[n].kind = "padded"
  BY <1>2, Normalized
<1>4. /\ Accepts(p)
      /\ CleanKeywords(p.keywords, p.maxKeywords) = p.keywords => Normalize(p, 0) = p
  BY <1>2, ReadySettled
<1>5. a \in asked
  BY <1>1, <1>2
<1>6. \A n \in DOMAIN (p.rewrites \o p.keywords) : ~ (p.rewrites \o p.keywords)[n].capital
  BY <1>3, NoCapitals DEF Ready
<1>7. Len(p.rewrites) <= 4
  <2>1. Len(p.rewrites) <= p.maxRewrites /\ p.maxRewrites \in 0 .. 4 /\ Len(p.rewrites) \in Nat
    <3>1. p.rewrites \in Seq(Settle(Terms)) /\ Len(p.rewrites) <= p.maxRewrites
          /\ p.maxRewrites \in 0 .. 4
      BY <1>3 DEF Ready
    <3> QED BY <3>1
  <2> QED BY <2>1
<1>8. /\ p.chunk + p.title = 30 /\ Len(p.keywords) <= 5
      /\ Distinct(p.rewrites) /\ Distinct(p.keywords)
  BY <1>3 DEF Ready
<1>9. \/ Normalize(p, 0) = p
      \/ \E b \in asked : \E n \in DOMAIN b.raw.keywords : b.raw.keywords[n].kind = "padded"
  BY <1>3, <1>4, <1>5
<1> HIDE DEF p
<1> QED BY <1>4, <1>6, <1>7, <1>8, <1>9 DEF PlanSettled, p

\* Whatever the LLM answers, a search is made with weights that sum to one, at most
\* four rewrites and five keywords in lower case, none twice; and the plan is
\* settled: given as an answer it would be accepted and become itself, but for a
\* keyword that was one letter and a zero-width character (generateSearchPlan).
THEOREM PlansSettled == Spec => []PlanSettled
  BY Invariant, InvSettled, PTL

\* What a plan carries of its filters lets through what each of their ranges does.
LEMMA RangesLet ==
  ASSUME NEW raw, NEW base, NEW t
  PROVE  (\A f \in TimeFilter(raw, base) : \A a \in f.from, b \in f.to : t \in a .. b)
           <=> \A f \in raw.time : Lets(ToAbsoluteRangeKst(f, base), t)
<1> DEFINE g(r) == [type |-> "absolute", from |-> {r.from}, to |-> {r.to}]
<1>1. TimeFilter(raw, base) = UNION {{g(r) : r \in ToAbsoluteRangeKst(f, base)} : f \in raw.time}
  BY DEF TimeFilter
<1>2. \A r : g(r).from = {r.from} /\ g(r).to = {r.to}
  OBVIOUS
<1> HIDE DEF g
<1>3. ASSUME \A h \in TimeFilter(raw, base) : \A a \in h.from, b \in h.to : t \in a .. b,
             NEW f \in raw.time, NEW r \in ToAbsoluteRangeKst(f, base)
      PROVE  t \in r.from .. r.to
  <2>1. g(r) \in TimeFilter(raw, base)
    BY <1>1, <1>3
  <2>2. r.from \in g(r).from /\ r.to \in g(r).to
    BY <1>2
  <2> QED BY <1>3, <2>1, <2>2
<1>4. ASSUME \A f \in raw.time : \A r \in ToAbsoluteRangeKst(f, base) : t \in r.from .. r.to,
             NEW h \in TimeFilter(raw, base), NEW a \in h.from, NEW b \in h.to
      PROVE  t \in a .. b
  <2>1. PICK f \in raw.time : \E r \in ToAbsoluteRangeKst(f, base) : h = g(r)
    BY <1>1, <1>4
  <2>2. PICK r \in ToAbsoluteRangeKst(f, base) : h = g(r)
    BY <2>1
  <2>3. a = r.from /\ b = r.to
    BY <1>2, <1>4, <2>2
  <2> QED BY <1>4, <2>2, <2>3
<1> QED BY <1>3, <1>4 DEF Lets

LEMMA InvCalendar ==
  ASSUME Zone = 0
  PROVE  IInv => RangeIsCalendar
<1> SUFFICES ASSUME IInv, PlanReady, NEW a \in asked, NEW t \in Probes
             PROVE  LET meant == \A f \in a.raw.time : Matches(f, a.base, t) IN
                    /\ InRange(t) => meant
                    /\ meant => InRange(t) \/ \E f \in a.raw.time : SpillsOver(f, a.base)
  BY DEF RangeIsCalendar
<1>1. a \in Asked /\ Settled = Normalize(a.raw, a.base)
  <2>1. pc \notin {"plan", "failed"}
    BY DEF PlanReady
  <2>2. PICK b \in Asked : asked \subseteq {b} /\ Settled = Normalize(b.raw, b.base)
    BY <2>1, PlanIs DEF IInv
  <2> QED BY <2>2
<1>2. a.raw.time \subseteq TimeFilters /\ Present(a.base) /\ t \in Nat
  <2>1. a \in Requests /\ t \in Nat
    BY <1>1, SearchAssumption, ProbesAssumption
  <2>2. a.raw \in RawPlans /\ Present(a.base)
    BY <2>1 DEF Requests, Present
  <2>3. a.raw.time \in SUBSET TimeFilters
    BY <2>2 DEF RawPlans
  <2> QED BY <2>1, <2>2, <2>3
<1>3. InRange(t) <=> \A f \in a.raw.time : Lets(ToAbsoluteRangeKst(f, a.base), t)
  <2>1. Settled.time = TimeFilter(a.raw, a.base)
    BY <1>1 DEF Normalize
  <2>2. (\A f \in TimeFilter(a.raw, a.base) : \A i \in f.from, j \in f.to : t \in i .. j)
          <=> \A f \in a.raw.time : Lets(ToAbsoluteRangeKst(f, a.base), t)
    BY RangesLet
  <2>3. InRange(t) <=> \A f \in Settled.time : \A i \in f.from, j \in f.to : t \in i .. j
    BY DEF InRange
  <2> HIDE DEF Settled
  <2> QED BY ONLY <2>1, <2>2, <2>3
<1>4. \A f \in a.raw.time :
        /\ Lets(ToAbsoluteRangeKst(f, a.base), t) => Matches(f, a.base, t)
        /\ Matches(f, a.base, t)
             => Lets(ToAbsoluteRangeKst(f, a.base), t) \/ SpillsOver(f, a.base)
  BY <1>2, FilterIsMeant
<1> QED BY <1>3, <1>4, Zenon

\* In a process that runs in UTC, as the containers do, the range a search is made
\* with is that of the calendar of Korea for every filter the schema lets through,
\* every request since 1970 and every post since the year 0 (toAbsoluteRangeKst):
\* no day is let in that was not meant, and days are left out only where setMonth
\* spills over the end of a shorter month.
THEOREM RangesAreCalendar ==
  ASSUME Zone = 0
  PROVE  Spec => []RangeIsCalendar
  BY Invariant, InvCalendar, PTL

-----------------------------------------------------------------------------
(***************************************************************************)
(* The best first.                                                         *)
(***************************************************************************)

\* The rows of one post.
RowsOf(rows, p) == {q \in rows : q.key.post = p}

LEMMA DiversifiedIs ==
  ASSUME NEW rows, Rated(rows), NEW r \in rows
  PROVE  LET S == RowsOf(rows, r.key.post)
             R == Sooner(rows) IN
         /\ IsFiniteSet(S) /\ StrictOrder(S, R) /\ r \in S
         /\ \A q \in S : q \in Diversified(rows) <=> Cardinality(Below(S, R, q)) < 2
<1> DEFINE S == RowsOf(rows, r.key.post)
           R == Sooner(rows)
<1>1. S \in SUBSET rows /\ r \in S
  BY DEF RowsOf
<1>2. IsFiniteSet(S)
  BY <1>1, FS_Subset DEF Rated
<1>3. StrictOrder(rows, R)
  BY AheadSorts
<1>4. StrictOrder(S, R)
  BY <1>1, <1>3 DEF StrictOrder
<1>5. ASSUME NEW q \in S
      PROVE  {x \in rows : x.key.post = q.key.post /\ Ahead(x, q)} = Below(S, R, q)
  BY <1>1, <1>5 DEF RowsOf, Sooner, Below
<1>6. ASSUME NEW q \in S
      PROVE  q \in Diversified(rows) <=> Cardinality(Below(S, R, q)) < 2
  BY <1>1, <1>5, <1>6 DEF Diversified, MAX_CHUNKS_PER_POST
<1> QED BY <1>1, <1>2, <1>4, <1>6

LEMMA TwoOf ==
  ASSUME NEW i, NEW j, i # j
  PROVE  Cardinality({i, j}) = 2
<1>1. Cardinality({j}) = 1 /\ IsFiniteSet({j})
  BY FS_Singleton
<1>2. Cardinality({j} \cup {i}) = Cardinality({j}) + 1
  BY <1>1, FS_AddElement
<1>3. {j} \cup {i} = {i, j}
  BY Zenon
<1> QED BY <1>1, <1>2, <1>3

\* A row of which nothing better than itself is missing among the first n is there,
\* or two better ones of its post are.
LEMMA ServedIs ==
  ASSUME NEW rows, Rated(rows), NEW n \in Nat, NEW best \in [1 .. n -> Diversified(rows)],
         \A i, j \in 1 .. n : best[i] = best[j] => i = j,
         NEW r \in rows,
         \A q \in Diversified(rows) : q = r \/ Ahead(q, r) => \E m \in 1 .. n : best[m] = q
  PROVE  \/ \E m \in 1 .. n : best[m] = r
         \/ Cardinality({m \in 1 .. n : best[m].key.post = r.key.post}) = 2
<1> DEFINE S == RowsOf(rows, r.key.post)
           R == Sooner(rows)
<1>1. /\ IsFiniteSet(S) /\ StrictOrder(S, R) /\ r \in S
      /\ \A q \in S : q \in Diversified(rows) <=> Cardinality(Below(S, R, q)) < 2
  BY DiversifiedIs
<1>2. Diversified(rows) \in SUBSET rows
  BY DEF Diversified
<1>3. \A q \in rows : q \in S <=> q.key.post = r.key.post
  BY DEF RowsOf
<1>4. \A q \in S : <<q, r>> \in R => Ahead(q, r)
  BY DEF Sooner
<1> HIDE DEF S, R
<1>5. CASE r \in Diversified(rows)
  BY <1>5
<1>6. CASE r \notin Diversified(rows)
  <2>1. PICK a, b \in S :
          /\ a # b /\ <<a, r>> \in R /\ <<b, r>> \in R
          /\ \A y \in S : Cardinality(Below(S, R, y)) < 2 <=> y \in {a, b}
    <3>1. ~ (Cardinality(Below(S, R, r)) < 2)
      BY <1>1, <1>6
    <3>2. IsFiniteSet(S) /\ StrictOrder(S, R) /\ r \in S
      BY <1>1
    <3> QED BY ONLY <3>1, <3>2, TopTwo, Zenon
  <2>2. \A y \in S : y \in Diversified(rows) <=> y \in {a, b}
    BY <1>1, <2>1
  <2>3. PICK i \in 1 .. n : best[i] = a
    BY <1>4, <2>1, <2>2
  <2>4. PICK j \in 1 .. n : best[j] = b
    BY <1>4, <2>1, <2>2
  <2>5. i # j
    BY <2>1, <2>3, <2>4
  <2>6. \A m \in 1 .. n : best[m].key.post = r.key.post <=> m \in {i, j}
    <3> TAKE m \in 1 .. n
    <3>1. best[m] \in Diversified(rows) /\ best[m] \in rows
      BY <1>2
    <3>2. best[m].key.post = r.key.post <=> best[m] \in {a, b}
      BY <1>3, <2>2, <3>1
    <3>3. best[m] \in {a, b} <=> m \in {i, j}
      BY <2>3, <2>4
    <3> QED BY <3>2, <3>3
  <2>7. {m \in 1 .. n : best[m].key.post = r.key.post} = {i, j}
    BY <2>6
  <2>8. Cardinality({i, j}) = 2
    BY <2>5, TwoOf
  <2> QED BY <2>7, <2>8
<1> QED BY <1>5, <1>6

LEMMA ChunksInOrder ==
  ASSUME Ready(Settled), Candidates(cand), result = Fuse(cand)
  PROVE  ChunksBestFirst
<1> DEFINE rows == Scored(cand)
<1>1. PICK best, k :
        /\ k \in Nat /\ k <= Limit
        /\ best \in [1 .. k -> Diversified(rows)]
        /\ result = [n \in 1 .. k |-> Chunk(best[n])]
        /\ \A m, n \in 1 .. k : m < n => Ahead(best[m], best[n])
        /\ \A q \in Diversified(rows) :
             \/ \E m \in 1 .. k : best[m] = q
             \/ k = Limit /\ \A n \in 1 .. k : Ahead(best[n], q)
  <2>1. Limit \in Nat
    BY LimitsAre
  <2> QED BY <2>1, FuseIs
<1>2. /\ Rated(rows)
      /\ \A r \in rows : /\ r.place \in DOMAIN cand /\ r = RowOf(cand, r.place)
                         /\ r.key = cand[r.place].key
      /\ \A q, r \in rows : q.key = r.key => q = r
      /\ \A n \in DOMAIN cand : RowOf(cand, n) \in rows /\ RowOf(cand, n).key = cand[n].key
  BY ScoredIs
<1>3. Diversified(rows) \in SUBSET rows
  BY DEF Diversified
<1> HIDE DEF rows
<1>4. /\ \A q \in rows : ~ Ahead(q, q)
      /\ \A q, r, s \in rows : Ahead(q, r) /\ Ahead(r, s) => Ahead(q, s)
  BY <1>2 DEF Rated, Ahead
<1>5. Len(result) = k /\ DOMAIN result = 1 .. k
  BY <1>1
<1>6. \A n \in 1 .. k : /\ best[n] \in rows /\ result[n].key = best[n].key
  <2> TAKE n \in 1 .. k
  <2>1. result[n] = Chunk(best[n])
    BY <1>1
  <2>2. best[n] \in rows
    BY <1>1, <1>3
  <2> QED BY <2>1, <2>2 DEF Chunk
<1>7. \A i, j \in 1 .. k : best[i] = best[j] => i = j
  <2> SUFFICES ASSUME NEW i \in 1 .. k, NEW j \in 1 .. k, best[i] = best[j], i # j
               PROVE  FALSE
    OBVIOUS
  <2>1. i < j \/ j < i
    BY <1>1
  <2> QED BY <1>1, <1>4, <1>6, <2>1
<1>8. ASSUME NEW n \in 0 .. k, NEW x \in DOMAIN cand,
             \A q \in Diversified(rows) :
               q = RowOf(cand, x) \/ Ahead(q, RowOf(cand, x)) => \E m \in 1 .. n : best[m] = q
      PROVE  Served(cand[x], n)
  <2> DEFINE r == RowOf(cand, x)
             first == [m \in 1 .. n |-> best[m]]
  <2>1. r \in rows /\ r.key = cand[x].key
    BY <1>2
  <2>2. n \in Nat /\ \A m \in 1 .. n : m \in 1 .. k
    BY <1>1
  <2>3. first \in [1 .. n -> Diversified(rows)] /\ \A m \in 1 .. n : first[m] = best[m]
    BY <1>1, <2>2
  <2> HIDE DEF first
  <2>4. \A i, j \in 1 .. n : first[i] = first[j] => i = j
    BY <1>7, <2>2, <2>3
  <2>5. \A q \in Diversified(rows) : q = r \/ Ahead(q, r) => \E m \in 1 .. n : first[m] = q
    BY <1>8, <2>3
  <2> HIDE DEF r
  <2>6. \/ \E m \in 1 .. n : first[m] = r
        \/ Cardinality({m \in 1 .. n : first[m].key.post = r.key.post}) = 2
    BY <1>2, <2>1, <2>2, <2>3, <2>4, <2>5, ServedIs
  <2>7. CASE \E m \in 1 .. n : first[m] = r
    <3>1. PICK m \in 1 .. n : first[m] = r
      BY <2>7
    <3>2. result[m].key = cand[x].key
      BY <1>6, <2>1, <2>2, <2>3, <3>1
    <3> QED BY <3>2 DEF Served
  <2>8. CASE Cardinality({m \in 1 .. n : first[m].key.post = r.key.post}) = 2
    <3>1. \A m \in 1 .. n : first[m].key.post = result[m].key.post
      <4> TAKE m \in 1 .. n
      <4>1. first[m] = best[m] /\ result[m].key = best[m].key
        BY <1>6, <2>2, <2>3
      <4> QED BY <4>1
    <3>2. {m \in 1 .. n : first[m].key.post = r.key.post}
            = {m \in 1 .. n : result[m].key.post = cand[x].key.post}
      BY <2>1, <3>1
    <3> QED BY <2>8, <3>2 DEF Served, MAX_CHUNKS_PER_POST
  <2> QED BY <2>6, <2>7, <2>8
<1>9. ASSUME NEW x \in DOMAIN cand, k < Limit
      PROVE  Served(cand[x], k)
  <2>1. Limit \in Int /\ k # Limit
    BY <1>1, <1>9, LimitsAre
  <2>2. k \in 0 .. k
    BY <1>1
  <2>3. \A q \in Diversified(rows) : \E m \in 1 .. k : best[m] = q
    BY <1>1, <2>1
  <2> QED BY <1>8, <2>2, <2>3
<1>10. ASSUME NEW n \in 1 .. k, NEW x \in DOMAIN cand, NEW y \in DOMAIN cand,
              result[n].key = cand[y].key, Beats(cand[x], cand[y])
       PROVE  Served(cand[x], n - 1)
  <2>1. best[n] = RowOf(cand, y) /\ best[n] \in rows
    <3>1. best[n].key = RowOf(cand, y).key
      BY <1>2, <1>6, <1>10
    <3> QED BY <1>2, <1>6, <3>1
  <2>2. Ahead(RowOf(cand, x), best[n])
    <3>1. Better(cand, cand[x], cand[y])
      <4>1. ASSUME NEW kind \in {"vec", "text"}, ~ MayTop(cand[y], kind)
            PROVE  NoTop(cand, cand[y], kind)
        <5> DEFINE v == cand[y][kind] - Worst(cand, kind)
                   b == Span(cand, kind)
        <5>1. b \in Int /\ v \in Int /\ ~ (10 * v >= 9 * b)
          BY <4>1, BestIs DEF MayTop
        <5> HIDE DEF v, b
        <5>2. 10 * v < 9 * b
          BY <5>1
        <5> QED BY <5>2 DEF NoTop, v, b
      <4> QED BY <1>10, <4>1 DEF Beats, Better
    <3>2. FusedScore(cand, x) > FusedScore(cand, y)
      BY <3>1, FusedIs
    <3>3. RowOf(cand, x).score > best[n].score
      BY <2>1, <3>2 DEF RowOf
    <3> QED BY <3>3 DEF Ahead
  <2>3. RowOf(cand, x) \in rows
    BY <1>2
  <2> DEFINE r == RowOf(cand, x)
  <2> HIDE DEF r
  <2>4. ASSUME NEW q \in Diversified(rows), q = r \/ Ahead(q, r)
        PROVE  \E m \in 1 .. n - 1 : best[m] = q
    <3>1. q \in rows /\ Ahead(q, best[n])
      BY <1>3, <1>4, <2>1, <2>2, <2>3, <2>4 DEF r
    <3>2. PICK m \in 1 .. k : best[m] = q
      BY <1>1, <1>4, <2>1, <3>1
    <3>3. ~ (n < m) /\ n # m
      BY <1>1, <1>4, <2>1, <3>1, <3>2
    <3>4. m \in 1 .. n - 1
      BY <1>1, <3>3
    <3> QED BY <3>2, <3>4
  <2>5. n - 1 \in 0 .. k
    BY <1>1
  <2> QED BY <1>8, <2>4, <2>5 DEF r
<1> QED BY <1>5, <1>9, <1>10 DEF ChunksBestFirst

LEMMA SecondCounts ==
  ASSUME NEW f, Len(f) \in Nat, Len(f) >= 1, \A i \in 1 .. Len(f) : f[i].score \in Nat,
         NEW g, Len(g) \in Nat, Len(g) >= 1, \A i \in 1 .. Len(g) : g[i].score \in Nat,
         f[1].score - g[1].score > 0,
         \/ Len(g) = 1
         \/ Len(f) > 1 /\ f[2].score >= g[2].score
         \/ 5 * (f[1].score - g[1].score) > g[2].score
  PROVE  ScoreOf(f) > ScoreOf(g)
<1> DEFINE f2 == IF Len(f) > 1 THEN f[2].score ELSE 0
           g2 == IF Len(g) > 1 THEN g[2].score ELSE 0
           f1 == f[1].score
           g1 == g[1].score
<1>1. f1 \in Nat /\ g1 \in Nat /\ f1 > g1
  OBVIOUS
<1>2. f2 \in Nat /\ g2 \in Nat
  <2>1. Len(f) > 1 => f[2].score \in Nat
    OBVIOUS
  <2>2. Len(g) > 1 => g[2].score \in Nat
    OBVIOUS
  <2> QED BY <2>1, <2>2
<1>3. g2 <= f2 \/ 5 * (f1 - g1) > g2
  <2>1. CASE Len(g) > 1
    BY <1>2, <2>1
  <2>2. CASE ~ (Len(g) > 1)
    <3>1. g2 = 0
      BY <2>2
    <3> QED BY <1>2, <3>1
  <2> QED BY <2>1, <2>2
<1>4. ScoreOf(f) = 5 * f1 + f2 /\ ScoreOf(g) = 5 * g1 + g2
  BY DEF ScoreOf
<1> HIDE DEF f1, g1, f2, g2
<1> QED BY <1>1, <1>2, <1>3, <1>4

LEMMA PostsInOrder ==
  ASSUME Result(result), \A n \in DOMAIN result : result[n].score \in Points,
         page = AggregatePosts(result)
  PROVE  PostsBestFirst
<1> DEFINE found == {result[n].key.post : n \in DOMAIN result}
           shown == {page[n] : n \in DOMAIN page}
           S == HitsOn(result)
<1>1. PICK posts, k :
        /\ Sorts(posts, S, OnPage(S))
        /\ k \in 0 .. PageLimit /\ k <= Len(posts)
        /\ k < PageLimit /\ Offset = 0 => k = Len(posts)
        /\ AggregatePosts(result) = [n \in 1 .. k |-> posts[Offset + n].post]
        /\ \A n \in 1 .. k : Offset + n \in 1 .. Len(posts)
  BY PageIs
<1>2. /\ Dated(S)
      /\ \A h \in S : h = HitOf(result, h.post) /\ h.post \in found
      /\ \A p \in found : HitOf(result, p) \in S
  BY HitsOnAre
<1> HIDE DEF S
<1>3. /\ k \in Nat /\ Offset \in Nat /\ Len(posts) \in Nat /\ PageLimit \in Nat
      /\ DOMAIN page = 1 .. k /\ Len(page) = k
      /\ \A n \in 1 .. k : page[n] = posts[Offset + n].post
  BY <1>1, SearchAssumption DEF Sorts
<1>4. /\ \A i \in 1 .. Len(posts) : posts[i] \in S
      /\ \A i, j \in 1 .. Len(posts) : i < j => Newer(posts[i], posts[j]) /\ posts[i] # posts[j]
      /\ \A h \in S : \E i \in 1 .. Len(posts) : posts[i] = h
  <2> DEFINE l == Len(posts)
  <2>1. /\ posts \in Seq(S) /\ l \in Nat /\ DOMAIN posts = 1 .. l
        /\ \A i, j \in 1 .. l : i < j => <<posts[i], posts[j]>> \in OnPage(S) /\ posts[i] # posts[j]
        /\ \A h \in S : \E i \in 1 .. l : posts[i] = h
    BY <1>1 DEF Sorts
  <2>2. \A i \in 1 .. l : posts[i] \in S
    BY <2>1
  <2>3. \A h, g : <<h, g>> \in OnPage(S) => Newer(h, g)
    BY DEF OnPage
  <2> HIDE DEF l
  <2>4. \A i, j \in 1 .. l : i < j => Newer(posts[i], posts[j]) /\ posts[i] # posts[j]
    BY <2>1, <2>3
  <2> QED BY <2>1, <2>2, <2>4 DEF l
<1>5. \A i, j \in 1 .. Len(posts) : posts[i].post = posts[j].post => i = j
  <2> SUFFICES ASSUME NEW i \in 1 .. Len(posts), NEW j \in 1 .. Len(posts),
                      posts[i].post = posts[j].post, i # j
               PROVE  FALSE
    OBVIOUS
  <2>1. posts[i] = posts[j]
    BY <1>2, <1>4
  <2>2. i < j \/ j < i
    BY <1>3
  <2> QED BY <1>4, <2>1, <2>2
<1>6. Distinct(page)
  <2> SUFFICES ASSUME NEW m \in 1 .. k, NEW n \in 1 .. k, page[m] = page[n]
               PROVE  m = n
    BY <1>3 DEF Distinct
  <2>1. Offset + m = Offset + n
    <3> DEFINE i == Offset + m  j == Offset + n
    <3>1. i \in 1 .. Len(posts) /\ j \in 1 .. Len(posts) /\ posts[i].post = posts[j].post
      BY <1>1, <1>3
    <3> HIDE DEF i, j
    <3>2. i = j
      BY <1>5, <3>1
    <3> QED BY <3>2 DEF i, j
  <2> QED BY <1>3, <2>1
<1>7. shown \subseteq found
  <2> SUFFICES ASSUME NEW n \in 1 .. k PROVE page[n] \in found
    BY <1>3
  <2>1. Offset + n \in 1 .. Len(posts)
    BY <1>1
  <2>2. posts[Offset + n] \in S /\ page[n] = posts[Offset + n].post
    BY <1>3, <1>4, <2>1
  <2> HIDE DEF found
  <2> QED BY <1>2, <2>2
<1>8. ASSUME Offset = 0, Len(page) < PageLimit
      PROVE  found \subseteq shown
  <2> SUFFICES ASSUME NEW p \in found
               PROVE  \E n \in 1 .. k : page[n] = p
    BY <1>3
  <2>1. k = Len(posts)
    BY <1>1, <1>3, <1>8
  <2>2. PICK i \in 1 .. Len(posts) : posts[i] = HitOf(result, p)
    BY <1>2, <1>4
  <2>3. posts[i].post = p
    BY <2>2 DEF HitOf
  <2>4. i \in 1 .. k /\ Offset + i = i
    BY <1>3, <1>8, <2>1
  <2> QED BY <1>3, <2>3, <2>4
<1>9. ASSUME NEW n \in 1 .. k, NEW p \in found, Offset = 0, Outranks(p, page[n])
      PROVE  p \in {page[m] : m \in 1 .. n - 1}
  <2> DEFINE q == page[n]
             f == ChunksOf(result, p)
             g == ChunksOf(result, q)
  <2>1. q \in found
    BY <1>3, <1>7
  <2>2. /\ Len(f) \in Nat /\ Len(f) >= 1 /\ \A i \in 1 .. Len(f) : f[i].score \in Nat
        /\ Len(g) \in Nat /\ Len(g) >= 1 /\ \A i \in 1 .. Len(g) : g[i].score \in Nat
    <3>1. \A i \in DOMAIN result : result[i].score \in Nat
      <4>1. \A x \in Points : x \in Int /\ 0 <= x
        BY PointsAre
      <4> QED BY <4>1
    <3>2. ASSUME NEW r \in found
          PROVE  LET of == ChunksOf(result, r) IN
                 /\ Len(of) \in Nat /\ Len(of) >= 1
                 /\ \A i \in 1 .. Len(of) : of[i].score \in Nat
      <4>1. PICK m \in DOMAIN result : r = result[m].key.post
        OBVIOUS
      <4> DEFINE of == ChunksOf(result, r)
      <4>2. /\ Len(of) \in Nat /\ Len(of) >= 1
            /\ \A i \in 1 .. Len(of) : \E l \in DOMAIN result : of[i] = result[l]
        BY <4>1, ChunksOfIs
      <4> HIDE DEF of
      <4> QED BY <3>1, <4>2 DEF of
    <3> QED BY <2>1, <3>2
  <2>3. /\ f[1].score - g[1].score > 0
        /\ \/ Len(g) = 1
           \/ Len(f) > 1 /\ f[2].score >= g[2].score
           \/ 5 * (f[1].score - g[1].score) > g[2].score
    BY <1>9 DEF Outranks, ChunksOf
  <2> HIDE DEF f, g, q
  <2>4. ScoreOf(f) > ScoreOf(g)
    BY <2>2, <2>3, SecondCounts
  <2>5. n \in 1 .. Len(posts) /\ Offset + n = n /\ posts[n].post = q /\ posts[n] \in S
    BY <1>1, <1>3, <1>4, <1>9 DEF q
  <2>6. posts[n] = HitOf(result, q)
    BY <1>2, <2>5
  <2>7. PICK i \in 1 .. Len(posts) : posts[i] = HitOf(result, p)
    BY <1>2, <1>4
  <2>8. posts[i].score = ScoreOf(f) /\ posts[n].score = ScoreOf(g) /\ posts[i].post = p
    BY <2>6, <2>7 DEF HitOf, f, g
  <2>9. ScoreOf(f) \in Int /\ ScoreOf(g) \in Int
    BY <2>2, ScoreIs
  <2>10. ~ Newer(posts[n], posts[i]) /\ i # n
    BY <2>4, <2>8, <2>9 DEF Newer, Ahead
  <2>11. i < n
    BY <1>3, <1>4, <2>5, <2>10
  <2>12. i \in 1 .. n - 1 /\ i \in 1 .. k /\ Offset + i = i
    BY <1>3, <1>9, <2>11
  <2>13. page[i] = p
    BY <1>3, <2>8, <2>12
  <2> QED BY <2>12, <2>13
<1>10. (Offset = 0 /\ Len(page) < PageLimit) => shown = found
  BY <1>7, <1>8
<1>11. \A n \in DOMAIN page, p \in found :
         (Offset = 0 /\ Outranks(p, page[n])) => p \in {page[m] : m \in 1 .. n - 1}
  BY <1>3, <1>9
<1> QED BY <1>6, <1>7, <1>10, <1>11 DEF PostsBestFirst

LEMMA InvBest == IInv => BestFirst
<1> SUFFICES ASSUME IInv, Fused
             PROVE  ChunksBestFirst /\ (scope = "global" => PostsBestFirst)
  BY DEF BestFirst
<1>1. /\ Ready(Settled) /\ Candidates(cand) /\ result = Fuse(cand) /\ Result(result)
      /\ scope = "global" => page = AggregatePosts(result)
  BY PlanIs DEF IInv, Fused, AnswerInv, FoundInv
<1>2. \A n \in DOMAIN result : result[n].score \in Points
  BY <1>1, FuseResult
<1> QED BY <1>1, <1>2, ChunksInOrder, PostsInOrder

\* A fused search leaves nothing out and puts nothing first for no reason: while
\* there is room a candidate is answered unless two others of its post are, one
\* that beats another comes before it, and the posts of a page are in the order of
\* their chunks (runHybridSearch, aggregatePosts).
THEOREM TheBestFirst == Spec => []BestFirst
  BY Invariant, InvBest, PTL
=============================================================================
