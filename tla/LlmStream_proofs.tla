-------------------------- MODULE LlmStream_proofs --------------------------
(***************************************************************************)
(* What one call of generate lets its caller read, for answers in any      *)
(* number of pieces.                                                       *)
(***************************************************************************)
EXTENDS LlmStream, SequenceTheorems, FiniteSetTheorems, TLAPS

-----------------------------------------------------------------------------
(***************************************************************************)
(* Events and their halves.                                                *)
(***************************************************************************)

\* The events a provider writes.
Sent == {Answer(piece) : piece \in Piece} \cup {LastEvent(v) : v \in Outcomes}

LEMMA SentAreEvents ==
  /\ Sent \subseteq Event
  /\ \A e \in Sent : e.kind \in {"answer"} \cup Outcomes
  /\ \A e \in Sent : e = [kind |-> e.kind, piece |-> e.piece]
BY DEF Sent, Event, Answer, LastEvent, Outcomes

\* The two halves of the n-th event are the n-th two halves.
LEMMA HalvesAre ==
  ASSUME NEW e \in Seq(Sent)
  PROVE  /\ HalvesOf(e) \in Seq(Half)
         /\ Len(HalvesOf(e)) = 2 * Len(e)
         /\ \A n \in 1 .. Len(e) :
              /\ HalvesOf(e)[2 * n - 1] = [part |-> "event", is |-> e[n].kind]
              /\ HalvesOf(e)[2 * n] = [part |-> "data", is |-> e[n].piece]
<1> DEFINE len == Len(e)
           h(n) == Halves(e[(n + 1) \div 2])[2 - (n % 2)]
<1>1. len \in Nat
  OBVIOUS
<1>2. \A n \in 1 .. len : e[n] \in Sent
  OBVIOUS
<1>3. \A x \in Sent : /\ Halves(x)[1] = [part |-> "event", is |-> x.kind]
                      /\ Halves(x)[2] = [part |-> "data", is |-> x.piece]
                      /\ Halves(x)[1] \in Half
                      /\ Halves(x)[2] \in Half
  BY SentAreEvents DEF Halves, Half, Event
<1>4. HalvesOf(e) = [n \in 1 .. 2 * len |-> h(n)]
  BY DEF HalvesOf
<1> HIDE DEF len
<1>5. \A n \in 1 .. 2 * len : (n + 1) \div 2 \in 1 .. len /\ 2 - (n % 2) \in {1, 2}
  BY <1>1
<1>6. \A n \in 1 .. 2 * len : h(n) \in Half
  BY <1>2, <1>3, <1>5
<1>7. 2 * len \in Nat
  BY <1>1
<1>8. HalvesOf(e) \in Seq(Half) /\ Len(HalvesOf(e)) = 2 * len
  <2> HIDE DEF h
  <2> QED BY <1>4, <1>6, <1>7
<1>9. ASSUME NEW n \in 1 .. len
      PROVE  /\ HalvesOf(e)[2 * n - 1] = [part |-> "event", is |-> e[n].kind]
             /\ HalvesOf(e)[2 * n] = [part |-> "data", is |-> e[n].piece]
  <2>1. /\ 2 * n - 1 \in 1 .. 2 * len /\ 2 * n \in 1 .. 2 * len
        /\ (2 * n - 1 + 1) \div 2 = n /\ (2 * n + 1) \div 2 = n
        /\ 2 - ((2 * n - 1) % 2) = 1 /\ 2 - ((2 * n) % 2) = 2
    BY <1>1
  <2>2. h(2 * n - 1) = Halves(e[n])[1] /\ h(2 * n) = Halves(e[n])[2]
    BY <2>1
  <2> QED BY <2>1, <2>2, <1>2, <1>3, <1>4
<1> QED BY <1>8, <1>9 DEF len

\* A half has the number of its event and its part.
LEMMA HalfOf ==
  ASSUME NEW m \in Nat, NEW n \in 1 .. 2 * m
  PROVE  \E k \in 1 .. m : n = 2 * k - 1 \/ n = 2 * k
<1>1. CASE n % 2 = 1
  <2>1. (n + 1) \div 2 \in 1 .. m /\ n = 2 * ((n + 1) \div 2) - 1
    BY <1>1
  <2> QED BY <2>1
<1>2. CASE n % 2 = 0
  <2>1. n \div 2 \in 1 .. m /\ n = 2 * (n \div 2)
    BY <1>2
  <2> QED BY <2>1
<1> QED BY <1>1, <1>2

\* What is written after e goes behind the halves of e.
LEMMA Prolonged ==
  ASSUME NEW e \in Seq(Sent), NEW f \in Seq(Sent)
  PROVE  HalvesOf(e \o f) = HalvesOf(e) \o HalvesOf(f)
<1> DEFINE ef == e \o f
           le == Len(e)
           lf == Len(f)
<1>1. /\ ef \in Seq(Sent) /\ Len(ef) = le + lf
      /\ le \in Nat /\ lf \in Nat
      /\ \A n \in 1 .. le : ef[n] = e[n]
      /\ \A n \in 1 .. lf : ef[le + n] = f[n]
  OBVIOUS
<1> HIDE DEF ef
<1> DEFINE he == HalvesOf(e)
           hf == HalvesOf(f)
           hef == HalvesOf(ef)
<1>2. /\ he \in Seq(Half) /\ Len(he) = 2 * le
      /\ hf \in Seq(Half) /\ Len(hf) = 2 * lf
      /\ hef \in Seq(Half) /\ Len(hef) = 2 * (le + lf)
  BY <1>1, HalvesAre
<1>3. \A n \in 1 .. le : he[2 * n - 1] = hef[2 * n - 1] /\ he[2 * n] = hef[2 * n]
  <2> TAKE n \in 1 .. le
  <2>1. n \in 1 .. Len(ef)
    BY <1>1
  <2>2. /\ hef[2 * n - 1] = [part |-> "event", is |-> ef[n].kind]
        /\ hef[2 * n] = [part |-> "data", is |-> ef[n].piece]
    BY <1>1, <2>1, HalvesAre
  <2>3. /\ he[2 * n - 1] = [part |-> "event", is |-> e[n].kind]
        /\ he[2 * n] = [part |-> "data", is |-> e[n].piece]
    BY HalvesAre
  <2>4. ef[n] = e[n]
    BY <1>1
  <2> HIDE DEF he, hef, ef
  <2> QED BY <2>2, <2>3, <2>4
<1>4. \A n \in 1 .. lf : /\ hf[2 * n - 1] = hef[2 * le + 2 * n - 1]
                         /\ hf[2 * n] = hef[2 * le + 2 * n]
  <2> TAKE n \in 1 .. lf
  <2>1. /\ le + n \in 1 .. Len(ef)
        /\ 2 * (le + n) = 2 * le + 2 * n
        /\ 2 * (le + n) - 1 = 2 * le + 2 * n - 1
        /\ ef[le + n] = f[n]
    BY <1>1
  <2>2. /\ hef[2 * (le + n) - 1] = [part |-> "event", is |-> ef[le + n].kind]
        /\ hef[2 * (le + n)] = [part |-> "data", is |-> ef[le + n].piece]
    BY <1>1, <2>1, HalvesAre
  <2>3. /\ hf[2 * n - 1] = [part |-> "event", is |-> f[n].kind]
        /\ hf[2 * n] = [part |-> "data", is |-> f[n].piece]
    BY HalvesAre
  <2> HIDE DEF hf, hef, le
  <2> QED BY <2>1, <2>2, <2>3
<1> HIDE DEF he, hf, hef, le, lf
<1>5. \A n \in 1 .. 2 * le : he[n] = hef[n]
  BY <1>1, <1>3, HalfOf
<1>6. \A n \in 1 .. 2 * lf : hf[n] = hef[2 * le + n]
  <2> TAKE n \in 1 .. 2 * lf
  <2>1. PICK k \in 1 .. lf : n = 2 * k - 1 \/ n = 2 * k
    BY <1>1, HalfOf
  <2>2. /\ hf[2 * k - 1] = hef[2 * le + 2 * k - 1]
        /\ hf[2 * k] = hef[2 * le + 2 * k]
    BY <1>4
  <2>3. 2 * le + (2 * k - 1) = 2 * le + 2 * k - 1
    BY <1>1
  <2> QED BY <2>1, <2>2, <2>3
<1>7. /\ he \o hf \in Seq(Half) /\ Len(he \o hf) = Len(hef)
      /\ \A n \in 1 .. Len(hef) : (he \o hf)[n] = hef[n]
  <2>1. /\ he \o hf \in Seq(Half) /\ Len(he \o hf) = 2 * le + 2 * lf
        /\ \A n \in 1 .. 2 * le + 2 * lf :
             (he \o hf)[n] = IF n <= 2 * le THEN he[n] ELSE hf[n - 2 * le]
    <3>1. /\ he \o hf \in Seq(Half) /\ Len(he \o hf) = Len(he) + Len(hf)
          /\ \A n \in 1 .. Len(he) + Len(hf) :
               (he \o hf)[n] = IF n <= Len(he) THEN he[n] ELSE hf[n - Len(he)]
      <4>1. he \in Seq(Half) /\ hf \in Seq(Half)
        BY <1>2
      <4> QED BY <4>1, ConcatProperties, Zenon
    <3> QED BY <3>1, <1>2, Zenon
  <2>2. \A n \in 1 .. 2 * le + 2 * lf : n > 2 * le =>
          n - 2 * le \in 1 .. 2 * lf /\ 2 * le + (n - 2 * le) = n
    BY <1>1
  <2>3. \A n \in 1 .. 2 * le + 2 * lf : n <= 2 * le => n \in 1 .. 2 * le
    BY <1>1
  <2>4. Len(hef) = 2 * le + 2 * lf
    BY <1>1, <1>2
  <2>5. \A n \in 1 .. 2 * le + 2 * lf : n > 2 * le \/ n <= 2 * le
    BY <1>1
  <2>6. ASSUME NEW n \in 1 .. 2 * le + 2 * lf
        PROVE  (he \o hf)[n] = hef[n]
    <3>1. CASE n <= 2 * le
      BY <3>1, <2>1, <2>3, <1>5
    <3>2. CASE n > 2 * le
      <4>1. ~ (n <= 2 * le)
        BY <3>2, <1>1
      <4>2. (he \o hf)[n] = hf[n - 2 * le]
        BY <4>1, <2>1
      <4> QED BY <3>2, <4>2, <2>2, <1>6
    <3> QED BY <3>1, <3>2, <2>5
  <2> QED BY <2>1, <2>4, <2>6
<1>8. he \o hf = hef
  BY <1>2, <1>7, SeqEqual
<1> QED BY <1>8 DEF he, hf, hef, ef

-----------------------------------------------------------------------------
(***************************************************************************)
(* What is found in a sequence of halves or events.                        *)
(***************************************************************************)

\* Places lists a set whose elements are known in ascending order.
LEMMA PlacesOf ==
  ASSUME NEW n \in Nat, NEW f \in [1 .. n -> Nat],
         \A i, j \in 1 .. n : i < j => f[i] < f[j],
         NEW D, D = {f[i] : i \in 1 .. n}
  PROVE  Places(D) = f
<1> DEFINE Up(i) == {f[j] : j \in 1 .. i}
<1>1. ASSUME NEW i \in 0 .. n
      PROVE  Cardinality(Up(i)) = i
  <2> DEFINE up == [j \in 1 .. i |-> f[j]]
  <2>1. \A j \in 1 .. i : j \in 1 .. n
    OBVIOUS
  <2>2. up \in [1 .. i -> Up(i)]
    OBVIOUS
  <2>3. \A j, k \in 1 .. i : j # k => f[j] # f[k]
    BY <2>1
  <2>4. up \in Bijection(1 .. i, Up(i))
    BY <2>2, <2>3 DEF Bijection, Injection, Surjection, IsInjective
  <2>5. ExistsBijection(1 .. i, Up(i))
    BY <2>4 DEF ExistsBijection
  <2>6. IsFiniteSet(1 .. i) /\ Cardinality(1 .. i) = i
    BY FS_Interval
  <2> HIDE DEF Up
  <2> QED BY <2>5, <2>6, FS_Bijection
<1>2. D = Up(n) /\ Cardinality(D) = n
  BY <1>1
<1>3. ASSUME NEW i \in 1 .. n
      PROVE  {m \in D : m <= f[i]} = Up(i)
  <2>1. \A j \in 1 .. n : f[j] <= f[i] <=> j <= i
    <3> TAKE j \in 1 .. n
    <3>1. /\ f[j] \in Nat /\ f[i] \in Nat
          /\ j < i => f[j] < f[i]
          /\ i < j => f[i] < f[j]
      OBVIOUS
    <3>2. j < i \/ j = i \/ i < j
      OBVIOUS
    <3> QED BY <3>1, <3>2
  <2>2. \A j \in 1 .. i : j \in 1 .. n /\ j <= i
    OBVIOUS
  <2>3. \A j \in 1 .. n : j <= i => j \in 1 .. i
    OBVIOUS
  <2> QED BY <2>1, <2>2, <2>3
<1>4. ASSUME NEW i \in 1 .. n
      PROVE  (CHOOSE x \in D : Cardinality({m \in D : m <= x}) = i) = f[i]
  <2>1. f[i] \in D /\ Cardinality({m \in D : m <= f[i]}) = i
    <3>1. f[i] \in D
      OBVIOUS
    <3>2. i \in 0 .. n
      OBVIOUS
    <3>3. Cardinality(Up(i)) = i
      BY <3>2, <1>1
    <3> QED BY <3>1, <3>3, <1>3
  <2>2. ASSUME NEW x \in D, Cardinality({m \in D : m <= x}) = i
        PROVE  x = f[i]
    <3>1. PICK k \in 1 .. n : x = f[k]
      OBVIOUS
    <3>2. Cardinality({m \in D : m <= x}) = k
      <4>1. k \in 0 .. n /\ {m \in D : m <= f[k]} = Up(k)
        BY <1>3
      <4> HIDE DEF Up
      <4> QED BY <3>1, <4>1, <1>1
    <3> QED BY <3>1, <3>2, <2>2
  <2> QED BY <2>1, <2>2
<1> HIDE DEF Up
<1>5. Places(D) = [i \in 1 .. n |-> f[i]]
  BY <1>2, <1>4 DEF Places
<1> QED BY <1>5

\* From whole events on, the wrapper finds every event that is complete, and
\* keeps the half that is left, if there is one.
LEMMA Flushing ==
  ASSUME NEW e \in Seq(Sent), NEW g \in Nat, NEW hs \in Seq(Half),
         2 * g + Len(hs) <= 2 * Len(e),
         \A j \in 1 .. Len(hs) : hs[j] = HalvesOf(e)[2 * g + j]
  PROVE  /\ Blocks(hs) = [i \in 1 .. Len(hs) \div 2 |-> e[g + i]]
         /\ Rest(hs) = IF Len(hs) % 2 = 0 THEN <<>> ELSE <<hs[Len(hs)]>>
<1> DEFINE len == Len(hs)
           q == len \div 2
           f == [i \in 1 .. q |-> 2 * i]
           D == {n \in DOMAIN hs : hs[n].part = "data"}
<1>1. /\ len \in Nat /\ DOMAIN hs = 1 .. len /\ Len(e) \in Nat
      /\ \A i \in 1 .. Len(e) : e[i] \in Sent
      /\ 2 * g + len <= 2 * Len(e)
      /\ \A j \in 1 .. len : hs[j] = HalvesOf(e)[2 * g + j]
  OBVIOUS
<1> HIDE DEF len
<1>2. q \in Nat /\ (len = 2 * q \/ len = 2 * q + 1)
  BY <1>1
<1>3. /\ len % 2 = 0 => len = 2 * q
      /\ len % 2 # 0 => len = 2 * q + 1
  BY <1>1
<1>4. ASSUME NEW i \in Nat \ {0}
      PROVE  /\ 2 * i \in 1 .. len =>
                  /\ g + i \in 1 .. Len(e)
                  /\ hs[2 * i] = [part |-> "data", is |-> e[g + i].piece]
             /\ 2 * i - 1 \in 1 .. len =>
                  /\ g + i \in 1 .. Len(e)
                  /\ hs[2 * i - 1] = [part |-> "event", is |-> e[g + i].kind]
  <2>1. /\ 2 * g + 2 * i = 2 * (g + i)
        /\ 2 * g + (2 * i - 1) = 2 * (g + i) - 1
    OBVIOUS
  <2>2. ASSUME 2 * i - 1 \in 1 .. len
        PROVE  g + i \in 1 .. Len(e)
    BY <2>2, <1>1
  <2>3. ASSUME 2 * i \in 1 .. len
        PROVE  g + i \in 1 .. Len(e)
    BY <2>3, <1>1
  <2>4. ASSUME g + i \in 1 .. Len(e)
        PROVE  /\ HalvesOf(e)[2 * (g + i) - 1] = [part |-> "event", is |-> e[g + i].kind]
               /\ HalvesOf(e)[2 * (g + i)] = [part |-> "data", is |-> e[g + i].piece]
    BY <2>4, HalvesAre
  <2> QED BY <2>1, <2>2, <2>3, <2>4, <1>1
<1>5. \A i \in 1 .. q : /\ i \in Nat \ {0}
                        /\ 2 * i \in 1 .. len /\ 2 * i - 1 \in 1 .. len
                        /\ 2 * i > 1
  BY <1>1, <1>2
<1>6. D = {f[i] : i \in 1 .. q}
  <2>1. ASSUME NEW i \in 1 .. q
        PROVE  f[i] \in D
    <3>1. i \in Nat \ {0} /\ 2 * i \in 1 .. len
      BY <1>5
    <3>2. hs[2 * i] = [part |-> "data", is |-> e[g + i].piece]
      BY <3>1, <1>4
    <3>3. f[i] = 2 * i
      OBVIOUS
    <3> QED BY <3>1, <3>2, <3>3, <1>1
  <2>2. ASSUME NEW n \in D
        PROVE  \E i \in 1 .. q : n = f[i]
    <3>1. n \in 1 .. len /\ hs[n].part = "data"
      BY <1>1
    <3>2. PICK k \in 1 .. len : n = 2 * k - 1 \/ n = 2 * k
      <4>1. n \in 1 .. 2 * len
        BY <3>1, <1>1
      <4> QED BY <4>1, <1>1, HalfOf
    <3>3. n # 2 * k - 1
      <4>1. SUFFICES ASSUME n = 2 * k - 1 PROVE FALSE
        OBVIOUS
      <4>2. k \in Nat \ {0}
        BY <3>2, <1>1
      <4>3. hs[2 * k - 1] = [part |-> "event", is |-> e[g + k].kind]
        BY <4>1, <4>2, <3>1, <1>4
      <4> QED BY <4>1, <4>3, <3>1
    <3>4. k \in 1 .. q
      BY <3>1, <3>2, <3>3, <1>1, <1>2
    <3> QED BY <3>2, <3>3, <3>4
  <2> QED BY <2>1, <2>2
<1>7. f \in [1 .. q -> Nat] /\ \A i, j \in 1 .. q : i < j => f[i] < f[j]
  BY <1>2
<1>8. DataLines(hs) = f
  <2> HIDE DEF f, q
  <2>1. Places(D) = f
    <3> HIDE DEF D
    <3> QED BY <1>2, <1>6, <1>7, PlacesOf
  <2> QED BY <2>1 DEF DataLines
<1>9. Blocks(hs) = [i \in 1 .. q |-> e[g + i]]
  <2>1. ASSUME NEW i \in 1 .. q
        PROVE  EventAt(hs, f[i]) = e[g + i]
    <3>1. /\ f[i] = 2 * i /\ 2 * i > 1
          /\ hs[2 * i] = [part |-> "data", is |-> e[g + i].piece]
          /\ hs[2 * i - 1] = [part |-> "event", is |-> e[g + i].kind]
          /\ e[g + i] \in Sent
      BY <1>1, <1>4, <1>5
    <3>2. EventAt(hs, 2 * i) = [kind |-> e[g + i].kind, piece |-> e[g + i].piece]
      BY <3>1 DEF EventAt
    <3> QED BY <3>1, <3>2, SentAreEvents
  <2>2. DOMAIN f = 1 .. q
    OBVIOUS
  <2> HIDE DEF f, q
  <2> QED BY <1>8, <2>1, <2>2 DEF Blocks
<1>10. Rest(hs) = IF len % 2 = 0 THEN <<>> ELSE <<hs[len]>>
  <2>1. CASE q = 0
    <3>1. f = <<>>
      BY <2>1
    <3>2. Rest(hs) = hs
      BY <1>8, <3>1 DEF Rest
    <3>3. CASE len % 2 = 0
      <4>1. len = 0
        BY <1>3, <2>1, <3>3
      <4>2. hs = <<>>
        BY <4>1 DEF len
      <4> QED BY <3>2, <3>3, <4>2
    <3>4. CASE len % 2 # 0
      <4>1. len = 1
        BY <1>3, <2>1, <3>4
      <4>2. hs = <<hs[1]>>
        BY <4>1 DEF len
      <4> QED BY <3>2, <3>4, <4>1, <4>2
    <3> QED BY <3>3, <3>4
  <2>2. CASE q # 0
    <3>1. f # <<>> /\ Last(f) = 2 * q
      <4>1. f \in Seq(Nat) /\ Len(f) = q /\ f[q] = 2 * q
        <5>1. q \in 1 .. q /\ \A i \in 1 .. q : 2 * i \in Nat
          BY <1>2, <2>2
        <5> HIDE DEF q
        <5> QED BY <5>1, <1>2
      <4>2. f # <<>>
        BY <4>1, <2>2
      <4> QED BY <4>1, <4>2 DEF Last
    <3>2. Rest(hs) = SubSeq(hs, 2 * q + 1, len)
      <4> HIDE DEF f, q
      <4> QED BY <1>8, <3>1 DEF Rest, len
    <3>3. CASE len % 2 = 0
      <4>1. len = 2 * q
        BY <1>3, <3>3
      <4>2. SubSeq(hs, 2 * q + 1, len) = <<>>
        <5> HIDE DEF q
        <5> QED BY <4>1, <1>2
      <4> QED BY <3>2, <3>3, <4>2
    <3>4. CASE len % 2 # 0
      <4>1. len = 2 * q + 1
        BY <1>3, <3>4
      <4>2. SubSeq(hs, len, len) = <<hs[len]>>
        <5>1. len \in 1 .. Len(hs)
          <6>1. len \in 1 .. len
            <7> HIDE DEF q
            <7> QED BY <4>1, <1>2
          <6> QED BY <6>1 DEF len
        <5>2. len \in Nat /\ 1 .. 1 + len - len = 1 .. 1 /\ 1 + len - 1 = len
          BY <1>1
        <5>3. SubSeq(hs, len, len) = [n \in 1 .. 1 |-> hs[len]]
          BY <5>2
        <5> QED BY <5>3
      <4> QED BY <3>2, <3>4, <4>1, <4>2
    <3> QED BY <3>3, <3>4
  <2> QED BY <2>1, <2>2
<1> QED BY <1>9, <1>10 DEF len

\* Of answers followed by outcomes the caller extracts the pieces of the first,
\* and hears the last.
LEMMA Reading ==
  ASSUME NEW es \in Seq(Event), NEW m \in 0 .. Len(es),
         \A i \in 1 .. m : es[i].kind = "answer",
         \A i \in m + 1 .. Len(es) : es[i].kind \in Outcomes
  PROVE  /\ ExtractAnswerText(es) = [i \in 1 .. m |-> es[i].piece]
         /\ OutcomesOf(es) = [i \in 1 .. Len(es) - m |-> es[m + i].kind]
<1> DEFINE len == Len(es)
           k == len - m
           f == [i \in 1 .. m |-> i]
           h == [i \in 1 .. k |-> m + i]
           A == {n \in DOMAIN es : es[n].kind = "answer"}
           O == {n \in DOMAIN es : es[n].kind \in Outcomes}
<1>1. len \in Nat /\ DOMAIN es = 1 .. len /\ k \in Nat /\ m \in Nat /\ m + k = len
  OBVIOUS
<1>2. \A n \in 1 .. len : n \in 1 .. m \/ n \in m + 1 .. len
  BY <1>1
<1>3. "answer" \notin Outcomes
  BY DEF Outcomes
<1>4. A = {f[i] : i \in 1 .. m}
  BY <1>1, <1>2, <1>3
<1>5. O = {h[i] : i \in 1 .. k}
  <2>1. ASSUME NEW n \in O PROVE \E i \in 1 .. k : n = h[i]
    <3>1. n \in m + 1 .. len
      BY <1>1, <1>2, <1>3
    <3>2. n - m \in 1 .. k /\ n = m + (n - m)
      BY <3>1, <1>1
    <3> QED BY <3>2
  <2>2. ASSUME NEW i \in 1 .. k PROVE h[i] \in O
    <3>1. m + i \in m + 1 .. len /\ m + i \in 1 .. len
      BY <1>1
    <3> QED BY <3>1, <1>1
  <2> QED BY <2>1, <2>2
<1>6. /\ f \in [1 .. m -> Nat] /\ \A i, j \in 1 .. m : i < j => f[i] < f[j]
      /\ h \in [1 .. k -> Nat] /\ \A i, j \in 1 .. k : i < j => h[i] < h[j]
  BY <1>1
<1>7. Places(A) = f /\ Places(O) = h
  <2> HIDE DEF f, h, A, O, k, len
  <2> QED BY <1>1, <1>4, <1>5, <1>6, PlacesOf
<1>8. ExtractAnswerText(es) = [i \in 1 .. m |-> es[i].piece]
  <2>1. ExtractAnswerText(es) = [i \in DOMAIN f |-> es[f[i]].piece]
    <3> HIDE DEF f
    <3> QED BY <1>7 DEF ExtractAnswerText
  <2> QED BY <2>1
<1>9. OutcomesOf(es) = [i \in 1 .. k |-> es[m + i].kind]
  <2>1. OutcomesOf(es) = [i \in DOMAIN h |-> es[h[i]].kind]
    <3> HIDE DEF h
    <3> QED BY <1>7 DEF OutcomesOf
  <2> QED BY <2>1
<1> QED BY <1>8, <1>9

-----------------------------------------------------------------------------
(***************************************************************************)
(* The inductive invariant: the three buffers between the provider and the *)
(* caller hold, in order, what was written and has not been read.          *)
(***************************************************************************)

\* The events that were written to the provider stream.
Events == Len(said) + (IF outcome = "none" THEN 0 ELSE 1)

Written == [n \in 1 .. Events |->
              IF n <= Len(said) THEN Answer(said[n]) ELSE LastEvent(outcome)]

\* The halves the wrapper has been handed, and the events the caller has read.
Handed == 2 * Events - Len(pipe)
Passed == (Handed \div 2) - Len(outer)

\* The answer comes from one call, in order.
OneCall ==
  /\ \A n \in DOMAIN said : said[n] = <<said[1][1], n>>
  /\ source # "none" => \A n \in DOMAIN said : said[n] = <<source, n>>
  /\ Len(said) <= MaxPieces

\* Nothing was written before the provider function returned, and nothing was
\* ended as long as a source is open.
NothingEarly ==
  /\ pc # "returned" => /\ source = "none" /\ outcome = "none"
                        /\ said = <<>> /\ ~wrapped
  /\ source # "none" /\ upstream = "open" => outcome = "none"

InPipe ==
  /\ Len(pipe) <= 2 * Events
  /\ \A n \in 1 .. Len(pipe) : pipe[n] = HalvesOf(Written)[Handed + n]

InBuffer ==
  /\ Len(buffer) = Handed % 2
  /\ Len(buffer) = 1 => buffer[1] = HalvesOf(Written)[Handed]

InOuter ==
  /\ Len(outer) <= Handed \div 2
  /\ \A n \in 1 .. Len(outer) : outer[n] = Written[Passed + n]

WasRead ==
  /\ Len(text) = IF Passed <= Len(said) THEN Passed ELSE Len(said)
  /\ \A n \in 1 .. Len(text) : text[n] = said[n]
  /\ told = IF Passed <= Len(said) THEN <<>> ELSE <<outcome>>

EndsLast ==
  /\ ended => outcome # "none" /\ pipe = <<>>
  /\ finished => ended /\ outer = <<>>

Framing == InPipe /\ InBuffer /\ InOuter /\ WasRead /\ EndsLast

LlmInv == TypeOK /\ OneCall /\ NothingEarly /\ Framing

-----------------------------------------------------------------------------
(***************************************************************************)
(* The movements of what was written: each step of a call is one of them.  *)
(***************************************************************************)

FrameTypes ==
  /\ said \in Seq(Piece) /\ outcome \in Outcomes \cup {"none"}
  /\ pipe \in Seq(Half) /\ buffer \in Seq(Half) /\ outer \in Seq(Event)
  /\ text \in Seq(Piece) /\ told \in Seq(Outcomes)
  /\ ended \in BOOLEAN /\ finished \in BOOLEAN

frameVars == <<said, outcome, pipe, buffer, outer, text, told, ended, finished>>

LEMMA WrittenIs ==
  ASSUME FrameTypes
  PROVE  /\ Written \in Seq(Sent) /\ Len(Written) = Events /\ Events \in Nat
         /\ Len(said) \in Nat
         /\ outcome = "none" => Events = Len(said)
         /\ outcome # "none" => Events = Len(said) + 1
         /\ HalvesOf(Written) \in Seq(Half) /\ Len(HalvesOf(Written)) = 2 * Events
<1>1. /\ Len(said) \in Nat /\ Events \in Nat
      /\ outcome = "none" => Events = Len(said)
      /\ outcome # "none" => Events = Len(said) + 1
  BY DEF FrameTypes, Events
<1>2. ASSUME NEW n \in 1 .. Events
      PROVE  (IF n <= Len(said) THEN Answer(said[n]) ELSE LastEvent(outcome)) \in Sent
  <2>1. CASE n <= Len(said)
    <3>1. said[n] \in Piece
      BY <2>1, <1>1 DEF FrameTypes
    <3> QED BY <2>1, <3>1 DEF Sent
  <2>2. CASE ~ (n <= Len(said))
    <3>1. outcome \in Outcomes
      BY <2>2, <1>1 DEF FrameTypes
    <3> QED BY <2>2, <3>1 DEF Sent
  <2> QED BY <2>1, <2>2
<1>3. Written \in Seq(Sent) /\ Len(Written) = Events
  BY <1>1, <1>2 DEF Written
<1> QED BY <1>1, <1>3, HalvesAre

\* Two sequences one behind the other.
LEMMA Joined ==
  ASSUME NEW S, NEW s \in Seq(S), NEW t \in Seq(S),
         NEW a, a = Len(s), NEW b, b = Len(t)
  PROVE  /\ a \in Nat /\ b \in Nat
         /\ s \o t \in Seq(S) /\ Len(s \o t) = a + b
         /\ \A n \in 1 .. a : (s \o t)[n] = s[n]
         /\ \A n \in 1 .. b : (s \o t)[a + n] = t[n]
OBVIOUS

\* Two sequences of which one begins with the other.
LEMMA Prefix ==
  ASSUME NEW S, NEW s \in Seq(S), NEW t \in Seq(S),
         Len(s) <= Len(t), \A i \in 1 .. Len(s) : s[i] = t[i]
  PROVE  Channel!IsPrefix(s, t)
<1>1. SubSeq(s, 1, Len(s)) = SubSeq(t, 1, Len(s))
  OBVIOUS
<1> QED BY <1>1 DEF Channel!IsPrefix

\* Some pieces are written, and the last event if the stream ends with them.
LEMMA WritingKeeps ==
  ASSUME FrameTypes, Framing, outcome = "none",
         NEW p \in Seq(Piece), said' = said \o p,
         outcome' \in Outcomes \cup {"none"},
         NEW new \in Seq(Sent),
         Len(new) = Len(p) + (IF outcome' = "none" THEN 0 ELSE 1),
         \A n \in 1 .. Len(new) :
           new[n] = IF n <= Len(p) THEN Answer(p[n]) ELSE LastEvent(outcome'),
         Write(new),
         UNCHANGED <<buffer, outer, text, told, ended, finished>>
  PROVE  FrameTypes' /\ Framing' /\ Channel!Produce
<1> DEFINE N == Len(said)
           K == Len(new)
           P == Len(p)
           T == HalvesOf(Written)
           H == HalvesOf(new)
<1>1. /\ Written \in Seq(Sent) /\ Len(Written) = N /\ N \in Nat /\ Events = N
      /\ T \in Seq(Half) /\ Len(T) = 2 * N
  BY WrittenIs
<1>2. /\ K \in Nat /\ P \in Nat
      /\ H \in Seq(Half) /\ Len(H) = 2 * K
  BY HalvesAre
<1>3. pipe' = pipe \o H
  BY DEF Write
<1>4. FrameTypes'
  BY <1>2, <1>3 DEF FrameTypes
<1>5. /\ Len(said') = N + P
      /\ \A i \in 1 .. N : said'[i] = said[i]
      /\ \A i \in 1 .. P : said'[N + i] = p[i]
  BY DEF FrameTypes
<1>6. Events' = N + K
  <2>1. Events' = (N + P) + (IF outcome' = "none" THEN 0 ELSE 1)
    BY <1>5 DEF Events
  <2>2. K = P + (IF outcome' = "none" THEN 0 ELSE 1)
    OBVIOUS
  <2> HIDE DEF N, K, P
  <2> QED BY <1>1, <1>2, <2>1, <2>2
<1>7. Written' = Written \o new
  <2>1. /\ Written' \in Seq(Sent) /\ Len(Written') = N + K
    <3>1. Written' \in Seq(Sent) /\ Len(Written') = Events'
      <4>1. (FrameTypes => Written \in Seq(Sent) /\ Len(Written) = Events)'
        BY WrittenIs, PTL
      <4> QED BY <4>1, <1>4
    <3> QED BY <3>1, <1>6
  <2>2. /\ Written \o new \in Seq(Sent) /\ Len(Written \o new) = N + K
        /\ \A n \in 1 .. N + K :
             (Written \o new)[n] = IF n <= N THEN Written[n] ELSE new[n - N]
    <3> HIDE DEF N, K
    <3>1. N = Len(Written) /\ K = Len(new)
      BY <1>1 DEF K
    <3>2. /\ Written \o new \in Seq(Sent)
          /\ Len(Written \o new) = Len(Written) + Len(new)
          /\ \A n \in 1 .. Len(Written) + Len(new) :
               (Written \o new)[n] = IF n <= Len(Written) THEN Written[n]
                                                         ELSE new[n - Len(Written)]
      BY <1>1, ConcatProperties, Zenon
    <3> QED BY <3>1, <3>2, Zenon
  <2>3. ASSUME NEW n \in 1 .. N + K
        PROVE  Written'[n] = (Written \o new)[n]
    <3>1. Written'[n] = IF n <= N + P THEN Answer(said'[n]) ELSE LastEvent(outcome')
      BY <1>5, <1>6 DEF Written
    <3>2. CASE n <= N
      <4>1. n <= N + P /\ n \in 1 .. N /\ n \in 1 .. Events /\ n <= Len(said)
        BY <3>2, <1>1, <1>2
      <4>2. Written[n] = Answer(said[n])
        BY <4>1 DEF Written
      <4> QED BY <4>1, <4>2, <3>1, <3>2, <2>2, <1>5
    <3>3. CASE ~ (n <= N)
      <4>1. n - N \in 1 .. K /\ N + (n - N) = n /\ (n <= N + P <=> n - N <= P)
        BY <3>3, <1>1, <1>2
      <4>2. (Written \o new)[n] = new[n - N]
        BY <3>3, <2>2
      <4>3. new[n - N] = IF n - N <= P THEN Answer(p[n - N]) ELSE LastEvent(outcome')
        BY <4>1
      <4>4. n - N <= P => n - N \in 1 .. P
        BY <4>1, <1>2
      <4>5. n - N <= P => said'[n] = p[n - N]
        BY <4>1, <4>4, <1>5
      <4> QED BY <3>1, <4>1, <4>2, <4>3, <4>5
    <3> QED BY <3>2, <3>3
  <2> QED BY <2>1, <2>2, <2>3, SeqEqual
<1>8. HalvesOf(Written') = T \o H
  BY <1>1, <1>7, Prolonged
<1>9. /\ \A n \in 1 .. 2 * N : HalvesOf(Written')[n] = T[n]
      /\ \A n \in 1 .. 2 * K : HalvesOf(Written')[2 * N + n] = H[n]
      /\ \A n \in 1 .. N : Written'[n] = Written[n]
  <2>1. /\ \A n \in 1 .. 2 * N : (T \o H)[n] = T[n]
        /\ \A n \in 1 .. 2 * K : (T \o H)[2 * N + n] = H[n]
    <3>1. T \in Seq(Half) /\ H \in Seq(Half) /\ 2 * N = Len(T) /\ 2 * K = Len(H)
      BY <1>1, <1>2
    <3> HIDE DEF T, H, N, K
    <3> DEFINE a == 2 * N  b == 2 * K
    <3>2. a = Len(T) /\ b = Len(H)
      BY <3>1
    <3> HIDE DEF a, b
    <3>3. /\ \A n \in 1 .. a : (T \o H)[n] = T[n]
          /\ \A n \in 1 .. b : (T \o H)[a + n] = H[n]
      BY <3>1, <3>2, Joined
    <3> QED BY <3>3 DEF a, b
  <2>2. \A n \in 1 .. N : (Written \o new)[n] = Written[n]
    <3> HIDE DEF N
    <3>1. Written \in Seq(Sent) /\ N = Len(Written)
      BY <1>1
    <3> QED BY <3>1, Joined
  <2> HIDE DEF T, H, N, K
  <2> QED BY <1>7, <1>8, <2>1, <2>2
<1> DEFINE L == Len(pipe)
           g == Handed \div 2
<1>10. /\ L \in Nat /\ L <= 2 * N /\ Handed = 2 * N - L
       /\ \A n \in 1 .. L : pipe[n] = T[Handed + n]
  BY <1>1 DEF FrameTypes, Framing, InPipe, Handed
<1>11. /\ Len(pipe') = L + 2 * K
       /\ \A n \in 1 .. L : pipe'[n] = pipe[n]
       /\ \A n \in 1 .. 2 * K : pipe'[L + n] = H[n]
  <2> DEFINE b == 2 * K
  <2>1. pipe \in Seq(Half) /\ H \in Seq(Half) /\ L = Len(pipe) /\ b = Len(H)
    BY <1>2 DEF FrameTypes
  <2> HIDE DEF H, b, L
  <2>2. /\ Len(pipe \o H) = L + b
        /\ \A n \in 1 .. L : (pipe \o H)[n] = pipe[n]
        /\ \A n \in 1 .. b : (pipe \o H)[L + n] = H[n]
    BY <2>1, Joined
  <2> QED BY <2>2, <1>3 DEF b
<1> HIDE DEF T, H, N, K, P, L
<1>13. /\ Handed \in Nat /\ g \in Nat /\ g <= N
       /\ \A n \in 1 .. L : Handed + n \in 1 .. 2 * N
       /\ Handed % 2 = 1 => Handed \in 1 .. 2 * N
  <2>1. Handed \in Nat /\ Handed <= 2 * N
    BY <1>1, <1>10
  <2>2. \A n \in 1 .. L : Handed + n \in 1 .. 2 * N
    BY <1>1, <1>10
  <2>3. Handed % 2 = 1 => Handed # 0
    BY <2>1
  <2>4. Handed % 2 = 1 => Handed \in 1 .. 2 * N
    BY <2>1, <2>3, <1>1
  <2>5. g \in Nat /\ g <= N
    <3> HIDE DEF L
    <3> QED BY <2>1, <1>1
  <2> QED BY <2>1, <2>2, <2>4, <2>5
<1>14. Handed' = Handed
  <2>1. Handed' = 2 * (N + K) - (L + 2 * K)
    BY <1>6, <1>11 DEF Handed
  <2> QED BY <2>1, <1>1, <1>2, <1>10
<1>15. Passed' = Passed
  BY <1>14 DEF Passed
<1>16. InPipe'
  <2>0. N \in Nat /\ K \in Nat /\ L \in Nat /\ L <= 2 * N /\ Handed = 2 * N - L
    BY <1>1, <1>2, <1>10
  <2>1. L + 2 * K <= 2 * (N + K)
    BY <2>0
  <2>2. ASSUME NEW n \in 1 .. L + 2 * K
        PROVE  pipe'[n] = HalvesOf(Written')[Handed + n]
    <3>1. CASE n <= L
      <4>1. n \in 1 .. L
        BY <3>1, <1>10
      <4> QED BY <4>1, <1>9, <1>10, <1>11, <1>13
    <3>2. CASE ~ (n <= L)
      <4>1. /\ n - L \in 1 .. 2 * K /\ L + (n - L) = n
            /\ Handed + n = 2 * N + (n - L)
        BY <3>2, <2>0
      <4> QED BY <4>1, <1>9, <1>11
    <3> QED BY <3>1, <3>2
  <2> QED BY <2>1, <2>2, <1>6, <1>11, <1>14 DEF InPipe
<1>17. InBuffer'
  <2>1. InBuffer
    BY DEF Framing
  <2>2. Len(buffer) = 1 => buffer[1] = HalvesOf(Written')[Handed]
    BY <2>1, <1>9, <1>13 DEF InBuffer, T
  <2> QED BY <2>1, <2>2, <1>14 DEF InBuffer
<1>18. InOuter'
  <2>1. InOuter /\ Len(outer) \in Nat
    BY DEF Framing, FrameTypes
  <2>2. \A n \in 1 .. Len(outer) : Passed + n \in 1 .. N
    <3>1. Len(outer) <= g /\ Passed = g - Len(outer)
      BY <2>1 DEF InOuter, Passed
    <3>2. N \in Nat /\ g \in Nat /\ g <= N
      BY <1>1, <1>13
    <3> HIDE DEF g
    <3> QED BY <2>1, <3>1, <3>2
  <2> QED BY <2>1, <2>2, <1>9, <1>14, <1>15 DEF InOuter
<1>19. Passed \in Nat /\ Passed <= N
  BY <1>1, <1>13 DEF Framing, InOuter, FrameTypes, Passed
<1>20. WasRead'
  <2>1. WasRead
    BY DEF Framing
  <2>2. Len(text) = Passed /\ told = <<>> /\ \A n \in 1 .. Len(text) : text[n] = said[n]
    BY <2>1, <1>19 DEF WasRead, N
  <2>3. Passed <= N + P
    BY <1>1, <1>2, <1>19
  <2>4. \A n \in 1 .. Len(text) : n \in 1 .. N
    BY <2>2, <1>1, <1>19
  <2> QED BY <2>2, <2>3, <2>4, <1>5, <1>15 DEF WasRead
<1>21. EndsLast'
  BY DEF Framing, EndsLast
<1>22. Channel!Produce
  <2>1. Channel!IsPrefix(said, said')
    <3>1. Len(said) <= Len(said') /\ \A i \in 1 .. Len(said) : said[i] = said'[i]
      BY <1>1, <1>2, <1>5 DEF N
    <3> QED BY <3>1, <1>4, Prefix DEF FrameTypes
  <2> QED BY <2>1 DEF Channel!Produce, Outcomes
<1> QED BY <1>4, <1>16, <1>17, <1>18, <1>20, <1>21, <1>22 DEF Framing

\* The same for the last events of a stream.
LEMMA ConcludeKeeps ==
  ASSUME FrameTypes, Framing, outcome = "none",
         NEW p \in Seq(Piece), said' = said \o p,
         NEW v \in Outcomes,
         Conclude([i \in 1 .. Len(p) |-> Answer(p[i])], v),
         UNCHANGED <<buffer, outer, text, told, ended, finished>>
  PROVE  FrameTypes' /\ Framing' /\ Channel!Produce
<1> DEFINE answers == [i \in 1 .. Len(p) |-> Answer(p[i])]
           new == Append(answers, LastEvent(v))
<1>1. v # "none" /\ outcome' = v
  BY DEF Conclude, Outcomes
<1>2. Len(p) \in Nat /\ \A i \in 1 .. Len(p) : Answer(p[i]) \in Sent
  BY DEF Sent
<1>3. answers \in Seq(Sent) /\ Len(answers) = Len(p)
  BY <1>2
<1>4. LastEvent(v) \in Sent
  BY DEF Sent
<1>5. /\ new \in Seq(Sent) /\ Len(new) = Len(p) + 1
      /\ \A n \in 1 .. Len(new) :
           new[n] = IF n <= Len(p) THEN Answer(p[n]) ELSE LastEvent(v)
  <2>1. /\ new \in Seq(Sent) /\ Len(new) = Len(answers) + 1
        /\ \A n \in 1 .. Len(answers) : new[n] = answers[n]
        /\ new[Len(answers) + 1] = LastEvent(v)
    <3> HIDE DEF answers
    <3> QED BY <1>3, <1>4
  <2>2. \A n \in 1 .. Len(p) + 1 : n \in 1 .. Len(p) \/ (n = Len(p) + 1 /\ ~ (n <= Len(p)))
    BY <1>2
  <2>3. \A n \in 1 .. Len(p) : n <= Len(p) /\ answers[n] = Answer(p[n])
    BY <1>2
  <2> HIDE DEF new, answers
  <2> QED BY <2>1, <2>2, <2>3, <1>3
<1>6. Write(new)
  BY DEF Conclude
<1> HIDE DEF new
<1>7. /\ outcome' \in Outcomes \cup {"none"}
      /\ Len(new) = Len(p) + (IF outcome' = "none" THEN 0 ELSE 1)
      /\ \A n \in 1 .. Len(new) :
           new[n] = IF n <= Len(p) THEN Answer(p[n]) ELSE LastEvent(outcome')
  BY <1>1, <1>5
<1> QED BY <1>5, <1>6, <1>7, WritingKeeps

\* What nothing is written to stays as it is.
LEMMA StillKeeps ==
  ASSUME FrameTypes, Framing, UNCHANGED frameVars
  PROVE  FrameTypes' /\ Framing' /\ UNCHANGED Channel!vars
<1>1. /\ said' = said /\ outcome' = outcome /\ pipe' = pipe /\ buffer' = buffer
      /\ outer' = outer /\ text' = text /\ told' = told
      /\ ended' = ended /\ finished' = finished
  BY DEF frameVars
<1>2. FrameTypes'
  BY <1>1 DEF FrameTypes
<1>3. Events' = Events /\ Written' = Written
  BY <1>1 DEF Events, Written
<1>4. Handed' = Handed /\ Passed' = Passed
  BY <1>1, <1>3 DEF Handed, Passed
<1>5. Framing'
  BY <1>1, <1>3, <1>4 DEF Framing, InPipe, InBuffer, InOuter, WasRead, EndsLast
<1> QED BY <1>1, <1>2, <1>5 DEF Channel!vars

\* The wrapper takes halves out of the pipe, and writes the events they complete.
LEMMA DeliverKeeps ==
  ASSUME FrameTypes, Framing, Deliver
  PROVE  FrameTypes' /\ Framing' /\ UNCHANGED Channel!vars
<1>1. PICK n \in 1 .. Len(pipe) :
        /\ FlushBuffer(buffer \o SubSeq(pipe, 1, n))
        /\ pipe' = SubSeq(pipe, n + 1, Len(pipe))
  BY DEF Deliver
<1>2. /\ said' = said /\ outcome' = outcome /\ ended' = ended
      /\ text' = text /\ told' = told /\ finished' = finished
  BY DEF Deliver, callerVars
<1>3. Events' = Events /\ Written' = Written
  BY <1>2 DEF Events, Written
<1> DEFINE T == HalvesOf(Written)
           hs == buffer \o SubSeq(pipe, 1, n)
           L == Len(pipe)
           b == Len(buffer)
           u == Len(outer)
           g == Handed \div 2
           q == (b + n) \div 2
<1>4. /\ L \in Nat /\ n \in 1 .. L /\ b \in Nat /\ u \in Nat
      /\ Events \in Nat /\ L <= 2 * Events /\ Handed = 2 * Events - L
      /\ b = Handed % 2 /\ u <= g
  <2>1. Events \in Nat
    BY WrittenIs
  <2>2. L \in Nat /\ b \in Nat /\ u \in Nat
    BY DEF FrameTypes
  <2>3. L <= 2 * Events /\ b = Handed % 2 /\ u <= g
    BY DEF Framing, InPipe, InBuffer, InOuter
  <2> QED BY <2>1, <2>2, <2>3 DEF Handed
<1>5. /\ Written \in Seq(Sent) /\ Len(Written) = Events
  BY WrittenIs
<1>6. /\ \A j \in 1 .. L : pipe[j] = T[Handed + j]
      /\ b = 1 => buffer[1] = T[Handed]
      /\ \A j \in 1 .. u : outer[j] = Written[Passed + j]
  BY DEF Framing, InPipe, InBuffer, InOuter
<1>7. /\ hs \in Seq(Half) /\ Len(hs) = b + n
      /\ \A j \in 1 .. b : hs[j] = buffer[j]
      /\ \A j \in 1 .. n : hs[b + j] = pipe[j]
  <2> DEFINE sub == SubSeq(pipe, 1, n)
  <2>1. sub \in Seq(Half) /\ n = Len(sub) /\ \A j \in 1 .. n : sub[j] = pipe[j]
    BY <1>4 DEF FrameTypes
  <2>2. buffer \in Seq(Half)
    BY DEF FrameTypes
  <2> HIDE DEF sub, b
  <2>3. b = Len(buffer)
    BY DEF b
  <2>4. /\ buffer \o sub \in Seq(Half) /\ Len(buffer \o sub) = b + n
        /\ \A j \in 1 .. b : (buffer \o sub)[j] = buffer[j]
        /\ \A j \in 1 .. n : (buffer \o sub)[b + j] = sub[j]
    BY <2>1, <2>2, <2>3, Joined
  <2> QED BY <2>1, <2>4 DEF sub
<1> HIDE DEF hs, T, L, b, u
<1>8. /\ g \in Nat /\ Handed \in Nat /\ Handed = 2 * g + b /\ b \in {0, 1}
  BY <1>4
<1> HIDE DEF g
<1>9. ASSUME NEW j \in 1 .. b + n
      PROVE  hs[j] = T[2 * g + j]
  <2>1. CASE j <= b
    <3>1. j = 1 /\ b = 1
      BY <2>1, <1>4, <1>8
    <3>2. 2 * g + 1 = Handed /\ 1 \in 1 .. b
      BY <3>1, <1>8
    <3> QED BY <3>1, <3>2, <1>6, <1>7
  <2>2. CASE ~ (j <= b)
    <3>1. j - b \in 1 .. n /\ b + (j - b) = j
      BY <2>2, <1>4
    <3>2. j - b \in 1 .. L /\ Handed + (j - b) = 2 * g + j
      BY <3>1, <1>4, <1>8
    <3>3. hs[j] = pipe[j - b]
      BY <3>1, <1>7
    <3> QED BY <3>2, <3>3, <1>6
  <2> QED BY <2>1, <2>2
<1>10. 2 * g + (b + n) <= 2 * Events
  BY <1>4, <1>8
<1>11. /\ Blocks(hs) = [i \in 1 .. q |-> Written[g + i]]
       /\ Rest(hs) = IF (b + n) % 2 = 0 THEN <<>> ELSE <<hs[b + n]>>
  <2>1. 2 * g + Len(hs) <= 2 * Len(Written)
    BY <1>5, <1>7, <1>10
  <2>2. \A j \in 1 .. Len(hs) : hs[j] = HalvesOf(Written)[2 * g + j]
    BY <1>7, <1>9 DEF T
  <2> HIDE DEF q
  <2>3. /\ Blocks(hs) = [i \in 1 .. Len(hs) \div 2 |-> Written[g + i]]
        /\ Rest(hs) = IF Len(hs) % 2 = 0 THEN <<>> ELSE <<hs[Len(hs)]>>
    BY <2>1, <2>2, <1>5, <1>7, <1>8, Flushing
  <2> QED BY <2>3, <1>7 DEF q
<1>12. q \in Nat /\ g + q <= Events
  BY <1>4, <1>8, <1>10
<1>13. /\ Blocks(hs) \in Seq(Event) /\ Len(Blocks(hs)) = q
       /\ \A i \in 1 .. q : Blocks(hs)[i] = Written[g + i]
  <2> HIDE DEF q
  <2>1. \A i \in 1 .. q : g + i \in 1 .. Len(Written)
    BY <1>5, <1>8, <1>12, <1>4
  <2>2. \A i \in 1 .. q : Written[g + i] \in Event
    BY <2>1, <1>5, SentAreEvents
  <2> QED BY <2>2, <1>11, <1>12
<1>14. outer' = outer \o Blocks(hs) /\ buffer' = Rest(hs)
  BY <1>1 DEF FlushBuffer, hs
<1>15. /\ outer' \in Seq(Event) /\ Len(outer') = u + q
       /\ \A j \in 1 .. u : outer'[j] = outer[j]
       /\ \A j \in 1 .. q : outer'[u + j] = Written[g + j]
  <2>1. outer \in Seq(Event) /\ u = Len(outer) /\ q = Len(Blocks(hs))
    BY <1>13 DEF FrameTypes, u
  <2> HIDE DEF q
  <2>2. /\ outer \o Blocks(hs) \in Seq(Event) /\ Len(outer \o Blocks(hs)) = u + q
        /\ \A j \in 1 .. u : (outer \o Blocks(hs))[j] = outer[j]
        /\ \A j \in 1 .. q : (outer \o Blocks(hs))[u + j] = Blocks(hs)[j]
    BY <2>1, <1>13, Joined
  <2> QED BY <2>2, <1>13, <1>14
<1>16. /\ pipe' \in Seq(Half) /\ Len(pipe') = L - n
       /\ \A j \in 1 .. L - n : pipe'[j] = pipe[n + j]
  <2>1. \A j \in n + 1 .. L : pipe[j] \in Half
    <3> TAKE j \in n + 1 .. L
    <3>1. j \in 1 .. L
      BY <1>4
    <3> QED BY <3>1 DEF FrameTypes, L
  <2>2. /\ pipe' \in Seq(Half)
        /\ Len(pipe') = IF n + 1 <= L THEN L - (n + 1) + 1 ELSE 0
        /\ \A j \in 1 .. L - (n + 1) + 1 : pipe'[j] = pipe[(n + 1) + j - 1]
    <3>1. pipe' = SubSeq(pipe, n + 1, L)
      BY <1>1 DEF L
    <3>2. n + 1 \in Int /\ L \in Int
      BY <1>4
    <3> QED BY <2>1, <3>1, <3>2, SubSeqProperties
  <2>3. \A j \in 1 .. L - n : (n + 1) + j - 1 = n + j
    BY <1>4
  <2>4. L - (n + 1) + 1 = L - n /\ (n + 1 <= L \/ L - n = 0)
    BY <1>4
  <2> QED BY <2>2, <2>3, <2>4
<1>17. Handed' = Handed + n
  BY <1>3, <1>4, <1>16 DEF Handed
<1>18. /\ Handed' \div 2 = g + q
       /\ Handed' % 2 = (b + n) % 2
  <2>1. Handed' = 2 * g + (b + n)
    BY <1>4, <1>8, <1>17
  <2>2. b + n \in Nat
    BY <1>4
  <2> DEFINE bn == b + n
  <2> HIDE DEF bn
  <2>3. bn \in Nat => (2 * g + bn) \div 2 = g + bn \div 2 /\ (2 * g + bn) % 2 = bn % 2
    BY <1>8
  <2> QED BY <2>1, <2>2, <2>3 DEF bn
<1>19. Passed = g - u /\ Passed' = Passed
  <2>1. Passed = g - u
    BY DEF Passed, g, u
  <2>2. Passed' = (g + q) - (u + q)
    BY <1>15, <1>18 DEF Passed
  <2> HIDE DEF q
  <2> QED BY <2>1, <2>2, <1>4, <1>8, <1>12
<1>20. /\ buffer' \in Seq(Half) /\ Len(buffer') = (b + n) % 2
       /\ (b + n) % 2 = 1 => buffer'[1] = hs[b + n]
  <2>1. b + n \in 1 .. Len(hs) /\ (b + n) % 2 \in {0, 1}
    BY <1>4, <1>7
  <2>2. hs[b + n] \in Half
    BY <2>1, <1>7
  <2>3. CASE (b + n) % 2 = 0
    BY <2>3, <1>11, <1>14
  <2>4. CASE (b + n) % 2 = 1
    BY <2>2, <2>4, <1>11, <1>14
  <2> QED BY <2>1, <2>3, <2>4
<1>21. FrameTypes'
  BY <1>2, <1>15, <1>16, <1>20 DEF FrameTypes
<1> HIDE DEF q
<1>22. InPipe'
  <2>1. L - n <= 2 * Events /\ L - n \in Nat
    BY <1>4
  <2>2. ASSUME NEW j \in 1 .. L - n
        PROVE  pipe'[j] = T[(Handed + n) + j]
    <3>1. n + j \in 1 .. L /\ Handed + (n + j) = (Handed + n) + j
      BY <1>4, <1>8
    <3> QED BY <3>1, <1>6, <1>16
  <2> QED BY <2>1, <2>2, <1>3, <1>16, <1>17 DEF InPipe, T
<1>23. InBuffer'
  <2>1. ASSUME (b + n) % 2 = 1
        PROVE  buffer'[1] = T[Handed + n]
    <3>1. b + n \in 1 .. b + n /\ 2 * g + (b + n) = Handed + n
      BY <1>4, <1>8
    <3> QED BY <3>1, <2>1, <1>9, <1>20
  <2> QED BY <2>1, <1>3, <1>17, <1>18, <1>20 DEF InBuffer, T
<1>24. InOuter'
  <2>1. u + q <= g + q
    BY <1>4, <1>8, <1>12 DEF g
  <2>2. ASSUME NEW j \in 1 .. u + q
        PROVE  outer'[j] = Written[Passed + j]
    <3>1. CASE j <= u
      <4>1. j \in 1 .. u
        BY <3>1, <1>4
      <4> QED BY <4>1, <1>6, <1>15
    <3>2. CASE ~ (j <= u)
      <4>1. j - u \in 1 .. q /\ u + (j - u) = j /\ g + (j - u) = Passed + j
        BY <3>2, <1>4, <1>8, <1>12, <1>19
      <4> QED BY <4>1, <1>15
    <3> QED BY <3>1, <3>2
  <2> QED BY <2>1, <2>2, <1>3, <1>15, <1>18, <1>19 DEF InOuter
<1>25. WasRead'
  BY <1>2, <1>19 DEF WasRead, Framing
<1>26. EndsLast'
  <2>1. ~ ended
    <3>1. pipe # <<>>
      BY <1>4 DEF L
    <3> QED BY <3>1 DEF Framing, EndsLast
  <2> QED BY <2>1, <1>2 DEF Framing, EndsLast
<1> QED BY <1>2, <1>21, <1>22, <1>23, <1>24, <1>25, <1>26 DEF Framing, Channel!vars

\* The end of the pipe finds nothing in the buffer.
LEMMA PipeEndsKeeps ==
  ASSUME FrameTypes, Framing, PipeEnds
  PROVE  FrameTypes' /\ Framing' /\ UNCHANGED Channel!vars
<1>1. /\ outcome # "none" /\ pipe = <<>> /\ ~ ended /\ ended' = TRUE
      /\ said' = said /\ outcome' = outcome /\ pipe' = pipe
      /\ text' = text /\ told' = told /\ finished' = finished
  BY DEF PipeEnds, providerVars, callerVars
<1>2. Events' = Events /\ Written' = Written /\ Events \in Nat
  BY <1>1, WrittenIs DEF Events, Written
<1>3. Handed = 2 * Events /\ Handed' = Handed
  BY <1>1, <1>2 DEF Handed
<1>4. buffer = <<>>
  <2>1. Len(buffer) = 0
    BY <1>2, <1>3 DEF Framing, InBuffer
  <2> QED BY <2>1 DEF FrameTypes
<1>5. buffer' = buffer /\ outer' = outer
  BY <1>4 DEF PipeEnds
<1>6. Passed' = Passed
  BY <1>3, <1>5 DEF Passed
<1>7. FrameTypes'
  BY <1>1, <1>5 DEF FrameTypes
<1>8. Framing'
  BY <1>1, <1>2, <1>3, <1>5, <1>6
     DEF Framing, InPipe, InBuffer, InOuter, WasRead, EndsLast
<1> QED BY <1>1, <1>7, <1>8 DEF Channel!vars

\* The caller reads some events.
LEMMA ReadKeeps ==
  ASSUME FrameTypes, Framing, Read
  PROVE  FrameTypes' /\ Framing' /\ Channel!Hear
<1> DEFINE chunk(n) == SubSeq(outer, 1, n)
<1>1. PICK n \in 1 .. Len(outer) :
        /\ text' = text \o ExtractAnswerText(chunk(n))
        /\ told' = told \o OutcomesOf(chunk(n))
        /\ outer' = SubSeq(outer, n + 1, Len(outer))
  BY DEF Read
<1>2. /\ said' = said /\ outcome' = outcome /\ ended' = ended
      /\ pipe' = pipe /\ buffer' = buffer /\ finished' = finished
  BY DEF Read, providerVars
<1>3. Events' = Events /\ Written' = Written /\ Handed' = Handed
  <2>1. Events' = Events /\ Written' = Written
    BY <1>2 DEF Events, Written
  <2> QED BY <2>1, <1>2 DEF Handed
<1> DEFINE N == Len(said)
           r == Passed
           u == Len(outer)
           g == Handed \div 2
           c == chunk(n)
<1>4. /\ Written \in Seq(Sent) /\ Len(Written) = Events
      /\ N \in Nat /\ Events \in Nat
      /\ outcome = "none" => Events = N
      /\ outcome # "none" => Events = N + 1
  BY WrittenIs
<1>5. /\ u \in Nat /\ n \in 1 .. u /\ u <= g /\ g \in Nat /\ g <= Events /\ r = g - u
      /\ \A j \in 1 .. u : outer[j] = Written[r + j]
  <2>1. u \in Nat /\ n \in 1 .. u
    BY DEF FrameTypes
  <2>2. u <= g /\ \A j \in 1 .. u : outer[j] = Written[r + j]
    BY DEF Framing, InOuter
  <2>3. Len(pipe) \in Nat /\ Len(pipe) <= 2 * Events /\ Handed = 2 * Events - Len(pipe)
    BY DEF FrameTypes, Framing, InPipe, Handed
  <2>4. g \in Nat /\ g <= Events
    BY <2>3, <1>4
  <2>5. r = g - u
    BY DEF Passed
  <2> QED BY <2>1, <2>2, <2>4, <2>5
<1>6. /\ Len(text) = IF r <= N THEN r ELSE N
      /\ \A j \in 1 .. Len(text) : text[j] = said[j]
      /\ told = IF r <= N THEN <<>> ELSE <<outcome>>
  BY DEF Framing, WasRead
<1> HIDE DEF N, r, u, g
<1>7. r \in Nat /\ r <= N /\ r + n <= Events /\ (r + n <= N \/ r + n = N + 1)
  BY <1>4, <1>5
<1>8. Len(text) = r /\ told = <<>>
  BY <1>6, <1>7
<1>9. /\ outer' \in Seq(Event) /\ Len(outer') = u - n
      /\ \A j \in 1 .. u - n : outer'[j] = outer[n + j]
  <2>1. \A j \in n + 1 .. u : outer[j] \in Event
    <3> TAKE j \in n + 1 .. u
    <3>1. j \in 1 .. u
      BY <1>5
    <3> QED BY <3>1 DEF FrameTypes, u
  <2>2. /\ outer' \in Seq(Event)
        /\ Len(outer') = IF n + 1 <= u THEN u - (n + 1) + 1 ELSE 0
        /\ \A j \in 1 .. u - (n + 1) + 1 : outer'[j] = outer[(n + 1) + j - 1]
    <3>1. outer' = SubSeq(outer, n + 1, u)
      BY <1>1 DEF u
    <3>2. n + 1 \in Int /\ u \in Int
      BY <1>5
    <3> QED BY <2>1, <3>1, <3>2, SubSeqProperties
  <2>3. \A j \in 1 .. u - n : (n + 1) + j - 1 = n + j
    BY <1>5
  <2>4. u - (n + 1) + 1 = u - n /\ (n + 1 <= u \/ u - n = 0)
    BY <1>5
  <2> QED BY <2>2, <2>3, <2>4
<1>10. c \in Seq(Event) /\ Len(c) = n /\ \A j \in 1 .. n : c[j] = Written[r + j]
  <2>1. c \in Seq(Event) /\ Len(c) = n /\ \A j \in 1 .. n : c[j] = outer[j]
    BY <1>5 DEF FrameTypes, u
  <2>2. \A j \in 1 .. n : j \in 1 .. u
    BY <1>5
  <2> HIDE DEF c
  <2> QED BY <2>1, <2>2, <1>5
<1>11. /\ \A j \in 1 .. n : r + j <= N =>
              c[j] = Answer(said[r + j]) /\ r + j \in 1 .. N /\ said[r + j] \in Piece
       /\ \A j \in 1 .. n : r + j > N =>
              c[j] = LastEvent(outcome) /\ outcome \in Outcomes
  <2>1. ASSUME NEW j \in 1 .. n
        PROVE  /\ r + j <= N =>
                    c[j] = Answer(said[r + j]) /\ r + j \in 1 .. N /\ said[r + j] \in Piece
               /\ r + j > N => c[j] = LastEvent(outcome) /\ outcome \in Outcomes
    <3>1. r + j \in 1 .. Events
      BY <1>4, <1>5, <1>7
    <3>2. Written[r + j] = IF r + j <= N THEN Answer(said[r + j]) ELSE LastEvent(outcome)
      BY <3>1 DEF Written, N
    <3>3. r + j <= N => r + j \in 1 .. N /\ said[r + j] \in Piece
      BY <3>1, <1>4 DEF FrameTypes, N
    <3>4. r + j > N => outcome \in Outcomes
      BY <3>1, <1>4 DEF FrameTypes
    <3>5. ~ (r + j <= N /\ r + j > N)
      BY <1>4, <1>5, <1>7
    <3>6. c[j] = Written[r + j]
      BY <1>10
    <3> HIDE DEF c
    <3> QED BY <3>2, <3>3, <3>4, <3>5, <3>6
  <2> HIDE DEF c
  <2> QED BY <2>1
<1> HIDE DEF c, chunk
<1>12. text' = text \o ExtractAnswerText(c) /\ told' = told \o OutcomesOf(c)
  BY <1>1 DEF c
<1>13. /\ \A x : Answer(x).kind = "answer" /\ Answer(x).piece = x
       /\ \A v : LastEvent(v).kind = v
  BY DEF Answer, LastEvent
<1>14. ASSUME NEW m \in 0 .. n, r + m <= N, m < n => r + m = N
       PROVE  /\ ExtractAnswerText(c) = [j \in 1 .. m |-> said[r + j]]
              /\ OutcomesOf(c) = [j \in 1 .. n - m |-> outcome]
  <2>1. \A j \in 1 .. m : j \in 1 .. n /\ r + j <= N
    BY <1>4, <1>5, <1>7, <1>14
  <2>2. \A j \in m + 1 .. n : j \in 1 .. n /\ r + j > N
    BY <1>4, <1>5, <1>7, <1>14
  <2>3. \A j \in 1 .. m : c[j] = Answer(said[r + j])
    BY <2>1, <1>11
  <2>4. \A j \in m + 1 .. n : c[j] = LastEvent(outcome) /\ outcome \in Outcomes
    BY <2>2, <1>11
  <2>5. /\ ExtractAnswerText(c) = [j \in 1 .. m |-> c[j].piece]
        /\ OutcomesOf(c) = [j \in 1 .. n - m |-> c[m + j].kind]
    <3>1. \A j \in 1 .. m : c[j].kind = "answer"
      BY <2>3, <1>13
    <3>2. \A j \in m + 1 .. n : c[j].kind \in Outcomes
      BY <2>4, <1>13
    <3> QED BY <3>1, <3>2, <1>10, Reading
  <2>6. \A j \in 1 .. m : c[j].piece = said[r + j]
    BY <2>3, <1>13
  <2>7. \A j \in 1 .. n - m : m + j \in m + 1 .. n
    BY <1>5
  <2>8. \A j \in 1 .. n - m : c[m + j].kind = outcome
    BY <2>4, <2>7, <1>13
  <2> QED BY <2>5, <2>6, <2>8
<1>15. /\ Passed' = r + n
       /\ InOuter'
  <2>1. Passed' = g - (u - n)
    BY <1>3, <1>9 DEF Passed, g
  <2>2. Passed' = r + n
    BY <2>1, <1>5
  <2>3. u - n <= g
    BY <1>5
  <2>4. ASSUME NEW j \in 1 .. u - n
        PROVE  outer'[j] = Written[(r + n) + j]
    <3>1. n + j \in 1 .. u /\ r + (n + j) = (r + n) + j
      BY <1>5, <1>7
    <3> QED BY <3>1, <1>5, <1>9
  <2> QED BY <2>2, <2>3, <2>4, <1>3, <1>9 DEF InOuter, g
<1>16. \A j \in 1 .. r : text[j] = said[j]
  BY <1>6, <1>8
<1>17. text \in Seq(Piece) /\ r = Len(text) /\ said \in Seq(Piece) /\ N = Len(said)
  BY <1>8 DEF FrameTypes, N
<1>18. ASSUME NEW m \in 0 .. n, r + m <= N,
              text' = text \o [j \in 1 .. m |-> said[r + j]]
       PROVE  /\ text' \in Seq(Piece) /\ Len(text') = r + m
              /\ \A j \in 1 .. r : text'[j] = text[j]
              /\ \A j \in 1 .. r + m : text'[j] = said[j]
  <2> DEFINE t == [j \in 1 .. m |-> said[r + j]]
  <2>1. \A j \in 1 .. m : r + j \in 1 .. N
    BY <1>4, <1>7, <1>18
  <2>2. t \in Seq(Piece) /\ m = Len(t) /\ \A j \in 1 .. m : t[j] = said[r + j]
    <3>1. m \in Nat /\ \A j \in 1 .. m : said[r + j] \in Piece
      BY <2>1, <1>17
    <3> QED BY <3>1
  <2> HIDE DEF t
  <2>3. /\ text \o t \in Seq(Piece) /\ Len(text \o t) = r + m
        /\ \A j \in 1 .. r : (text \o t)[j] = text[j]
        /\ \A j \in 1 .. m : (text \o t)[r + j] = t[j]
    BY <2>2, <1>17, Joined
  <2>4. text' = text \o t
    BY <1>18 DEF t
  <2>5. ASSUME NEW j \in 1 .. r + m
        PROVE  text'[j] = said[j]
    <3>1. CASE j <= r
      <4>1. j \in 1 .. r
        BY <3>1, <1>7
      <4> QED BY <4>1, <2>3, <2>4, <1>16
    <3>2. CASE ~ (j <= r)
      <4>1. j - r \in 1 .. m /\ r + (j - r) = j
        BY <3>2, <1>7
      <4> QED BY <4>1, <2>2, <2>3, <2>4
    <3> QED BY <3>1, <3>2
  <2> QED BY <2>3, <2>4, <2>5
<1>19. ASSUME NEW m \in 0 .. n, r + m <= N,
              text' = text \o [j \in 1 .. m |-> said[r + j]]
       PROVE  Channel!IsPrefix(text, text') /\ Channel!IsPrefix(text', said)
  <2>1. /\ text' \in Seq(Piece) /\ Len(text') = r + m
        /\ \A j \in 1 .. r : text'[j] = text[j]
        /\ \A j \in 1 .. r + m : text'[j] = said[j]
    BY <1>18, <1>19
  <2>2. r <= r + m
    BY <1>7
  <2>3. Channel!IsPrefix(text, text')
    BY <2>1, <2>2, <1>17, Prefix
  <2>4. Channel!IsPrefix(text', said)
    BY <2>1, <1>17, <1>19, Prefix
  <2> QED BY <2>3, <2>4
<1>20. EndsLast'
  <2>1. outer # <<>>
    BY <1>5 DEF u
  <2> QED BY <2>1, <1>2 DEF Framing, EndsLast
<1>21. InPipe' /\ InBuffer'
  BY <1>2, <1>3 DEF Framing, InPipe, InBuffer
<1>22. CASE r + n <= N
  <2>1. /\ ExtractAnswerText(c) = [j \in 1 .. n |-> said[r + j]]
        /\ OutcomesOf(c) = [j \in 1 .. n - n |-> outcome]
    BY <1>5, <1>14, <1>22
  <2>2. n \in 0 .. n /\ n - n = 0
    BY <1>5
  <2>3. told' = <<>>
    BY <2>1, <2>2, <1>8, <1>12
  <2>4. /\ text' \in Seq(Piece) /\ Len(text') = r + n
        /\ \A j \in 1 .. r + n : text'[j] = said[j]
    BY <2>1, <2>2, <1>12, <1>18, <1>22
  <2>5. WasRead'
    BY <2>3, <2>4, <1>2, <1>15, <1>22 DEF WasRead, N
  <2>6. Channel!IsPrefix(text, text') /\ Channel!IsPrefix(text', said)
    BY <2>1, <2>2, <1>12, <1>19, <1>22
  <2>7. Channel!Hear
    BY <2>3, <2>6, <1>2, <1>8 DEF Channel!Hear
  <2>8. FrameTypes'
    BY <2>3, <2>4, <1>2, <1>9 DEF FrameTypes
  <2> QED BY <2>5, <2>7, <2>8, <1>15, <1>20, <1>21 DEF Framing
<1>23. CASE r + n = N + 1
  <2> DEFINE m == n - 1
  <2>1. m \in 0 .. n /\ r + m = N /\ n - m = 1 /\ r + m <= N
    BY <1>4, <1>5, <1>7, <1>23
  <2>2. outcome # "none" /\ outcome \in Outcomes
    BY <1>4, <1>7, <1>23 DEF FrameTypes
  <2> HIDE DEF m
  <2>3. /\ ExtractAnswerText(c) = [j \in 1 .. m |-> said[r + j]]
        /\ OutcomesOf(c) = [j \in 1 .. 1 |-> outcome]
    BY <2>1, <1>14
  <2>4. told' = <<outcome>>
    <3>1. [j \in 1 .. 1 |-> outcome] = <<outcome>>
      OBVIOUS
    <3> QED BY <3>1, <2>3, <1>8, <1>12
  <2>5. /\ text' \in Seq(Piece) /\ Len(text') = N
        /\ \A j \in 1 .. N : text'[j] = said[j]
    BY <2>1, <2>3, <1>12, <1>18
  <2>6. WasRead'
    <3>1. ~ (r + n <= N)
      BY <1>4, <1>23
    <3> QED BY <3>1, <2>4, <2>5, <1>2, <1>15 DEF WasRead, N
  <2>7. Channel!IsPrefix(text, text') /\ Channel!IsPrefix(text', said)
    BY <2>1, <2>3, <1>12, <1>19
  <2>8. text' = said
    BY <2>5, <1>17, SeqEqual
  <2>9. Channel!Hear
    BY <2>2, <2>4, <2>7, <2>8, <1>2, <1>8 DEF Channel!Hear
  <2>10. FrameTypes'
    BY <2>2, <2>4, <2>5, <1>2, <1>9 DEF FrameTypes
  <2> QED BY <2>6, <2>9, <2>10, <1>15, <1>20, <1>21 DEF Framing
<1> QED BY <1>7, <1>22, <1>23

\* The caller sees the end: every event has been read, the outcome last.
LEMMA FinishKeeps ==
  ASSUME FrameTypes, Framing, Finish
  PROVE  FrameTypes' /\ Framing' /\ Channel!Finish
<1>1. /\ ended /\ outer = <<>> /\ ~ finished /\ finished' = TRUE
      /\ said' = said /\ outcome' = outcome /\ pipe' = pipe /\ buffer' = buffer
      /\ outer' = outer /\ text' = text /\ told' = told /\ ended' = ended
  BY DEF Finish, providerVars
<1>2. Events' = Events /\ Written' = Written
  BY <1>1 DEF Events, Written
<1>3. Handed' = Handed /\ Passed' = Passed
  BY <1>1, <1>2 DEF Handed, Passed
<1>4. FrameTypes' /\ Framing'
  BY <1>1, <1>2, <1>3
     DEF FrameTypes, Framing, InPipe, InBuffer, InOuter, WasRead, EndsLast
<1>5. told # <<>>
  <2>1. outcome # "none" /\ pipe = <<>>
    BY <1>1 DEF Framing, EndsLast
  <2>2. Events \in Nat /\ Len(said) \in Nat /\ Events = Len(said) + 1
    BY <2>1, WrittenIs
  <2>3. Passed = Events
    BY <2>1, <2>2, <1>1 DEF Handed, Passed
  <2>4. ~ (Passed <= Len(said))
    BY <2>2, <2>3
  <2> QED BY <2>4 DEF Framing, WasRead
<1> QED BY <1>1, <1>4, <1>5 DEF Channel!Finish

-----------------------------------------------------------------------------
(***************************************************************************)
(* The steps of a call.                                                    *)
(***************************************************************************)

LEMMA FrameTypesHold ==
  TypeOK <=> /\ FrameTypes
             /\ pc \in Calls \cup {"unknown", "returned"}
             /\ source \in {"none", "responses", "chat"}
             /\ upstream \in {"open", "completed", "failed", "cutoff"}
             /\ wrapped \in BOOLEAN /\ reading \in BOOLEAN
BY DEF TypeOK, FrameTypes

\* The whole answer of one call.
LEMMA AnswerAtOnceKeeps ==
  ASSUME LlmInv, NEW call \in Calls, pc = call, AnswerAtOnce(call)
  PROVE  LlmInv' /\ Channel!Produce
<1>1. PICK n \in 0 .. MaxPieces :
        LET pieces == [i \in 1 .. n |-> <<call, i>>] IN
        /\ said' = said \o pieces
        /\ Conclude([i \in 1 .. n |-> Answer(pieces[i])], "end")
  BY DEF AnswerAtOnce
<1>2. /\ pc' = "returned" /\ source' = source /\ upstream' = upstream
      /\ wrapped' = wrapped /\ reading' = reading
      /\ UNCHANGED <<buffer, outer, text, told, ended, finished>>
  BY DEF AnswerAtOnce, Return, callerVars
<1>3. pc # "returned" /\ source = "none" /\ outcome = "none" /\ said = <<>>
  BY DEF LlmInv, NothingEarly, Calls
<1> DEFINE pieces == [i \in 1 .. n |-> <<call, i>>]
<1>4. /\ pieces \in Seq(Piece) /\ n = Len(pieces) /\ n \in Nat /\ n <= MaxPieces
      /\ \A i \in 1 .. n : pieces[i] = <<call, i>>
  <2>1. n \in Nat /\ n <= MaxPieces /\ 1 .. n \subseteq 1 .. MaxPieces
    BY PieceAssumption
  <2>2. \A i \in 1 .. n : <<call, i>> \in Piece
    BY <2>1 DEF Piece
  <2> QED BY <2>1, <2>2
<1>5. said' = said \o pieces /\ Conclude([i \in 1 .. n |-> Answer(pieces[i])], "end")
  BY <1>1
<1> HIDE DEF pieces
<1>6. said' = pieces
  BY <1>3, <1>4, <1>5
<1>7. FrameTypes /\ Framing
  BY FrameTypesHold DEF LlmInv
<1>8. FrameTypes' /\ Framing' /\ Channel!Produce
  <2>1. Conclude([i \in 1 .. Len(pieces) |-> Answer(pieces[i])], "end")
    BY <1>4, <1>5
  <2>2. "end" \in Outcomes
    BY DEF Outcomes
  <2> QED BY <2>1, <2>2, <1>2, <1>3, <1>4, <1>5, <1>7, ConcludeKeeps
<1>9. TypeOK'
  <2>1. FrameTypes' /\ pc' \in {"returned"} /\ source' \in {"none", "responses", "chat"}
        /\ upstream' \in {"open", "completed", "failed", "cutoff"}
        /\ wrapped' \in BOOLEAN /\ reading' \in BOOLEAN
    BY <1>2, <1>8, FrameTypesHold DEF LlmInv
  <2> QED BY <2>1 DEF TypeOK, FrameTypes
<1>10. OneCall'
  <2>1. /\ \A i \in DOMAIN said' : said'[i] = <<call, i>>
        /\ DOMAIN said' = 1 .. n /\ Len(said') <= MaxPieces
    <3>1. DOMAIN pieces = 1 .. n
      BY <1>4
    <3> QED BY <3>1, <1>4, <1>6
  <2>2. ASSUME NEW i \in DOMAIN said'
        PROVE  said'[i] = <<said'[1][1], i>>
    <3>1. 1 \in DOMAIN said'
      BY <2>1, <1>4
    <3> QED BY <3>1, <2>1
  <2> QED BY <2>1, <2>2, <1>2, <1>3 DEF OneCall
<1>11. NothingEarly'
  BY <1>2, <1>3 DEF NothingEarly
<1> QED BY <1>8, <1>9, <1>10, <1>11 DEF LlmInv

\* The last event of a stream, if it was not ended before.
LEMMA LastEventKeeps ==
  ASSUME FrameTypes, Framing, NEW v \in Outcomes, Conclude(<<>>, v),
         UNCHANGED <<said, buffer, outer, text, told, ended, finished>>
  PROVE  /\ FrameTypes' /\ Framing'
         /\ Channel!Produce \/ UNCHANGED Channel!vars
         /\ outcome' = IF outcome = "none" THEN v ELSE outcome
<1>1. outcome' = IF outcome = "none" THEN v ELSE outcome
  BY DEF Conclude
<1>2. CASE outcome = "none"
  <2> DEFINE p == << >>
  <2>1. p \in Seq(Piece) /\ [i \in 1 .. Len(p) |-> Answer(p[i])] = <<>>
    OBVIOUS
  <2>2. said' = said \o p
    BY DEF FrameTypes
  <2>3. Conclude([i \in 1 .. Len(p) |-> Answer(p[i])], v)
    BY <2>1
  <2> HIDE DEF p
  <2>4. FrameTypes' /\ Framing' /\ Channel!Produce
    BY <2>1, <2>2, <2>3, <1>2, ConcludeKeeps
  <2> QED BY <2>4, <1>1
<1>3. CASE outcome # "none"
  <2>1. UNCHANGED frameVars
    BY <1>3 DEF Conclude, Write, frameVars
  <2> QED BY <2>1, <1>1, StillKeeps
<1> QED BY <1>2, <1>3

\* A call that rejects, and no other is tried.
LEMMA FailAtOnceKeeps ==
  ASSUME LlmInv, pc # "returned", FailAtOnce
  PROVE  LlmInv' /\ [Channel!Next]_(Channel!vars)
<1>1. /\ pc' = "returned" /\ source' = source /\ upstream' = upstream /\ said' = said
      /\ wrapped' = wrapped /\ reading' = reading
      /\ UNCHANGED <<said, buffer, outer, text, told, ended, finished>>
      /\ Conclude(<<>>, "error")
  BY DEF FailAtOnce, Return, callerVars
<1>2. FrameTypes /\ Framing /\ source = "none" /\ said = <<>>
  BY FrameTypesHold DEF LlmInv, NothingEarly
<1>3. /\ FrameTypes' /\ Framing'
      /\ Channel!Produce \/ UNCHANGED Channel!vars
  BY <1>1, <1>2, LastEventKeeps DEF Outcomes
<1>4. TypeOK'
  <2>1. TypeOK
    BY DEF LlmInv
  <2> QED BY <2>1, <1>1, <1>3 DEF TypeOK, FrameTypes
<1>5. OneCall' /\ NothingEarly'
  BY <1>1, <1>2 DEF OneCall, NothingEarly, LlmInv
<1> QED BY <1>3, <1>4, <1>5 DEF LlmInv, Channel!Next

\* A step that writes nothing, ends nothing and hands nothing on.
LEMMA QuietKeeps ==
  ASSUME LlmInv, UNCHANGED frameVars,
         pc' \in Calls \cup {"returned"}, pc = "returned" => pc' = "returned",
         \/ source' = source
         \/ pc = source' /\ pc' = "returned" /\ source' \in {"responses", "chat"},
         upstream' \in {upstream, "cutoff"},
         wrapped' \in BOOLEAN, wrapped' = wrapped \/ pc = "returned",
         reading' \in BOOLEAN
  PROVE  LlmInv' /\ UNCHANGED Channel!vars
<1>1. FrameTypes /\ Framing
  BY FrameTypesHold DEF LlmInv
<1>2. FrameTypes' /\ Framing' /\ UNCHANGED Channel!vars
  BY <1>1, StillKeeps
<1>3. said' = said /\ outcome' = outcome
  BY DEF frameVars
<1>4. TypeOK'
  <2>1. TypeOK
    BY DEF LlmInv
  <2> QED BY <2>1, <1>2 DEF TypeOK, FrameTypes
<1>5. CASE source' = source
  <2>1. OneCall'
    BY <1>3, <1>5 DEF LlmInv, OneCall
  <2>2. NothingEarly'
    BY <1>3, <1>5 DEF LlmInv, NothingEarly
  <2> QED BY <2>1, <2>2, <1>2, <1>4 DEF LlmInv
<1>6. CASE pc = source' /\ pc' = "returned" /\ source' \in {"responses", "chat"}
  <2>1. said = <<>> /\ outcome = "none"
    BY <1>6 DEF LlmInv, NothingEarly
  <2> QED BY <2>1, <1>2, <1>3, <1>4, <1>6 DEF LlmInv, OneCall, NothingEarly
<1> QED BY <1>5, <1>6

\* A piece that comes from an open source.
LEMMA NextPieceKeeps ==
  ASSUME LlmInv, NEW call \in {"responses", "chat"}, NextPiece(call)
  PROVE  LlmInv' /\ Channel!Produce
<1> DEFINE piece == <<call, Len(said) + 1>>
           p == <<piece>>
           new == <<Answer(piece)>>
<1>1. /\ source = call /\ upstream = "open" /\ Len(said) < MaxPieces
      /\ said' = Append(said, piece) /\ Write(new)
      /\ pc' = pc /\ source' = source /\ upstream' = upstream /\ outcome' = outcome
      /\ wrapped' = wrapped /\ reading' = reading
      /\ UNCHANGED <<buffer, outer, text, told, ended, finished>>
  BY DEF NextPiece, callerVars
<1>2. FrameTypes /\ Framing /\ Len(said) \in Nat
  BY FrameTypesHold DEF LlmInv, FrameTypes
<1>3. pc = "returned" /\ outcome = "none"
  BY <1>1 DEF LlmInv, NothingEarly
<1>4. piece \in Piece
  <2>1. Len(said) + 1 \in 1 .. MaxPieces
    BY <1>1, <1>2, PieceAssumption
  <2> QED BY <2>1 DEF Piece, Calls
<1>5. p \in Seq(Piece) /\ Len(p) = 1 /\ p[1] = piece /\ said' = said \o p
  <2> HIDE DEF piece
  <2>1. p \in Seq(Piece) /\ Len(p) = 1 /\ p[1] = piece
    BY <1>4
  <2>2. Append(said, piece) = said \o <<piece>>
    BY <1>2, <1>4 DEF FrameTypes
  <2> QED BY <2>1, <2>2, <1>1
<1>6. new \in Seq(Sent) /\ Len(new) = 1 /\ new[1] = Answer(piece)
  <2>1. Answer(piece) \in Sent
    BY <1>4 DEF Sent
  <2> HIDE DEF piece
  <2> QED BY <2>1
<1> HIDE DEF p, new, piece
<1>7. /\ Len(new) = Len(p) + (IF outcome' = "none" THEN 0 ELSE 1)
      /\ \A n \in 1 .. Len(new) :
           new[n] = IF n <= Len(p) THEN Answer(p[n]) ELSE LastEvent(outcome')
      /\ outcome' \in Outcomes \cup {"none"}
  <2>1. \A n \in 1 .. Len(new) : n = 1
    BY <1>6
  <2> QED BY <2>1, <1>1, <1>3, <1>5, <1>6
<1>8. FrameTypes' /\ Framing' /\ Channel!Produce
  BY <1>1, <1>2, <1>3, <1>5, <1>6, <1>7, WritingKeeps
<1>9. TypeOK'
  <2>1. TypeOK
    BY DEF LlmInv
  <2> QED BY <2>1, <1>1, <1>8 DEF TypeOK, FrameTypes
<1>10. OneCall'
  <2>1. \A n \in DOMAIN said : said[n] = <<call, n>>
    BY <1>1 DEF LlmInv, OneCall
  <2>2. /\ DOMAIN said = 1 .. Len(said) /\ DOMAIN said' = 1 .. Len(said) + 1
        /\ Len(said') = Len(said) + 1
        /\ \A n \in 1 .. Len(said) : said'[n] = said[n]
        /\ said'[Len(said) + 1] = piece
    BY <1>1, <1>2, <1>4 DEF FrameTypes
  <2>3. \A n \in 1 .. Len(said) + 1 : n \in 1 .. Len(said) \/ n = Len(said) + 1
    BY <1>2
  <2>4. \A n \in DOMAIN said' : said'[n] = <<call, n>>
    BY <2>1, <2>2, <2>3 DEF piece
  <2>5. 1 \in DOMAIN said' /\ Len(said') <= MaxPieces
    BY <2>2, <1>1, <1>2, PieceAssumption
  <2>6. \A n \in DOMAIN said' : said'[n] = <<said'[1][1], n>>
    BY <2>4, <2>5
  <2> QED BY <2>4, <2>5, <2>6, <1>1 DEF OneCall
<1>11. NothingEarly'
  BY <1>1, <1>3 DEF NothingEarly
<1> QED BY <1>8, <1>9, <1>10, <1>11 DEF LlmInv

\* The end of a source, or its failure.
LEMMA SourceEndsKeeps ==
  ASSUME LlmInv, source # "none", NEW v \in Outcomes,
         NEW how \in {"completed", "failed"}, SourceEnds(v, how)
  PROVE  LlmInv' /\ [Channel!Next]_(Channel!vars)
<1>1. /\ pc' = pc /\ source' = source /\ upstream' = how /\ said' = said
      /\ wrapped' = wrapped /\ reading' = reading
      /\ UNCHANGED <<said, buffer, outer, text, told, ended, finished>>
      /\ Conclude(<<>>, v)
  BY DEF SourceEnds, callerVars
<1>2. FrameTypes /\ Framing /\ pc = "returned"
  BY FrameTypesHold DEF LlmInv, NothingEarly
<1>3. /\ FrameTypes' /\ Framing'
      /\ Channel!Produce \/ UNCHANGED Channel!vars
  BY <1>1, <1>2, LastEventKeeps
<1>4. TypeOK'
  <2>1. TypeOK
    BY DEF LlmInv
  <2> QED BY <2>1, <1>1, <1>3 DEF TypeOK, FrameTypes
<1>5. OneCall' /\ NothingEarly'
  BY <1>1, <1>2 DEF OneCall, NothingEarly, LlmInv
<1> QED BY <1>3, <1>4, <1>5 DEF LlmInv, Channel!Next

\* A step of Node.js that changes the framing alone.
LEMMA NodeKeeps ==
  ASSUME LlmInv, FrameTypes', Framing',
         UNCHANGED <<pc, source, upstream, said, outcome, wrapped, reading>>
  PROVE  LlmInv'
<1>1. TypeOK'
  BY DEF LlmInv, TypeOK, FrameTypes
<1>2. OneCall' /\ NothingEarly'
  BY DEF LlmInv, OneCall, NothingEarly
<1> QED BY <1>1, <1>2 DEF LlmInv

LEMMA LlmInit == Init => LlmInv /\ Channel!Init
<1> SUFFICES ASSUME Init PROVE LlmInv /\ Channel!Init
  OBVIOUS
<1> USE DEF Init
<1>1. TypeOK
  <2>1. \A S : <<>> \in Seq(S)
    OBVIOUS
  <2>2. FrameTypes
    BY <2>1, Zenon DEF FrameTypes
  <2> QED BY <2>2, FrameTypesHold DEF Calls
<1>2. OneCall /\ NothingEarly
  BY PieceAssumption DEF OneCall, NothingEarly
<1>3. Events = 0 /\ Handed = 0 /\ Passed = 0
  BY DEF Events, Handed, Passed
<1>4. Framing
  BY <1>3 DEF Framing, InPipe, InBuffer, InOuter, WasRead, EndsLast
<1> QED BY <1>1, <1>2, <1>4 DEF LlmInv, Channel!Init

\* Every step of a call keeps the invariant, and is a step of the channel or none.
LEMMA LlmStep ==
  ASSUME LlmInv, [Next]_vars
  PROVE  LlmInv' /\ [Channel!Next]_(Channel!vars)
<1> USE DEF Channel!Next
<1>1. FrameTypes /\ Framing
  BY FrameTypesHold DEF LlmInv
<1>2. /\ pc \in Calls \cup {"unknown", "returned"} /\ wrapped \in BOOLEAN
      /\ reading \in BOOLEAN
      /\ pc # "returned" => ~ wrapped /\ source = "none"
      /\ upstream \in {"open", "completed", "failed", "cutoff"}
  BY DEF LlmInv, TypeOK, NothingEarly
<1>3. CASE StreamOpens
  <2>1. UNCHANGED frameVars
    BY <1>3 DEF StreamOpens, frameVars, callerVars
  <2> QED BY <2>1, <1>2, <1>3, QuietKeeps DEF StreamOpens, Return, callerVars
<1>4. CASE StreamThrows
  <2>1. UNCHANGED frameVars
    BY <1>4 DEF StreamThrows, frameVars, callerVars
  <2> QED BY <2>1, <1>2, <1>4, QuietKeeps DEF StreamThrows, callerVars, Calls
<1>5. CASE CreateAnswers
  BY <1>5, AnswerAtOnceKeeps DEF CreateAnswers, Calls
<1>6. CASE CreateThrows
  <2>1. UNCHANGED frameVars
    BY <1>6 DEF CreateThrows, frameVars, callerVars
  <2> QED BY <2>1, <1>2, <1>6, QuietKeeps DEF CreateThrows, callerVars, Calls
<1>7. CASE ChatOpens
  <2>1. UNCHANGED frameVars
    BY <1>7 DEF ChatOpens, frameVars, callerVars
  <2> QED BY <2>1, <1>2, <1>7, QuietKeeps DEF ChatOpens, Return, callerVars
<1>8. CASE ChatThrows
  BY <1>8, FailAtOnceKeeps DEF ChatThrows
<1>9. CASE GeminiAnswers
  BY <1>9, AnswerAtOnceKeeps DEF GeminiAnswers, Calls
<1>10. CASE GeminiThrows
  BY <1>10, FailAtOnceKeeps DEF GeminiThrows
<1>11. CASE UnknownProvider
  BY <1>11, FailAtOnceKeeps DEF UnknownProvider
<1>12. CASE Delta
  BY <1>12, NextPieceKeeps DEF Delta
<1>13. CASE ResponseCompleted
  BY <1>13, SourceEndsKeeps DEF ResponseCompleted, Outcomes
<1>14. CASE ResponseError
  BY <1>14, SourceEndsKeeps DEF ResponseError, Outcomes
<1>15. CASE ChatChunk
  BY <1>15, NextPieceKeeps DEF ChatChunk
<1>16. CASE ChatFinished
  BY <1>16, SourceEndsKeeps DEF ChatFinished, Outcomes
<1>17. CASE ChatError
  BY <1>17, SourceEndsKeeps DEF ChatError, Outcomes
<1>18. CASE CutOff
  <2>1. UNCHANGED frameVars
    BY <1>18 DEF CutOff, frameVars, callerVars
  <2> QED BY <2>1, <1>2, <1>18, QuietKeeps DEF CutOff, callerVars, Calls
<1>19. CASE Wrap
  <2>1. UNCHANGED frameVars
    BY <1>19 DEF Wrap, frameVars, callerVars, providerVars
  <2> QED BY <2>1, <1>2, <1>19, QuietKeeps DEF Wrap, callerVars, providerVars
<1>20. CASE Deliver
  BY <1>1, <1>20, DeliverKeeps, NodeKeeps DEF Deliver, callerVars
<1>21. CASE PipeEnds
  BY <1>1, <1>21, PipeEndsKeeps, NodeKeeps DEF PipeEnds, providerVars, callerVars
<1>22. CASE Attach
  <2>1. UNCHANGED frameVars /\ pc = "returned"
    BY <1>2, <1>22 DEF Attach, frameVars, providerVars
  <2> QED BY <2>1, <1>2, <1>22, QuietKeeps DEF Attach, providerVars
<1>23. CASE Read
  BY <1>1, <1>23, ReadKeeps, NodeKeeps DEF Read, providerVars
<1>24. CASE Finish
  BY <1>1, <1>24, FinishKeeps, NodeKeeps DEF Finish, providerVars
<1>25. CASE UNCHANGED vars
  <2>1. FrameTypes' /\ Framing' /\ UNCHANGED Channel!vars
    BY <1>1, <1>25, StillKeeps DEF vars, providerVars, callerVars, frameVars
  <2> QED BY <2>1, <1>25, NodeKeeps DEF vars, providerVars, callerVars
<1> QED BY <1>3, <1>4, <1>5, <1>6, <1>7, <1>8, <1>9, <1>10, <1>11, <1>12, <1>13, <1>14,
           <1>15, <1>16, <1>17, <1>18, <1>19, <1>20, <1>21, <1>22, <1>23, <1>24, <1>25
        DEF Next, Call, Source, Node

-----------------------------------------------------------------------------
(***************************************************************************)
(* The theorems.                                                           *)
(***************************************************************************)

LEMMA LlmInvariant == Spec => []LlmInv
<1>1. Init => LlmInv
  BY LlmInit
<1>2. LlmInv /\ [Next]_vars => LlmInv'
  BY LlmStep
<1> QED BY <1>1, <1>2, PTL DEF Spec

\* The types of a call, of the events on their way and of what was read.
THEOREM TypeCorrect == Spec => []TypeOK
<1>1. LlmInv => TypeOK
  BY DEF LlmInv
<1> QED BY <1>1, LlmInvariant, PTL

\* However the writes are handed on, and whichever fallback answers, the text the
\* caller collects is what one call wrote, from its first piece on and without a
\* gap, for answers of any length.
THEOREM TextFromOneCall == Spec => []OneSource
<1>1. LlmInv => OneSource
  <2> SUFFICES ASSUME LlmInv PROVE OneSource
    OBVIOUS
  <2>1. FrameTypes /\ WasRead /\ OneCall
    BY FrameTypesHold DEF LlmInv, Framing
  <2>2. ASSUME NEW n \in DOMAIN text
        PROVE  text[n] = <<text[1][1], n>>
    <3>1. n \in 1 .. Len(text) /\ 1 \in 1 .. Len(text)
      BY <2>1 DEF FrameTypes
    <3>2. Len(text) \in Nat /\ Len(said) \in Nat /\ Len(text) <= Len(said)
      <4>1. Len(text) \in Nat /\ Len(said) \in Nat
        BY <2>1 DEF FrameTypes
      <4> QED BY <4>1, <2>1 DEF WasRead
    <3>3. n \in DOMAIN said /\ text[n] = said[n] /\ text[1] = said[1]
      <4>1. DOMAIN said = 1 .. Len(said)
        BY <2>1 DEF FrameTypes
      <4> QED BY <4>1, <3>1, <3>2, <2>1 DEF WasRead
    <3> QED BY <3>3, <2>1 DEF OneCall
  <2> QED BY <2>2 DEF OneSource
<1> QED BY <1>1, LlmInvariant, PTL

\* A call of generate implements the channel: all pieces in order, one outcome
\* behind them, and nothing behind that, for answers of any length and writes
\* that are handed on in any portions.
THEOREM CallKeepsChannel == Spec => KeepsChannel
<1>1. Init => Channel!Init
  BY LlmInit
<1>2. LlmInv /\ [Next]_vars => [Channel!Next]_(Channel!vars)
  BY LlmStep
<1> QED BY <1>1, <1>2, LlmInvariant, PTL DEF Spec, KeepsChannel, Channel!Spec
=============================================================================
