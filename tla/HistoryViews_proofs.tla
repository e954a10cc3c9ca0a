------------------------ MODULE HistoryViews_proofs ------------------------
(***************************************************************************)
(* What the pages of the history show, for any number of conversations,    *)
(* sessions and pages, any limit and any resolution of the clock.          *)
(***************************************************************************)
EXTENDS HistoryViews, SequenceTheorems, FiniteSetTheorems, TLAPS

-----------------------------------------------------------------------------
(***************************************************************************)
(* The order of rows, and the sequence Ascending makes of them.            *)
(***************************************************************************)

IsRow(r) == r.at \in Nat /\ r.id \in Nat

\* The rows of a table: finitely many, each with an id of its own.
Table(rows) ==
  /\ IsFiniteSet(rows)
  /\ \A r \in rows : IsRow(r)
  /\ \A r, q \in rows : r.id = q.id => r = q

\* The order is strict, and total on the rows of a table.
LEMMA OrderStrict ==
  ASSUME NEW x, NEW y, NEW z, IsRow(x), IsRow(y), IsRow(z)
  PROVE  /\ ~ (Precedes(x, y) /\ Precedes(y, x))
         /\ ~ Precedes(x, x)
         /\ Precedes(x, y) /\ Precedes(y, z) => Precedes(x, z)
         /\ x.id # y.id => Precedes(x, y) \/ Precedes(y, x)
BY SMT DEF IsRow, Precedes

LEMMA OrderTotal ==
  ASSUME NEW rows, Table(rows), NEW x \in rows, NEW y \in rows, x # y
  PROVE  Precedes(x, y) \/ Precedes(y, x)
BY SMT DEF Table, IsRow, Precedes

\* A set of rows of a table is a table.
LEMMA TableSubset ==
  ASSUME NEW rows, Table(rows), NEW some \in SUBSET rows
  PROVE  Table(some)
BY FS_Subset DEF Table

Before(rows, r) == {x \in rows : Precedes(x, r)}

\* A row has a place of its own among 1 .. n.
LEMMA Ranking ==
  ASSUME NEW rows, Table(rows)
  PROVE  /\ Cardinality(rows) \in Nat
         /\ \A r \in rows : Cardinality(Before(rows, r)) + 1 \in 1 .. Cardinality(rows)
         /\ \A q, r \in rows : Precedes(q, r) =>
              Cardinality(Before(rows, q)) < Cardinality(Before(rows, r))
         /\ \A n \in 1 .. Cardinality(rows) :
              \E r \in rows : Cardinality(Before(rows, r)) = n - 1
<1>1. IsFiniteSet(rows) /\ Cardinality(rows) \in Nat
  BY FS_CardinalityType DEF Table
<1>2. ASSUME NEW r \in rows
      PROVE  /\ Before(rows, r) \in SUBSET (rows \ {r})
             /\ IsFiniteSet(Before(rows, r))
             /\ Cardinality(Before(rows, r)) \in Nat
             /\ Cardinality(Before(rows, r)) + 1 \in 1 .. Cardinality(rows)
  <2>1. Before(rows, r) \in SUBSET (rows \ {r})
    BY OrderStrict DEF Before, Table
  <2>2. IsFiniteSet(rows \ {r}) /\ Cardinality(rows \ {r}) = Cardinality(rows) - 1
    BY <1>1, FS_RemoveElement
  <2>3. IsFiniteSet(Before(rows, r)) /\ Cardinality(Before(rows, r)) <= Cardinality(rows \ {r})
    BY <2>1, <2>2, FS_Subset
  <2>4. Cardinality(Before(rows, r)) \in Nat
    BY <2>3, FS_CardinalityType
  <2> QED BY <1>1, <2>1, <2>2, <2>3, <2>4
<1>3. ASSUME NEW q \in rows, NEW r \in rows, Precedes(q, r)
      PROVE  Cardinality(Before(rows, q)) < Cardinality(Before(rows, r))
  <2>1. Before(rows, q) \cup {q} \in SUBSET Before(rows, r)
    BY <1>3, OrderStrict DEF Before, Table
  <2>2. q \notin Before(rows, q)
    BY OrderStrict DEF Before, Table
  <2>3. Cardinality(Before(rows, q) \cup {q}) = Cardinality(Before(rows, q)) + 1
    BY <1>2, <2>2, FS_AddElement
  <2>4. Cardinality(Before(rows, q) \cup {q}) <= Cardinality(Before(rows, r))
    BY <1>2, <2>1, FS_Subset
  <2> QED BY <1>2, <2>3, <2>4
<1>4. ASSUME NEW n \in 1 .. Cardinality(rows)
      PROVE  \E r \in rows : Cardinality(Before(rows, r)) = n - 1
  <2> DEFINE rank == [r \in rows |-> Cardinality(Before(rows, r)) + 1]
  <2>1. rank \in [rows -> 1 .. Cardinality(rows)]
    BY <1>2
  <2>2. ASSUME NEW q \in rows, NEW r \in rows, rank[q] = rank[r], q # r
        PROVE  FALSE
    <3>1. Cardinality(Before(rows, q)) = Cardinality(Before(rows, r))
      BY <1>2, <2>2
    <3> QED BY <1>2, <1>3, <2>2, <3>1, OrderTotal
  <2>3. rank \in Injection(rows, 1 .. Cardinality(rows))
    BY <2>1, <2>2 DEF Injection, IsInjective
  <2>4. /\ IsFiniteSet(1 .. Cardinality(rows))
        /\ Cardinality(1 .. Cardinality(rows)) = Cardinality(rows)
    BY <1>1, FS_Interval
  <2>5. rank \in Surjection(rows, 1 .. Cardinality(rows))
    BY <2>3, <2>4, FS_Injection
  <2>6. PICK r \in rows : rank[r] = n
    BY <2>5 DEF Surjection
  <2> QED BY <1>2, <2>6
<1> QED BY <1>1, <1>2, <1>3, <1>4

\* Ascending lists a table in order, every row once.
LEMMA AscendingSorts ==
  ASSUME NEW rows, Table(rows)
  PROVE  LET s == Ascending(rows) IN
         /\ s \in Seq(rows) /\ Len(s) = Cardinality(rows) /\ Len(s) \in Nat
         /\ \A i, j \in 1 .. Len(s) : i < j => Precedes(s[i], s[j])
         /\ \A r \in rows : \E i \in 1 .. Len(s) : s[i] = r
<1> DEFINE s == Ascending(rows)
           n == Cardinality(rows)
<1>1. n \in Nat
  BY Ranking
<1>2. \A i \in 1 .. n : s[i] \in rows /\ Cardinality(Before(rows, s[i])) = i - 1
  BY Ranking DEF Ascending, Before
<1>3. s \in [1 .. n -> rows]
  BY <1>2 DEF Ascending
<1>4. s \in Seq(rows) /\ Len(s) = n
  BY <1>1, <1>3
<1>5. ASSUME NEW i \in 1 .. n, NEW j \in 1 .. n, i < j
      PROVE  Precedes(s[i], s[j])
  <2>1. s[i] # s[j] /\ ~ Precedes(s[j], s[i])
    BY <1>1, <1>2, <1>5, Ranking
  <2> QED BY <1>2, <2>1, OrderTotal
<1>6. ASSUME NEW r \in rows
      PROVE  \E i \in 1 .. n : s[i] = r
  <2>1. PICK i \in 1 .. n : i = Cardinality(Before(rows, r)) + 1
    BY Ranking
  <2>2. s[i] \in rows /\ Cardinality(Before(rows, s[i])) = i - 1
    BY <1>2, <2>1
  <2>3. \A q \in rows : Cardinality(Before(rows, q)) \in Int
    <3>1. ASSUME NEW q \in rows PROVE Cardinality(Before(rows, q)) \in Int
      <4>1. IsFiniteSet(Before(rows, q))
        BY FS_Subset DEF Table, Before
      <4> QED BY <4>1, FS_CardinalityType
    <3> QED BY <3>1
  <2>4. Cardinality(Before(rows, s[i])) = Cardinality(Before(rows, r))
    BY <1>1, <2>1, <2>2, <2>3
  <2>5. ~ Precedes(s[i], r) /\ ~ Precedes(r, s[i])
    BY <2>2, <2>3, <2>4, Ranking
  <2>6. s[i] = r
    BY <2>2, <2>5, OrderTotal
  <2> QED BY <2>6
<1> QED BY <1>1, <1>4, <1>5, <1>6

-----------------------------------------------------------------------------
(***************************************************************************)
(* Pages and cursors.                                                      *)
(***************************************************************************)

Follows(rows, cursors) == {r \in rows : \A c \in cursors : Precedes(c, r)}
Leads(rows, cursors) == {r \in rows : \A c \in cursors : Precedes(r, c)}

InOrder(p) == \A i, j \in 1 .. Len(p) : i < j => Precedes(p[i], p[j])

\* A page holds rows that were asked for, in order, and of those the first:
\* one that is not on it means that it is full, and comes behind it.
LEMMA PageAfterIsFirst ==
  ASSUME NEW rows, Table(rows), NEW cursors, NEW limit \in Nat \ {0}
  PROVE  LET p == PageAfter(rows, cursors, limit) IN
         /\ p \in Seq(Follows(rows, cursors)) /\ InOrder(p)
         /\ \A r \in Follows(rows, cursors) :
              \/ \E i \in 1 .. Len(p) : p[i] = r
              \/ Len(p) = limit /\ \A i \in 1 .. Len(p) : Precedes(p[i], r)
<1> DEFINE some == Follows(rows, cursors)
           s == Ascending(some)
           n == IF Len(s) < limit THEN Len(s) ELSE limit
           p == SubSeq(s, 1, n)
<1>1. Table(some)
  BY TableSubset DEF Follows
<1>2. /\ s \in Seq(some) /\ Len(s) \in Nat
      /\ \A i, j \in 1 .. Len(s) : i < j => Precedes(s[i], s[j])
      /\ \A r \in some : \E i \in 1 .. Len(s) : s[i] = r
  BY <1>1, AscendingSorts
<1>3. PageAfter(rows, cursors, limit) = p
  BY DEF PageAfter, Follows
<1> HIDE DEF some, s
<1>4. n \in Nat /\ n <= Len(s) /\ (n < Len(s) => n = limit)
  BY <1>2
<1>5. /\ p \in Seq(some) /\ Len(p) = n
      /\ \A i \in 1 .. n : p[i] = s[i]
  <2>1. \A i \in 1 .. n : s[i] \in some
    BY <1>2, <1>4
  <2> HIDE DEF n
  <2>2. /\ SubSeq(s, 1, n) \in Seq(some)
        /\ Len(SubSeq(s, 1, n)) = IF 1 <= n THEN n - 1 + 1 ELSE 0
        /\ \A i \in 1 .. n - 1 + 1 : SubSeq(s, 1, n)[i] = s[1 + i - 1]
    BY <1>4, <2>1, SubSeqProperties
  <2> QED BY <1>4, <2>2
<1> HIDE DEF p, n
<1>6. \A i \in 1 .. Len(p) : i \in 1 .. Len(s) /\ p[i] = s[i]
  <2>1. \A i \in 1 .. n : i \in 1 .. Len(s)
    BY <1>2, <1>4
  <2>2. Len(p) = n /\ \A i \in 1 .. n : p[i] = s[i]
    BY <1>5
  <2> HIDE DEF s
  <2> QED BY <2>1, <2>2, Zenon
<1>7. InOrder(p)
  BY <1>2, <1>6 DEF InOrder
<1>8. ASSUME NEW r \in some, \A i \in 1 .. Len(p) : p[i] # r
      PROVE  Len(p) = limit /\ \A i \in 1 .. Len(p) : Precedes(p[i], r)
  <2>1. PICK k \in 1 .. Len(s) : s[k] = r
    BY <1>2
  <2>2. k \notin 1 .. n
    BY <1>5, <1>8, <2>1
  <2>3. k > n /\ n = limit
    BY <1>2, <1>4, <2>2
  <2>4. \A i \in 1 .. Len(p) : i < k
    BY <1>4, <1>5, <2>3
  <2> QED BY <1>2, <1>5, <1>6, <2>1, <2>3, <2>4
<1> QED BY <1>3, <1>5, <1>7, <1>8 DEF some

LEMMA PageBeforeIsLast ==
  ASSUME NEW rows, Table(rows), NEW cursors, NEW limit \in Nat \ {0}
  PROVE  LET p == PageBefore(rows, cursors, limit) IN
         /\ p \in Seq(Leads(rows, cursors)) /\ InOrder(p)
         /\ \A r \in Leads(rows, cursors) :
              \/ \E i \in 1 .. Len(p) : p[i] = r
              \/ Len(p) = limit /\ \A i \in 1 .. Len(p) : Precedes(r, p[i])
<1> DEFINE some == Leads(rows, cursors)
           s == Ascending(some)
           m == IF Len(s) < limit THEN 1 ELSE Len(s) - limit + 1
           p == SubSeq(s, m, Len(s))
<1>1. Table(some)
  BY TableSubset DEF Leads
<1>2. /\ s \in Seq(some) /\ Len(s) \in Nat
      /\ \A i, j \in 1 .. Len(s) : i < j => Precedes(s[i], s[j])
      /\ \A r \in some : \E i \in 1 .. Len(s) : s[i] = r
  BY <1>1, AscendingSorts
<1>3. PageBefore(rows, cursors, limit) = p
  BY DEF PageBefore, Leads
<1> HIDE DEF some, s
<1>4. /\ m \in Nat \ {0} /\ m <= Len(s) + 1
      /\ (m > 1 => Len(s) - m + 1 = limit)
  BY <1>2
<1> HIDE DEF m
<1>5. /\ p \in Seq(some) /\ Len(p) = Len(s) - m + 1
      /\ \A i \in 1 .. Len(p) : p[i] = s[m + i - 1]
  <2>1. \A i \in m .. Len(s) : s[i] \in some
    BY <1>2, <1>4
  <2>2. /\ SubSeq(s, m, Len(s)) \in Seq(some)
        /\ Len(SubSeq(s, m, Len(s))) = IF m <= Len(s) THEN Len(s) - m + 1 ELSE 0
        /\ \A i \in 1 .. Len(s) - m + 1 : SubSeq(s, m, Len(s))[i] = s[m + i - 1]
    BY <1>2, <1>4, <2>1, SubSeqProperties
  <2> QED BY <1>2, <1>4, <2>2
<1> HIDE DEF p
<1>6. \A i \in 1 .. Len(p) : m + i - 1 \in 1 .. Len(s) /\ p[i] = s[m + i - 1]
  BY <1>2, <1>4, <1>5
<1>7. InOrder(p)
  <2>1. ASSUME NEW i \in 1 .. Len(p), NEW j \in 1 .. Len(p), i < j
        PROVE  Precedes(p[i], p[j])
    <3>1. m + i - 1 < m + j - 1
      BY <1>2, <1>4, <1>5, <2>1
    <3>2. Precedes(s[m + i - 1], s[m + j - 1])
      BY <1>2, <1>6, <3>1
    <3> QED BY <1>6, <3>2
  <2> QED BY <2>1 DEF InOrder
<1>8. ASSUME NEW r \in some, \A i \in 1 .. Len(p) : p[i] # r
      PROVE  Len(p) = limit /\ \A i \in 1 .. Len(p) : Precedes(r, p[i])
  <2>1. PICK k \in 1 .. Len(s) : s[k] = r
    BY <1>2
  <2>2. k < m
    <3> SUFFICES ASSUME k >= m PROVE FALSE
      BY <1>2, <1>4
    <3>1. k - m + 1 \in 1 .. Len(p) /\ m + (k - m + 1) - 1 = k
      BY <1>2, <1>4, <1>5
    <3>2. p[k - m + 1] = s[m + (k - m + 1) - 1]
      BY <1>6, <3>1
    <3> QED BY <1>8, <2>1, <3>1, <3>2
  <2>3. Len(p) = limit
    BY <1>2, <1>4, <1>5, <2>2
  <2>4. ASSUME NEW i \in 1 .. Len(p)
        PROVE  Precedes(r, p[i])
    <3>1. k < m + i - 1
      BY <1>2, <1>4, <1>5, <2>2
    <3>2. Precedes(s[k], s[m + i - 1])
      BY <1>2, <1>6, <3>1
    <3> QED BY <1>6, <2>1, <3>2
  <2> QED BY <2>3, <2>4
<1> QED BY <1>3, <1>5, <1>7, <1>8 DEF some

\* A cursor is not behind the row it is made from, and in its millisecond.
LEMMA CursorOf ==
  ASSUME NEW r, IsRow(r)
  PROVE  /\ IsRow(Cursor(r)) /\ Cursor(r).id = r.id /\ Cursor(r).at <= r.at
         /\ Cursor(r).at = Milli * (r.at \div Milli)
         /\ r.at - Cursor(r).at < Milli
BY MilliAssumption, SMT DEF IsRow, Cursor

\* What is behind a row is behind its cursor, and what is before its cursor is
\* before the row.
LEMMA CursorIsEarly ==
  ASSUME NEW r, IsRow(r), NEW q, IsRow(q)
  PROVE  /\ Precedes(r, q) => Precedes(Cursor(r), q)
         /\ Precedes(q, Cursor(r)) => Precedes(q, r)
BY CursorOf, SMT DEF IsRow, Precedes

\* The order keeps milliseconds, and a cursor its own.
LEMMA Quotient ==
  ASSUME NEW a \in Nat, NEW b \in Nat
  PROVE  /\ a \div Milli \in Nat
         /\ a <= b => a \div Milli <= b \div Milli
         /\ Milli * (a \div Milli) <= b => a \div Milli <= b \div Milli
BY MilliAssumption, SMT

LEMMA MilliOrder ==
  ASSUME NEW r, IsRow(r), NEW q, IsRow(q)
  PROVE  /\ r.at \div Milli \in Nat
         /\ Precedes(r, q) => r.at \div Milli <= q.at \div Milli
         /\ Precedes(Cursor(r), q) => r.at \div Milli <= q.at \div Milli
         /\ Precedes(q, r) /\ ~ Precedes(q, Cursor(r)) =>
              r.at \div Milli = q.at \div Milli
<1>1. /\ r.at \div Milli \in Nat /\ q.at \div Milli \in Nat
      /\ r.at <= q.at => r.at \div Milli <= q.at \div Milli
      /\ q.at <= r.at => q.at \div Milli <= r.at \div Milli
      /\ Cursor(r).at <= q.at => r.at \div Milli <= q.at \div Milli
  BY Quotient, CursorOf DEF IsRow
<1>2. Cursor(r).at \in Nat /\ Cursor(r).id = r.id
  BY CursorOf DEF IsRow
<1> HIDE DEF Cursor
<1> QED BY <1>1, <1>2 DEF IsRow, Precedes

-----------------------------------------------------------------------------
(***************************************************************************)
(* The invariant of the message pages.                                     *)
(***************************************************************************)

Newest(pages) == pages[Len(pages)][Len(pages[Len(pages)])]

\* The row t has for a role was inserted.
Inserted(t, r) ==
  phase[t] \in IF r = "user" THEN {"user", "both", "committed"} ELSE {"both", "committed"}

\* Ids come from one sequence, and a question gets its own before its answer.
MessageIds ==
  /\ \A t \in Turns, r \in M!Role : Inserted(t, r) => ids[t][r] < nextId
  /\ \A t, u \in Turns, r, q \in M!Role :
       (Inserted(t, r) /\ Inserted(u, q) /\ ids[t][r] = ids[u][q]) => (t = u /\ r = q)
  /\ \A t \in Turns : Inserted(t, "assistant") => ids[t]["user"] < ids[t]["assistant"]

\* Messages are not deleted.
MessagesStay == known \subseteq M!Messages

\* A scroll that goes on does so behind the last message it showed, which is in
\* the last millisecond it came to.
MessageCursor ==
  /\ scroll.pages = <<>> => scroll.cursors = {}
  /\ (scroll.pages # <<>> /\ scroll.more) =>
       /\ scroll.pages[Len(scroll.pages)] # <<>>
       /\ scroll.cursors = {Cursor(Newest(scroll.pages))}
       /\ \A m \in M!Shown : m.at \div Milli <= Newest(scroll.pages).at \div Milli

\* What it has not shown yet of the messages it began with is ahead of it.
MessagesAhead ==
  scroll.pages # <<>> =>
    \A m \in known \ M!Shown :
      /\ \A s \in M!Shown : Precedes(s, m)
      /\ scroll.more => \A c \in scroll.cursors : Precedes(c, m)

MessageInv ==
  /\ M!TypeOK /\ MessageIds /\ MessagesStay
  /\ MessageCursor /\ MessagesAhead /\ M!ForwardRepeatsSameMilli

-----------------------------------------------------------------------------
(***************************************************************************)
(* The invariant of the pages of sessions.                                 *)
(***************************************************************************)

SessionIds ==
  /\ \A s \in Slots : sPhase[s] # "unused" => row[s].id < sNextId
  /\ \A s, t \in Slots :
       (sPhase[s] # "unused" /\ sPhase[t] # "unused" /\ row[s].id = row[t].id) => s = t

\* A session that was there once is there, or deleted for good.
SessionsStay ==
  sKnown \subseteq {row[s] : s \in {t \in Slots : sPhase[t] \in {"live", "deleted"}}}

\* A scroll that goes on does so behind the last session it showed, which is
\* the oldest of all it showed.
SessionCursor ==
  /\ sScroll.pages = <<>> => sScroll.cursors = {} /\ sScroll.more
  /\ (sScroll.pages # <<>> /\ sScroll.more) =>
       /\ sScroll.pages[Len(sScroll.pages)] # <<>>
       /\ sScroll.cursors = {Cursor(Newest(sScroll.pages))}
       /\ \A x \in S!Shown :
            x = Newest(sScroll.pages) \/ Precedes(Newest(sScroll.pages), x)

\* The cursor passed over x: it was made from a session of the same millisecond.
PassedOver(x) ==
  \E n \in {m \in DOMAIN sScroll.pages : sScroll.pages[m] # <<>>} :
    LET last == sScroll.pages[n][Len(sScroll.pages[n])] IN
    S!SameMilli(x, last) /\ Precedes(x, last)

\* What it has not shown yet of the sessions it began with was passed over, or is
\* ahead of it.
SessionsAhead ==
  sScroll.pages # <<>> =>
    \A x \in (sKnown \cap S!Sessions) \ S!Shown :
      \/ PassedOver(x)
      \/ sScroll.more /\ \A c \in sScroll.cursors : Precedes(x, c)

SessionInv ==
  /\ S!TypeOK /\ SessionIds /\ SessionsStay
  /\ SessionCursor /\ SessionsAhead /\ S!PagesDescend

ViewsInv == MessageInv /\ SessionInv

-----------------------------------------------------------------------------
(***************************************************************************)
(* Messages.                                                               *)
(***************************************************************************)

\* Both modules page by the order of PageCursor.
LEMMA SameOrder ==
  ASSUME NEW rows, NEW cursors, NEW limit, NEW x, NEW y
  PROVE  /\ M!Precedes(x, y) = Precedes(x, y) /\ S!Precedes(x, y) = Precedes(x, y)
         /\ M!Cursor(x) = Cursor(x) /\ S!Cursor(x) = Cursor(x)
         /\ M!Ascending(rows) = Ascending(rows)
         /\ M!PageAfter(rows, cursors, limit) = PageAfter(rows, cursors, limit)
         /\ M!PageBefore(rows, cursors, limit) = PageBefore(rows, cursors, limit)
         /\ S!PageBefore(rows, cursors, limit) = PageBefore(rows, cursors, limit)
<1>1. \A q, r : M!Precedes(q, r) = Precedes(q, r) /\ S!Precedes(q, r) = Precedes(q, r)
  BY DEF M!Precedes, S!Precedes, Precedes
<1>2. M!Cursor(x) = Cursor(x) /\ S!Cursor(x) = Cursor(x)
  BY DEF M!Cursor, S!Cursor, Cursor
<1>3. \A q : M!Ascending(q) = Ascending(q) /\ S!Ascending(q) = Ascending(q)
  BY DEF M!Ascending, S!Ascending, Ascending, M!Precedes, S!Precedes, Precedes,
         M!Cardinality, S!Cardinality, Cardinality
<1>4. M!PageAfter(rows, cursors, limit) = PageAfter(rows, cursors, limit)
  BY <1>3 DEF M!PageAfter, PageAfter, M!Precedes, Precedes
<1>5. /\ M!PageBefore(rows, cursors, limit) = PageBefore(rows, cursors, limit)
      /\ S!PageBefore(rows, cursors, limit) = PageBefore(rows, cursors, limit)
  BY <1>3 DEF M!PageBefore, S!PageBefore, PageBefore, M!Precedes, S!Precedes, Precedes
<1> QED BY <1>1, <1>2, <1>3, <1>4, <1>5

LEMMA Limits == MessageLimit \in Nat \ {0} /\ SessionLimit \in Nat \ {0}
                /\ MaxMessageTime \in Nat /\ MaxSessionTime \in Nat
BY ViewsAssumption DEF M!MessagesAssumption, S!ListAssumption

\* The row of one message.
RowOf(t, r) == [turn |-> t, role |-> r, id |-> ids[t][r], at |-> at[t]]

LEMMA MessageRows ==
  /\ \A x : x \in M!Messages <=>
       \E t \in Turns, r \in M!Role : phase[t] = "committed" /\ x = RowOf(t, r)
BY DEF M!Messages, M!Committed, M!MessagesOf, M!Role, RowOf

\* The committed messages are a table.
LEMMA MessagesTable ==
  ASSUME M!TypeOK, MessageIds
  PROVE  Table(M!Messages) /\ M!Messages \subseteq M!Message
<1>1. ASSUME NEW x \in M!Messages
      PROVE  x \in M!Message /\ IsRow(x) /\ x.id < nextId
  <2>1. PICK t \in Turns, r \in M!Role : phase[t] = "committed" /\ x = RowOf(t, r)
    BY MessageRows
  <2>2. ids[t][r] \in Nat /\ at[t] \in 0 .. MaxMessageTime /\ ids[t][r] < nextId
    BY <2>1 DEF M!TypeOK, MessageIds, Inserted
  <2> QED BY <2>1, <2>2, Limits DEF RowOf, M!Message, IsRow
<1>2. ASSUME NEW x \in M!Messages, NEW y \in M!Messages, x.id = y.id
      PROVE  x = y
  <2>1. PICK t \in Turns, r \in M!Role : phase[t] = "committed" /\ x = RowOf(t, r)
    BY MessageRows
  <2>2. PICK u \in Turns, q \in M!Role : phase[u] = "committed" /\ y = RowOf(u, q)
    BY MessageRows
  <2>3. ids[t][r] = ids[u][q]
    BY <1>2, <2>1, <2>2 DEF RowOf
  <2>4. t = u /\ r = q
    BY <2>1, <2>2, <2>3 DEF MessageIds, Inserted
  <2> QED BY <2>1, <2>2, <2>4
<1>3. IsFiniteSet(M!Messages)
  <2> DEFINE f == [x \in M!Messages |-> x.id]
  <2>1. nextId \in Nat
    BY DEF M!TypeOK
  <2>2. f \in [M!Messages -> 0 .. nextId]
    BY <1>1, <2>1 DEF IsRow
  <2>3. f \in Injection(M!Messages, 0 .. nextId)
    BY <1>2, <2>2 DEF Injection, IsInjective
  <2>4. IsFiniteSet(0 .. nextId)
    BY <2>1, FS_Interval
  <2> QED BY <2>3, <2>4, FS_Injection
<1> QED BY <1>1, <1>2, <1>3 DEF Table

\* A set of naturals that is not empty has a least element.
LEMMA Least ==
  ASSUME NEW some \in SUBSET Nat, some # {}
  PROVE  \E n \in some : \A m \in some : n <= m
<1> DEFINE R == OpToRel(<, Nat)
<1>1. IsWellFoundedOn(R, Nat)
  BY NatLessThanWellFounded
<1>2. \A m, n \in some : <<m, n>> \in R <=> m < n
  BY DEF OpToRel
<1> HIDE DEF R
<1>3. PICK n \in some : \A m \in some : ~ (<<m, n>> \in R)
  BY <1>1, WFMin
<1>4. \A m \in some : ~ (m < n)
  BY <1>2, <1>3
<1>5. \A m \in some : n <= m
  BY <1>4
<1> QED BY <1>5

\* In the order of the messages the answer of a turn comes right behind its
\* question, unless another turn shares its instant.
LEMMA AnswerFollows ==
  ASSUME M!TypeOK, MessageIds,
         NEW t \in Turns, phase[t] = "committed", M!Alone(t),
         NEW i \in 1 .. Len(Ascending(M!Messages)),
         Ascending(M!Messages)[i] = RowOf(t, "user")
  PROVE  /\ i + 1 \in 1 .. Len(Ascending(M!Messages))
         /\ Ascending(M!Messages)[i + 1] = RowOf(t, "assistant")
<1> DEFINE s == Ascending(M!Messages)
<1>1. Table(M!Messages)
  BY MessagesTable
<1>2. /\ s \in Seq(M!Messages) /\ Len(s) \in Nat
      /\ \A j, k \in 1 .. Len(s) : j < k => Precedes(s[j], s[k])
      /\ \A r \in M!Messages : \E j \in 1 .. Len(s) : s[j] = r
  BY <1>1, AscendingSorts
<1>8. i \in 1 .. Len(s) /\ s[i] = RowOf(t, "user")
  OBVIOUS
<1> HIDE DEF s
<1>3. RowOf(t, "user") \in M!Messages /\ RowOf(t, "assistant") \in M!Messages
  BY MessageRows DEF M!Role
<1>4. PICK j \in 1 .. Len(s) : s[j] = RowOf(t, "assistant")
  BY <1>2, <1>3
<1>5. IsRow(RowOf(t, "user")) /\ IsRow(RowOf(t, "assistant"))
  BY <1>1, <1>3 DEF Table
<1>6. Precedes(RowOf(t, "user"), RowOf(t, "assistant"))
  BY DEF Precedes, RowOf, MessageIds, Inserted
<1>7. RowOf(t, "user") # RowOf(t, "assistant")
  BY DEF RowOf
<1>9. i < j
  <2>1. i # j
    BY <1>4, <1>7, <1>8
  <2>2. ~ (j < i)
    <3>1. j < i => Precedes(RowOf(t, "assistant"), RowOf(t, "user"))
      BY <1>2, <1>4, <1>8
    <3> QED BY <1>5, <1>6, <3>1, OrderStrict
  <2> QED BY <1>2, <1>4, <1>8, <2>1, <2>2
<1>10. i + 1 = j
  <2> SUFFICES ASSUME i + 1 < j PROVE FALSE
    BY <1>2, <1>9
  <2>1. i + 1 \in 1 .. Len(s) /\ i < i + 1
    BY <1>2
  <2>2. Precedes(s[i], s[i + 1]) /\ Precedes(s[i + 1], s[j]) /\ s[i + 1] \in M!Messages
    <3>1. Precedes(s[i], s[i + 1])
      BY <1>2, <1>8, <2>1
    <3>2. Precedes(s[i + 1], s[j])
      BY <1>2, <2>1
    <3> QED BY <1>2, <2>1, <3>1, <3>2
  <2>3. PICK u \in Turns, r \in M!Role : phase[u] = "committed" /\ s[i + 1] = RowOf(u, r)
    BY <2>2, MessageRows
  <2>4. at[t] \in Nat /\ at[u] \in Nat
    BY Limits DEF M!TypeOK
  <2>5. at[t] = at[u]
    BY <1>4, <1>8, <2>2, <2>3, <2>4 DEF Precedes, RowOf
  <2>6. t = u
    BY <2>3, <2>5 DEF M!Alone, M!Committed
  <2>7. s[i + 1] = RowOf(t, "user") \/ s[i + 1] = RowOf(t, "assistant")
    BY <2>3, <2>6 DEF M!Role
  <2> QED BY <1>4, <1>5, <1>8, <2>2, <2>7, OrderStrict
<1> QED BY <1>4, <1>10 DEF s

\* Questions stand at the odd places, if no two turns share an instant.
LEMMA QuestionsAreOdd ==
  ASSUME M!TypeOK, MessageIds, \A t \in M!Committed : M!Alone(t)
  PROVE  LET s == Ascending(M!Messages) IN
         \A n \in 1 .. Len(s) : s[n].role = "user" <=> n % 2 = 1
<1> DEFINE s == Ascending(M!Messages)
           wrong == {n \in 1 .. Len(s) : ~ (s[n].role = "user" <=> n % 2 = 1)}
<1>1. Table(M!Messages)
  BY MessagesTable
<1>2. /\ s \in Seq(M!Messages) /\ Len(s) \in Nat
      /\ \A j, k \in 1 .. Len(s) : j < k => Precedes(s[j], s[k])
      /\ \A r \in M!Messages : \E j \in 1 .. Len(s) : s[j] = r
  BY <1>1, AscendingSorts
<1>3. \A j \in 1 .. Len(s) : s[j] \in M!Messages
  BY <1>2
<1>4. ASSUME NEW t \in Turns, phase[t] = "committed", NEW i \in 1 .. Len(s),
             s[i] = RowOf(t, "user")
      PROVE  i + 1 \in 1 .. Len(s) /\ s[i + 1] = RowOf(t, "assistant")
  BY <1>4, AnswerFollows DEF M!Committed
<1> HIDE DEF s
<1>5. ASSUME NEW n \in 1 .. Len(s), s[n].role # "user"
      PROVE  n - 1 \in 1 .. Len(s) /\ s[n - 1].role = "user"
  <2>1. PICK t \in Turns, r \in M!Role : phase[t] = "committed" /\ s[n] = RowOf(t, r)
    BY <1>3, MessageRows
  <2>2. s[n] = RowOf(t, "assistant")
    BY <1>5, <2>1 DEF M!Role, RowOf
  <2>3. RowOf(t, "user") \in M!Messages
    BY <2>1, MessageRows DEF M!Role
  <2>4. PICK i \in 1 .. Len(s) : s[i] = RowOf(t, "user")
    BY <1>2, <2>3
  <2>5. i + 1 \in 1 .. Len(s) /\ s[i + 1] = s[n]
    BY <1>4, <2>1, <2>2, <2>4
  <2>6. \A j, k \in 1 .. Len(s) : s[j] = s[k] => ~ (j < k)
    BY <1>1, <1>2, <1>3, OrderStrict DEF Table
  <2>7. i + 1 = n
    BY <1>2, <2>5, <2>6
  <2>8. n - 1 = i
    BY <1>2, <2>7
  <2>9. s[i].role = "user"
    BY <2>4 DEF RowOf
  <2> QED BY <2>8, <2>9
<1>6. ASSUME NEW n \in 1 .. Len(s), s[n].role = "user"
      PROVE  n + 1 \in 1 .. Len(s) /\ s[n + 1].role # "user"
  <2>1. PICK t \in Turns, r \in M!Role : phase[t] = "committed" /\ s[n] = RowOf(t, r)
    BY <1>3, MessageRows
  <2>2. s[n] = RowOf(t, "user")
    BY <1>6, <2>1 DEF RowOf
  <2>3. n + 1 \in 1 .. Len(s) /\ s[n + 1] = RowOf(t, "assistant")
    BY <1>4, <2>1, <2>2
  <2>4. RowOf(t, "assistant").role = "assistant"
    BY DEF RowOf
  <2> QED BY <2>3, <2>4
<1>7. SUFFICES ASSUME wrong # {} PROVE FALSE
  BY DEF s
<1>8. wrong \in SUBSET Nat
  BY <1>2
<1>9. PICK n \in wrong : \A m \in wrong : n <= m
  BY <1>7, <1>8, Least
<1>10. n \in 1 .. Len(s) /\ ~ (s[n].role = "user" <=> n % 2 = 1)
  OBVIOUS
<1>11. n - 1 \notin wrong
  <2> HIDE DEF wrong
  <2>1. n \in Nat
    BY <1>8
  <2>2. ~ (n <= n - 1)
    BY <2>1
  <2> QED BY <1>9, <2>2
<1>12. CASE s[n].role = "user"
  <2>1. n - 1 \in 1 .. Len(s) /\ (n - 1) % 2 = 1
    <3>1. n \in Nat /\ n >= 1 /\ n <= Len(s) /\ n % 2 # 1
      BY <1>2, <1>10, <1>12
    <3>2. n # 1
      BY <3>1
    <3>3. (n - 1) % 2 = 1
      BY <3>1, <3>2
    <3>4. n - 1 \in 1 .. Len(s)
      <4> HIDE DEF wrong
      <4>1. n \in Nat /\ Len(s) \in Nat /\ n >= 2 /\ n <= Len(s)
        BY <1>2, <3>1, <3>2
      <4> QED BY <4>1
    <3> QED BY <3>3, <3>4
  <2>2. s[n - 1].role = "user"
    BY <1>11, <2>1
  <2>3. s[n - 1 + 1].role # "user"
    BY <1>6, <2>1, <2>2
  <2> QED BY <1>2, <1>12, <2>3
<1>13. CASE s[n].role # "user"
  <2>1. n - 1 \in 1 .. Len(s) /\ s[n - 1].role = "user"
    BY <1>5, <1>10, <1>13
  <2>2. (n - 1) % 2 = 1
    BY <1>11, <2>1
  <2>3. n \in Nat /\ n % 2 = 1
    BY <1>2, <1>10, <1>13
  <2> QED BY <2>2, <2>3
<1> QED BY <1>12, <1>13

\* Then the history is a list of turns, and so is what of it goes into a prompt.
LEMMA TurnsArePaired ==
  ASSUME M!TypeOK, MessageIds, \A t \in M!Committed : M!Alone(t)
  PROVE  M!Paired(M!Ascending(M!Messages)) /\ M!Paired(M!LoadRecentMessages)
<1> DEFINE s == Ascending(M!Messages)
           m == IF Len(s) < 4 THEN 1 ELSE Len(s) - 4 + 1
           p == SubSeq(s, m, Len(s))
<1>1. Table(M!Messages)
  BY MessagesTable
<1>2. s \in Seq(M!Messages) /\ Len(s) \in Nat
  BY <1>1, AscendingSorts
<1>3. \A n \in 1 .. Len(s) : s[n].role = "user" <=> n % 2 = 1
  BY QuestionsAreOdd
<1>4. ASSUME NEW n \in 1 .. Len(s), n % 2 = 1
      PROVE  /\ n + 1 \in 1 .. Len(s) /\ s[n].role = "user"
             /\ s[n + 1].role = "assistant" /\ s[n].turn = s[n + 1].turn
  <2>1. s[n] \in M!Messages /\ s[n].role = "user"
    BY <1>2, <1>3, <1>4
  <2>2. PICK t \in Turns, r \in M!Role : phase[t] = "committed" /\ s[n] = RowOf(t, r)
    BY <2>1, MessageRows
  <2>3. s[n] = RowOf(t, "user")
    BY <2>1, <2>2 DEF RowOf
  <2>4. n + 1 \in 1 .. Len(s) /\ s[n + 1] = RowOf(t, "assistant")
    BY <2>2, <2>3, AnswerFollows DEF M!Committed
  <2> QED BY <2>1, <2>3, <2>4 DEF RowOf
<1>5. M!Ascending(M!Messages) = s /\ M!LoadRecentMessages = p
  <2>1. {r \in M!Messages : \A c \in {} : Precedes(r, c)} = M!Messages
    OBVIOUS
  <2>2. PageBefore(M!Messages, {}, 4) = p
    BY <2>1 DEF PageBefore
  <2> QED BY <2>2, SameOrder DEF M!LoadRecentMessages, M!HISTORY_MESSAGE_LIMIT
<1> HIDE DEF s
<1>6. Len(s) % 2 = 0
  <2> SUFFICES ASSUME Len(s) % 2 # 0 PROVE FALSE
    OBVIOUS
  <2>1. Len(s) \in 1 .. Len(s) /\ Len(s) % 2 = 1
    BY <1>2
  <2>2. Len(s) + 1 \in 1 .. Len(s)
    BY <1>4, <2>1
  <2> QED BY <1>2, <2>2
<1>7. M!Paired(s)
  <2>1. ASSUME NEW n \in 1 .. Len(s) \div 2
        PROVE  /\ s[2 * n - 1].role = "user" /\ s[2 * n].role = "assistant"
               /\ s[2 * n - 1].turn = s[2 * n].turn
    <3>1. 2 * n - 1 \in 1 .. Len(s) /\ (2 * n - 1) % 2 = 1 /\ 2 * n - 1 + 1 = 2 * n
      BY <1>2
    <3> QED BY <1>4, <3>1
  <2> QED BY <1>6, <2>1 DEF M!Paired
<1>8. m \in 1 .. Len(s) + 1 /\ m % 2 = 1
  <2>1. PICK k \in Nat : Len(s) = 2 * k
    BY <1>2, <1>6
  <2>2. CASE Len(s) < 4
    BY <1>2, <2>2
  <2>3. CASE Len(s) >= 4
    <3>1. m = 2 * (k - 2) + 1 /\ k >= 2
      BY <1>2, <2>1, <2>3
    <3> HIDE DEF m
    <3>2. PICK j \in Nat : m = 2 * j + 1 /\ j = k - 2
      BY <3>1
    <3>3. m % 2 = 1
      BY <3>2
    <3>4. m \in 1 .. Len(s) + 1
      BY <2>1, <3>2
    <3> QED BY <3>3, <3>4
  <2>4. Len(s) < 4 \/ Len(s) >= 4
    BY <1>2
  <2> HIDE DEF m
  <2> QED BY <2>2, <2>3, <2>4
<1> HIDE DEF m
<1>9. /\ Len(p) = Len(s) - m + 1
      /\ \A i \in 1 .. Len(p) : p[i] = s[m + i - 1]
  <2>1. \A i \in m .. Len(s) : s[i] \in M!Messages
    BY <1>2, <1>8
  <2>2. /\ SubSeq(s, m, Len(s)) \in Seq(M!Messages)
        /\ Len(SubSeq(s, m, Len(s))) = IF m <= Len(s) THEN Len(s) - m + 1 ELSE 0
        /\ \A i \in 1 .. Len(s) - m + 1 : SubSeq(s, m, Len(s))[i] = s[m + i - 1]
    BY <1>2, <1>8, <2>1, SubSeqProperties
  <2> QED BY <1>2, <1>8, <2>2
<1> HIDE DEF p
<1>10. M!Paired(p)
  <2>1. Len(p) % 2 = 0
    <3>1. PICK k \in Nat, j \in Nat : Len(s) = 2 * k /\ m = 2 * j + 1
      <4>1. Len(s) = 2 * (Len(s) \div 2) /\ m = 2 * (m \div 2) + 1
        BY <1>2, <1>6, <1>8
      <4> QED BY <1>2, <1>8, <4>1
    <3>2. Len(p) = 2 * (k - j)
      BY <1>9, <3>1
    <3> QED BY <3>1, <3>2
  <2>2. ASSUME NEW n \in 1 .. Len(p) \div 2
        PROVE  /\ p[2 * n - 1].role = "user" /\ p[2 * n].role = "assistant"
               /\ p[2 * n - 1].turn = p[2 * n].turn
    <3> DEFINE k == m + (2 * n - 1) - 1
    <3>1. /\ 2 * n - 1 \in 1 .. Len(p) /\ 2 * n \in 1 .. Len(p)
          /\ k \in 1 .. Len(s) /\ k % 2 = 1 /\ m + 2 * n - 1 = k + 1
      BY <1>2, <1>8, <1>9
    <3>2. p[2 * n - 1] = s[k] /\ p[2 * n] = s[k + 1]
      BY <1>9, <3>1
    <3> QED BY <1>4, <3>1, <3>2
  <2> QED BY <2>1, <2>2 DEF M!Paired
<1> QED BY <1>5, <1>7, <1>10

\* What the invariant says of the order of the messages is all HistoryPaired needs.
LEMMA AnswersFollow ==
  ASSUME M!TypeOK, MessageIds
  PROVE  M!HistoryPaired
<1>1. ASSUME NEW t \in M!Committed, M!Alone(t),
             NEW n \in DOMAIN Ascending(M!Messages),
             Ascending(M!Messages)[n].turn = t, Ascending(M!Messages)[n].role = "user"
      PROVE  /\ n < Len(Ascending(M!Messages))
             /\ Ascending(M!Messages)[n + 1].turn = t
             /\ Ascending(M!Messages)[n + 1].role = "assistant"
  <2>1. /\ Ascending(M!Messages) \in Seq(M!Messages)
        /\ Len(Ascending(M!Messages)) \in Nat
    BY MessagesTable, AscendingSorts
  <2>2. n \in 1 .. Len(Ascending(M!Messages)) /\ Ascending(M!Messages)[n] \in M!Messages
    BY <2>1
  <2>3. PICK u \in Turns, r \in M!Role :
          phase[u] = "committed" /\ Ascending(M!Messages)[n] = RowOf(u, r)
    BY <2>2, MessageRows
  <2>4. t \in Turns /\ phase[t] = "committed" /\ Ascending(M!Messages)[n] = RowOf(t, "user")
    BY <1>1, <2>3 DEF RowOf
  <2>5. /\ n + 1 \in 1 .. Len(Ascending(M!Messages))
        /\ Ascending(M!Messages)[n + 1] = RowOf(t, "assistant")
    BY <1>1, <2>2, <2>4, AnswerFollows
  <2> QED BY <2>1, <2>2, <2>5 DEF RowOf
<1>2. M!Ascending(M!Messages) = Ascending(M!Messages)
  BY SameOrder
<1> QED BY <1>1, <1>2, TurnsArePaired DEF M!HistoryPaired

-----------------------------------------------------------------------------
(***************************************************************************)
(* A page is shown.                                                        *)
(***************************************************************************)

\* What a page adds to the pages that were shown.
LEMMA Shows ==
  ASSUME NEW T, NEW pages \in Seq(Seq(T)), NEW p \in Seq(T)
  PROVE  /\ Append(pages, p) \in Seq(Seq(T)) /\ Append(pages, p) # <<>>
         /\ Len(pages) \in Nat /\ Len(Append(pages, p)) = Len(pages) + 1
         /\ DOMAIN pages = 1 .. Len(pages)
         /\ DOMAIN Append(pages, p) = 1 .. Len(pages) + 1
         /\ \A i \in 1 .. Len(pages) : Append(pages, p)[i] = pages[i] /\ pages[i] \in Seq(T)
         /\ Append(pages, p)[Len(pages) + 1] = p
<1>1. /\ Append(pages, p) \in Seq(Seq(T))
      /\ Len(pages) \in Nat /\ Len(Append(pages, p)) = Len(pages) + 1
  OBVIOUS
<1>2. /\ \A i \in 1 .. Len(pages) : Append(pages, p)[i] = pages[i] /\ pages[i] \in Seq(T)
      /\ Append(pages, p)[Len(pages) + 1] = p
  OBVIOUS
<1>3. DOMAIN pages = 1 .. Len(pages) /\ DOMAIN Append(pages, p) = 1 .. Len(pages) + 1
  BY <1>1
<1>4. Append(pages, p) # <<>>
  <2>1. Len(Append(pages, p)) # 0 /\ Len(<<>>) = 0
    BY <1>1
  <2> QED BY <2>1
<1> QED BY <1>1, <1>2, <1>3, <1>4

ShownOn(pages) == UNION {{pages[n][i] : i \in DOMAIN pages[n]} : n \in DOMAIN pages}

LEMMA ShownAfter ==
  ASSUME NEW T, NEW pages \in Seq(Seq(T)), NEW p \in Seq(T)
  PROVE  /\ \A x : x \in ShownOn(Append(pages, p)) <=>
                 x \in ShownOn(pages) \/ \E i \in 1 .. Len(p) : x = p[i]
         /\ ShownOn(pages) \subseteq T
<1>1. DOMAIN p = 1 .. Len(p)
  OBVIOUS
<1>2. \A i \in 1 .. Len(pages) : pages[i] \in Seq(T) /\ DOMAIN pages[i] = 1 .. Len(pages[i])
  OBVIOUS
<1>3. \A x : x \in ShownOn(Append(pages, p)) =>
               x \in ShownOn(pages) \/ \E i \in 1 .. Len(p) : x = p[i]
  <2> SUFFICES ASSUME NEW x \in ShownOn(Append(pages, p))
               PROVE  x \in ShownOn(pages) \/ \E i \in 1 .. Len(p) : x = p[i]
    OBVIOUS
  <2>1. PICK n \in 1 .. Len(pages) + 1 :
          \E i \in DOMAIN Append(pages, p)[n] : x = Append(pages, p)[n][i]
    BY Shows DEF ShownOn
  <2>2. CASE n = Len(pages) + 1
    BY <1>1, <2>1, <2>2, Shows
  <2>3. CASE n # Len(pages) + 1
    <3>1. n \in DOMAIN pages /\ Append(pages, p)[n] = pages[n]
      BY <2>3, Shows
    <3> QED BY <2>1, <3>1 DEF ShownOn
  <2> QED BY <2>2, <2>3
<1>4. \A x : x \in ShownOn(pages) => x \in ShownOn(Append(pages, p))
  <2> SUFFICES ASSUME NEW x \in ShownOn(pages) PROVE x \in ShownOn(Append(pages, p))
    OBVIOUS
  <2>1. PICK n \in DOMAIN pages : \E i \in DOMAIN pages[n] : x = pages[n][i]
    BY DEF ShownOn
  <2>2. n \in DOMAIN Append(pages, p) /\ Append(pages, p)[n] = pages[n]
    BY Shows
  <2> QED BY <2>1, <2>2 DEF ShownOn
<1>5. \A i \in 1 .. Len(p) : p[i] \in ShownOn(Append(pages, p))
  <2>1. Len(pages) + 1 \in DOMAIN Append(pages, p) /\ Append(pages, p)[Len(pages) + 1] = p
    BY Shows
  <2> QED BY <1>1, <2>1 DEF ShownOn
<1>6. ShownOn(pages) \subseteq T
  BY <1>2, Shows DEF ShownOn
<1> QED BY <1>3, <1>4, <1>5, <1>6

LEMMA ShownIs ==
  M!Shown = ShownOn(scroll.pages) /\ S!Shown = ShownOn(sScroll.pages)
BY DEF M!Shown, M!ToSet, S!Shown, S!PageSet, S!ToSet, ShownOn

-----------------------------------------------------------------------------
(***************************************************************************)
(* The invariant of the message pages is kept.                             *)
(***************************************************************************)

LEMMA MessageStart ==
  ASSUME M!Init
  PROVE  MessageInv
<1>1. /\ scroll = [pages |-> <<>>, cursors |-> {}, more |-> TRUE]
      /\ known = {} /\ \A t \in Turns : phase[t] = "idle"
  BY DEF M!Init
<1>2. DOMAIN scroll.pages = {}
  BY <1>1
<1>3. <<>> \in Seq(Seq(M!Message))
  OBVIOUS
<1>4. M!TypeOK
  BY <1>1, <1>3, Limits DEF M!Init, M!TypeOK, M!Role
<1>5. MessageIds
  BY <1>1 DEF MessageIds, Inserted, M!Role
<1>6. MessagesStay /\ MessageCursor /\ MessagesAhead
  BY <1>1 DEF MessagesStay, MessageCursor, MessagesAhead
<1>7. M!ForwardRepeatsSameMilli
  BY <1>2 DEF M!ForwardRepeatsSameMilli
<1> QED BY <1>4, <1>5, <1>6, <1>7 DEF MessageInv

Writes(t) == M!Begin(t) \/ M!InsertUser(t) \/ M!InsertAssistant(t) \/ M!Commit(t) \/ M!Abort(t)

LEMMA WriterTypes ==
  ASSUME M!TypeOK, NEW t \in Turns, Writes(t)
  PROVE  M!TypeOK'
<1>1. CASE M!Begin(t)
  BY <1>1, Limits DEF M!TypeOK, M!Begin, M!Advance
<1>2. CASE M!InsertUser(t)
  BY <1>2 DEF M!TypeOK, M!InsertUser, M!InsertMessage, M!Advance, M!Role
<1>3. CASE M!InsertAssistant(t)
  BY <1>3 DEF M!TypeOK, M!InsertAssistant, M!InsertMessage, M!Advance, M!Role
<1>4. CASE M!Commit(t)
  BY <1>4 DEF M!TypeOK, M!Commit, M!Advance
<1>5. CASE M!Abort(t)
  BY <1>5 DEF M!TypeOK, M!Abort
<1> QED BY <1>1, <1>2, <1>3, <1>4, <1>5 DEF Writes

LEMMA WriterIds ==
  ASSUME M!TypeOK, MessageIds, NEW t \in Turns, Writes(t)
  PROVE  MessageIds'
<1>1. CASE M!Begin(t)
  BY <1>1 DEF M!TypeOK, MessageIds, Inserted, M!Begin, M!Advance, M!Role
<1>2. CASE M!InsertUser(t)
  BY <1>2 DEF M!TypeOK, MessageIds, Inserted, M!InsertUser, M!InsertMessage, M!Advance, M!Role
<1>3. CASE M!InsertAssistant(t)
  BY <1>3 DEF M!TypeOK, MessageIds, Inserted, M!InsertAssistant, M!InsertMessage, M!Advance, M!Role
<1>4. CASE M!Commit(t)
  BY <1>4 DEF M!TypeOK, MessageIds, Inserted, M!Commit, M!Advance, M!Role
<1>5. CASE M!Abort(t)
  BY <1>5 DEF M!TypeOK, MessageIds, Inserted, M!Abort, M!Role
<1> QED BY <1>1, <1>2, <1>3, <1>4, <1>5 DEF Writes

LEMMA WriterAdds ==
  ASSUME M!TypeOK, NEW t \in Turns, Writes(t)
  PROVE  M!Messages \subseteq M!Messages' /\ UNCHANGED <<scroll, known>>
<1>1. /\ UNCHANGED <<scroll, known>> /\ phase[t] # "committed"
      /\ \A u \in Turns \ {t} : phase'[u] = phase[u] /\ ids'[u] = ids[u] /\ at'[u] = at[u]
  BY DEF Writes, M!Begin, M!InsertUser, M!InsertAssistant, M!InsertMessage, M!Commit, M!Abort,
         M!Advance, M!TypeOK
<1>2. ASSUME NEW x \in M!Messages
      PROVE  x \in M!Messages'
  <2>1. PICK u \in Turns, r \in M!Role : phase[u] = "committed" /\ x = RowOf(u, r)
    BY MessageRows
  <2>2. phase'[u] = "committed" /\ x = RowOf(u, r)'
    BY <1>1, <2>1 DEF RowOf
  <2>3. \A y : y \in M!Messages' <=>
          \E v \in Turns, q \in M!Role' : phase'[v] = "committed" /\ y = RowOf(v, q)'
    BY DEF M!Messages, M!Committed, M!MessagesOf, M!Role, RowOf
  <2> QED BY <2>1, <2>2, <2>3 DEF M!Role
<1> QED BY <1>1, <1>2

LEMMA WriterKeeps ==
  ASSUME MessageInv, NEW t \in Turns, Writes(t)
  PROVE  MessageInv'
<1>1. M!TypeOK' /\ MessageIds'
  BY WriterTypes, WriterIds DEF MessageInv
<1>2. M!Messages \subseteq M!Messages' /\ scroll' = scroll /\ known' = known
  BY WriterAdds DEF MessageInv
<1>3. MessagesStay'
  BY <1>2 DEF MessageInv, MessagesStay
<1>4. M!Shown' = M!Shown
  BY <1>2 DEF M!Shown
<1>5. MessageCursor' /\ MessagesAhead'
  BY <1>2, <1>4 DEF MessageInv, MessageCursor, MessagesAhead
<1>6. M!ForwardRepeatsSameMilli'
  BY <1>2 DEF MessageInv, M!ForwardRepeatsSameMilli
<1> QED BY <1>1, <1>3, <1>5, <1>6 DEF MessageInv

LEMMA MessageIsRow ==
  ASSUME NEW m \in M!Message
  PROVE  IsRow(m) /\ m.at \in 0 .. MaxMessageTime
BY Limits DEF M!Message, IsRow

\* Where a scroll stands, the rows it goes on with come later.
LEMMA MessagePage ==
  ASSUME MessageInv, M!FetchPage
  PROVE  /\ M!Page \in Seq(Follows(M!Messages, scroll.cursors)) /\ InOrder(M!Page)
         /\ M!Page \in Seq(M!Message) /\ scroll.pages \in Seq(Seq(M!Message))
         /\ \A r \in Follows(M!Messages, scroll.cursors) :
              \/ \E i \in 1 .. Len(M!Page) : M!Page[i] = r
              \/ /\ Len(M!Page) = MessageLimit
                 /\ \A i \in 1 .. Len(M!Page) : Precedes(M!Page[i], r)
         /\ scroll.more
         /\ scroll' = [pages |-> Append(scroll.pages, M!Page),
                       cursors |-> IF M!Page = <<>> THEN {}
                                   ELSE {Cursor(M!Page[Len(M!Page)])},
                       more |-> Len(M!Page) = MessageLimit]
         /\ known' = IF scroll.pages = <<>> THEN M!Messages ELSE known
         /\ M!Messages' = M!Messages /\ UNCHANGED <<clock, nextId, phase, at, ids>>
<1>1. Table(M!Messages) /\ M!Messages \subseteq M!Message
  BY MessagesTable DEF MessageInv
<1>2. M!Page = PageAfter(M!Messages, scroll.cursors, MessageLimit)
  BY SameOrder DEF M!Page
<1>3. /\ M!Page \in Seq(Follows(M!Messages, scroll.cursors)) /\ InOrder(M!Page)
      /\ \A r \in Follows(M!Messages, scroll.cursors) :
           \/ \E i \in 1 .. Len(M!Page) : M!Page[i] = r
           \/ /\ Len(M!Page) = MessageLimit
              /\ \A i \in 1 .. Len(M!Page) : Precedes(M!Page[i], r)
  BY <1>1, <1>2, Limits, PageAfterIsFirst
<1>4. Follows(M!Messages, scroll.cursors) \subseteq M!Message
  BY <1>1 DEF Follows
<1>5. M!Page \in Seq(M!Message)
  BY <1>3, <1>4
<1>6. scroll.pages \in Seq(Seq(M!Message))
  BY DEF MessageInv, M!TypeOK
<1>7. UNCHANGED <<clock, nextId, phase, at, ids>>
  BY DEF M!FetchPage, M!writerVars
<1>8. M!Messages' = M!Messages
  BY <1>7 DEF M!Messages, M!Committed, M!MessagesOf
<1>9. /\ scroll.more
      /\ scroll' = [pages |-> Append(scroll.pages, M!Page),
                    cursors |-> IF M!Page = <<>> THEN {}
                                ELSE {Cursor(M!Page[Len(M!Page)])},
                    more |-> Len(M!Page) = MessageLimit]
      /\ known' = IF scroll.pages = <<>> THEN M!Messages ELSE known
  BY SameOrder DEF M!FetchPage
<1> QED BY <1>3, <1>5, <1>6, <1>7, <1>8, <1>9

LEMMA ReaderKeeps ==
  ASSUME MessageInv, M!FetchPage
  PROVE  MessageInv'
<1> DEFINE p == M!Page
           pages == scroll.pages
           n == Len(pages)
<1>1. /\ p \in Seq(Follows(M!Messages, scroll.cursors)) /\ InOrder(p)
      /\ p \in Seq(M!Message) /\ pages \in Seq(Seq(M!Message))
      /\ scroll.more
      /\ M!Messages' = M!Messages /\ UNCHANGED <<clock, nextId, phase, at, ids>>
      /\ known' = IF pages = <<>> THEN M!Messages ELSE known
  BY MessagePage
<1>2. \A r \in Follows(M!Messages, scroll.cursors) :
        \/ \E i \in 1 .. Len(p) : p[i] = r
        \/ Len(p) = MessageLimit /\ \A i \in 1 .. Len(p) : Precedes(p[i], r)
  BY MessagePage
<1>3. scroll' = [pages |-> Append(pages, p),
                 cursors |-> IF p = <<>> THEN {} ELSE {Cursor(p[Len(p)])},
                 more |-> Len(p) = MessageLimit]
  BY MessagePage
<1> HIDE DEF p
<1>4. /\ scroll'.pages = Append(pages, p)
      /\ scroll'.cursors = IF p = <<>> THEN {} ELSE {Cursor(p[Len(p)])}
      /\ scroll'.more = (Len(p) = MessageLimit)
  BY <1>3
<1>5. /\ Append(pages, p) \in Seq(Seq(M!Message)) /\ Append(pages, p) # <<>>
      /\ n \in Nat /\ Len(Append(pages, p)) = n + 1
      /\ DOMAIN pages = 1 .. n /\ DOMAIN Append(pages, p) = 1 .. n + 1
      /\ \A i \in 1 .. n : Append(pages, p)[i] = pages[i] /\ pages[i] \in Seq(M!Message)
      /\ Append(pages, p)[n + 1] = p
  <2>1. pages \in Seq(Seq(M!Message)) /\ p \in Seq(M!Message)
    BY <1>1
  <2> HIDE DEF pages
  <2> QED BY <2>1, Shows
<1>6. /\ \A x : x \in M!Shown' <=> x \in M!Shown \/ \E i \in 1 .. Len(p) : x = p[i]
      /\ M!Shown \subseteq M!Message
  <2>1. M!Shown' = ShownOn(Append(pages, p)) /\ M!Shown = ShownOn(pages)
    BY <1>4 DEF M!Shown, M!ToSet, ShownOn
  <2> QED BY <1>1, <2>1, ShownAfter
<1>7. /\ Len(p) \in Nat /\ (p # <<>> => Len(p) \in 1 .. Len(p))
      /\ \A i \in 1 .. Len(p) : /\ p[i] \in M!Message /\ IsRow(p[i])
                                /\ p[i] \in M!Messages
                                /\ \A c \in scroll.cursors : Precedes(c, p[i])
  BY <1>1, MessageIsRow DEF Follows
<1>8. ASSUME pages # <<>>
      PROVE  /\ n \in 1 .. n /\ pages[n] # <<>>
             /\ scroll.cursors = {Cursor(Newest(pages))}
             /\ Newest(pages) \in M!Message /\ IsRow(Newest(pages))
             /\ Newest(pages) = M!Last(pages[n])
             /\ \A m \in M!Shown : m.at \div Milli <= Newest(pages).at \div Milli
  <2>1. /\ pages[n] # <<>> /\ scroll.cursors = {Cursor(Newest(pages))}
        /\ \A m \in M!Shown : m.at \div Milli <= Newest(pages).at \div Milli
    BY <1>1, <1>8 DEF MessageInv, MessageCursor
  <2>2. n \in 1 .. n
    BY <1>1, <1>8
  <2>3. pages[n] \in Seq(M!Message)
    BY <1>5, <2>2
  <2>4. pages[n][Len(pages[n])] \in M!Message
    BY <2>1, <2>3
  <2> QED BY <2>1, <2>2, <2>4, MessageIsRow DEF Newest, M!Last
<1>9. pages = <<>> => M!Shown = {} /\ scroll.cursors = {}
  <2>1. pages = <<>> => DOMAIN pages = {}
    BY <1>5
  <2> QED BY <2>1 DEF M!Shown, MessageInv, MessageCursor
<1>10. M!TypeOK'
  <2>1. scroll'.cursors \in SUBSET [at : 0 .. MaxMessageTime, id : Nat]
    <3>1. ASSUME p # <<>>
          PROVE  Cursor(p[Len(p)]) \in [at : 0 .. MaxMessageTime, id : Nat]
      <4>1. p[Len(p)] \in M!Message /\ IsRow(p[Len(p)])
        BY <1>7, <3>1
      <4>2. /\ Cursor(p[Len(p)]).at \in Nat /\ Cursor(p[Len(p)]).id \in Nat
            /\ Cursor(p[Len(p)]).at <= p[Len(p)].at /\ p[Len(p)].at \in 0 .. MaxMessageTime
        BY <4>1, CursorOf, MessageIsRow DEF IsRow
      <4>3. Cursor(p[Len(p)]).at \in 0 .. MaxMessageTime
        BY <4>2, Limits
      <4> QED BY <4>2, <4>3 DEF Cursor
    <3> QED BY <1>4, <3>1
  <2>2. known' \subseteq M!Message
    BY <1>1, MessagesTable DEF MessageInv, M!TypeOK
  <2>3. scroll' \in [pages : Seq(Seq(M!Message)),
                     cursors : SUBSET [at : 0 .. MaxMessageTime, id : Nat], more : BOOLEAN]
    BY <1>3, <1>4, <1>5, <2>1
  <2> QED BY <1>1, <2>2, <2>3 DEF MessageInv, M!TypeOK
<1>11. MessageIds'
  BY <1>1 DEF MessageInv, MessageIds, Inserted, M!Role
<1>12. MessagesStay'
  BY <1>1 DEF MessageInv, MessagesStay
<1>13. ASSUME Len(p) = MessageLimit
       PROVE  /\ Len(p) \in 1 .. Len(p) /\ p # <<>> /\ Newest(Append(pages, p)) = p[Len(p)]
              /\ \A m \in M!Shown' : m.at \div Milli <= p[Len(p)].at \div Milli
  <2>1. Len(p) \in 1 .. Len(p) /\ p # <<>>
    BY <1>7, <1>13, Limits
  <2>2. Newest(Append(pages, p)) = p[Len(p)]
    BY <1>5 DEF Newest
  <2>3. ASSUME NEW m \in M!Shown
        PROVE  m.at \div Milli <= p[Len(p)].at \div Milli
    <3>1. pages # <<>> /\ IsRow(m) /\ IsRow(p[Len(p)])
      BY <1>6, <1>7, <1>9, <2>1, MessageIsRow
    <3>2. Precedes(Cursor(Newest(pages)), p[Len(p)])
      BY <1>7, <1>8, <2>1, <3>1
    <3>3. Newest(pages).at \div Milli <= p[Len(p)].at \div Milli
      BY <1>8, <3>1, <3>2, MilliOrder
    <3>4. m.at \div Milli <= Newest(pages).at \div Milli
      BY <1>8, <3>1
    <3>5. /\ m.at \div Milli \in Nat /\ Newest(pages).at \div Milli \in Nat
          /\ p[Len(p)].at \div Milli \in Nat
      BY <1>8, <3>1, MilliOrder
    <3> QED BY <3>3, <3>4, <3>5
  <2>4. ASSUME NEW i \in 1 .. Len(p)
        PROVE  p[i].at \div Milli <= p[Len(p)].at \div Milli
    <3>1. IsRow(p[i]) /\ IsRow(p[Len(p)])
      BY <1>7, <2>1
    <3>2. i = Len(p) \/ Precedes(p[i], p[Len(p)])
      BY <1>1, <1>7, <2>1 DEF InOrder
    <3> QED BY <3>1, <3>2, MilliOrder
  <2> QED BY <1>6, <2>1, <2>2, <2>3, <2>4
<1>14. MessageCursor'
  <2>1. scroll'.pages # <<>>
    BY <1>4, <1>5
  <2>2. ASSUME scroll'.more
        PROVE  /\ scroll'.pages[Len(scroll'.pages)] # <<>>
               /\ scroll'.cursors = {Cursor(Newest(scroll'.pages))}
               /\ \A m \in M!Shown' : m.at \div Milli <= Newest(scroll'.pages).at \div Milli
    <3>1. scroll'.pages[Len(scroll'.pages)] = p /\ Len(p) = MessageLimit
      BY <1>4, <1>5, <2>2
    <3>2. Newest(scroll'.pages) = p[Len(p)] /\ p # <<>>
      BY <1>4, <1>13, <3>1
    <3>3. scroll'.cursors = {Cursor(p[Len(p)])}
      BY <1>4, <3>2
    <3> QED BY <1>13, <3>1, <3>2, <3>3
  <2> QED BY <2>1, <2>2 DEF MessageCursor
<1>15. MessagesAhead'
  <2>1. ASSUME NEW m \in known', m \notin M!Shown'
        PROVE  /\ \A s \in M!Shown' : Precedes(s, m)
               /\ Len(p) = MessageLimit => Precedes(Cursor(p[Len(p)]), m)
    <3>1. m \in M!Messages /\ IsRow(m) /\ m \notin M!Shown
      BY <1>1, <1>6, <2>1, MessagesTable DEF MessageInv, MessagesStay, Table
    <3>2. m \in Follows(M!Messages, scroll.cursors)
      <4>1. ASSUME NEW c \in scroll.cursors PROVE Precedes(c, m)
        BY <1>1, <1>9, <2>1, <3>1 DEF MessageInv, MessagesAhead
      <4> QED BY <3>1, <4>1 DEF Follows
    <3>3. Len(p) = MessageLimit /\ \A i \in 1 .. Len(p) : Precedes(p[i], m)
      BY <1>2, <1>6, <2>1, <3>2
    <3>4. ASSUME NEW s \in M!Shown PROVE Precedes(s, m)
      BY <1>1, <1>9, <2>1, <3>1 DEF MessageInv, MessagesAhead
    <3>5. Precedes(Cursor(p[Len(p)]), m)
      BY <1>7, <1>13, <3>1, <3>3, CursorIsEarly
    <3> QED BY <1>6, <3>3, <3>4, <3>5
  <2>2. scroll'.more => scroll'.cursors = {Cursor(p[Len(p)])}
    BY <1>4, <1>13
  <2> QED BY <1>4, <2>1, <2>2 DEF MessagesAhead
<1>16. M!ForwardRepeatsSameMilli'
  <2> DEFINE q == Append(pages, p)
  <2>1. ASSUME NEW i \in 1 .. n + 1, NEW j \in 1 .. n + 1, i < j,
               NEW m \in M!ToSet(q[i]) \cap M!ToSet(q[j])
        PROVE  \E k \in i .. j - 1 : m.at \div Milli = M!Last(q[k]).at \div Milli
    <3>1. CASE j <= n
      <4>1. /\ i \in DOMAIN pages /\ j \in DOMAIN pages
            /\ m \in M!ToSet(pages[i]) \cap M!ToSet(pages[j])
        BY <1>5, <2>1, <3>1
      <4>2. PICK k \in i .. j - 1 : m.at \div Milli = M!Last(pages[k]).at \div Milli
        BY <2>1, <4>1 DEF MessageInv, M!ForwardRepeatsSameMilli
      <4>3. k \in 1 .. n
        BY <1>5, <3>1
      <4> QED BY <1>5, <4>2, <4>3
    <3>2. CASE j = n + 1
      <4>1. i \in 1 .. n /\ pages # <<>> /\ n \in i .. j - 1
        BY <1>5, <2>1, <3>2
      <4>2. m \in M!ToSet(pages[i]) /\ m \in M!ToSet(p)
        BY <1>5, <3>2, <4>1
      <4>3. m \in M!Shown
        BY <1>5, <4>1, <4>2 DEF M!Shown
      <4>4. PICK k \in 1 .. Len(p) : m = p[k]
        BY <1>1, <4>2 DEF M!ToSet
      <4>5. IsRow(m) /\ Precedes(Cursor(Newest(pages)), m)
        BY <1>7, <1>8, <4>1, <4>4
      <4>6. /\ m.at \div Milli <= Newest(pages).at \div Milli
            /\ Newest(pages).at \div Milli <= m.at \div Milli
            /\ m.at \div Milli \in Nat /\ Newest(pages).at \div Milli \in Nat
        BY <1>8, <4>1, <4>3, <4>5, MilliOrder
      <4>7. m.at \div Milli = M!Last(q[n]).at \div Milli
        BY <1>5, <1>8, <4>1, <4>6
      <4> QED BY <4>1, <4>7
    <3>3. j <= n \/ j = n + 1
      BY <1>5
    <3> QED BY <3>1, <3>2, <3>3
  <2>2. scroll'.pages = q /\ DOMAIN scroll'.pages = 1 .. n + 1
    BY <1>4, <1>5
  <2> HIDE DEF q
  <2>3. \A i, j \in DOMAIN scroll'.pages : i < j =>
          \A m \in M!ToSet(scroll'.pages[i]) \cap M!ToSet(scroll'.pages[j]) :
            \E k \in i .. j - 1 :
              m.at \div Milli = M!Last(scroll'.pages[k]).at \div Milli
    BY <2>1, <2>2
  <2> QED BY <2>3 DEF M!ForwardRepeatsSameMilli
<1> QED BY <1>10, <1>11, <1>12, <1>14, <1>15, <1>16 DEF MessageInv

\* What is ahead is not behind what was shown.
LEMMA NothingSkipped ==
  ASSUME MessageInv
  PROVE  M!ForwardSkipsNothing
<1>1. ASSUME NEW m \in known, NEW s \in M!Shown, Precedes(m, s), m \notin M!Shown
      PROVE  FALSE
  <2>1. scroll.pages # <<>>
    <3>1. scroll.pages = <<>> => DOMAIN scroll.pages = {}
      OBVIOUS
    <3> QED BY <1>1, <3>1 DEF M!Shown
  <2>2. Precedes(s, m)
    BY <1>1, <2>1 DEF MessageInv, MessagesAhead
  <2>3. s \in M!Message /\ m \in M!Message
    BY <1>1, ShownAfter, ShownIs DEF MessageInv, M!TypeOK
  <2> QED BY <1>1, <2>2, <2>3, MessageIsRow, OrderStrict
<1> QED BY <1>1, SameOrder DEF M!ForwardSkipsNothing

-----------------------------------------------------------------------------
(***************************************************************************)
(* Sessions.                                                               *)
(***************************************************************************)

SessionRow == [id : Nat, at : 0 .. MaxSessionTime]

LEMMA SessionIsRow ==
  ASSUME NEW x \in SessionRow
  PROVE  IsRow(x) /\ x.at \in 0 .. MaxSessionTime
BY Limits DEF SessionRow, IsRow

LEMMA SessionRows ==
  \A x : x \in S!Sessions <=> \E s \in Slots : sPhase[s] = "live" /\ x = row[s]
BY DEF S!Sessions

\* The sessions there are are a table.
LEMMA SessionsTable ==
  ASSUME S!TypeOK, SessionIds
  PROVE  Table(S!Sessions) /\ S!Sessions \subseteq SessionRow
<1>1. ASSUME NEW x \in S!Sessions
      PROVE  x \in SessionRow /\ IsRow(x) /\ x.id < sNextId
  <2>1. PICK s \in Slots : sPhase[s] = "live" /\ x = row[s]
    BY SessionRows
  <2>2. row[s] \in SessionRow /\ row[s].id < sNextId
    BY <2>1 DEF S!TypeOK, SessionIds, SessionRow
  <2> QED BY <2>1, <2>2, SessionIsRow
<1>2. ASSUME NEW x \in S!Sessions, NEW y \in S!Sessions, x.id = y.id
      PROVE  x = y
  <2>1. PICK s \in Slots, t \in Slots :
          sPhase[s] = "live" /\ x = row[s] /\ sPhase[t] = "live" /\ y = row[t]
    BY SessionRows
  <2> QED BY <1>2, <2>1 DEF SessionIds
<1>3. IsFiniteSet(S!Sessions)
  <2> DEFINE f == [x \in S!Sessions |-> x.id]
  <2>1. sNextId \in Nat
    BY DEF S!TypeOK
  <2>2. f \in [S!Sessions -> 0 .. sNextId]
    BY <1>1, <2>1 DEF IsRow
  <2>3. f \in Injection(S!Sessions, 0 .. sNextId)
    BY <1>2, <2>2 DEF Injection, IsInjective
  <2>4. IsFiniteSet(0 .. sNextId)
    BY <2>1, FS_Interval
  <2> QED BY <2>3, <2>4, FS_Injection
<1> QED BY <1>1, <1>2, <1>3 DEF Table

LEMMA SessionStart ==
  ASSUME S!Init
  PROVE  SessionInv
<1>1. /\ sScroll = [pages |-> <<>>, cursors |-> {}, more |-> TRUE]
      /\ sKnown = {} /\ \A s \in Slots : sPhase[s] = "unused"
  BY DEF S!Init
<1>2. DOMAIN sScroll.pages = {}
  BY <1>1
<1>3. <<>> \in Seq(Seq(SessionRow))
  OBVIOUS
<1>4. S!TypeOK
  BY <1>1, <1>3, Limits DEF S!Init, S!TypeOK, SessionRow
<1>5. SessionIds /\ SessionsStay /\ SessionCursor /\ SessionsAhead
  BY <1>1 DEF SessionIds, SessionsStay, SessionCursor, SessionsAhead
<1>6. S!PagesDescend
  BY <1>2 DEF S!PagesDescend
<1> QED BY <1>4, <1>5, <1>6 DEF SessionInv

Changes(s) == S!CreateSession(s) \/ S!Committed(s) \/ S!DeleteSession(s)

\* Sessions come and go, and none of those a scroll began with comes back.
LEMMA TableChanges ==
  ASSUME SessionInv, NEW s \in Slots, Changes(s)
  PROVE  /\ S!TypeOK' /\ SessionIds' /\ SessionsStay'
         /\ UNCHANGED <<sScroll, sKnown>>
         /\ (sKnown \cap S!Sessions)' \subseteq sKnown \cap S!Sessions
<1>0. /\ sPhase \in [Slots -> {"unused", "inserting", "live", "deleted"}]
      /\ row \in [Slots -> SessionRow] /\ sNextId \in Nat /\ SessionIds /\ SessionsStay
      /\ sClock \in 0 .. MaxSessionTime
  BY DEF SessionInv, S!TypeOK, SessionRow
<1>1. CASE S!CreateSession(s)
  <2>1. PICK now \in sClock .. sClock + Milli :
          /\ now <= MaxSessionTime /\ sClock' = now
          /\ row' = [row EXCEPT ![s] = [id |-> sNextId, at |-> now]]
    BY <1>1 DEF S!CreateSession
  <2>2. /\ sPhase[s] = "unused" /\ sPhase' = [sPhase EXCEPT ![s] = "inserting"]
        /\ sNextId' = sNextId + 1 /\ UNCHANGED <<sScroll, sKnown>>
    BY <1>1 DEF S!CreateSession
  <2>3. now \in 0 .. MaxSessionTime
    BY <1>0, <2>1, Limits, MilliAssumption
  <2>4. S!TypeOK'
    BY <1>0, <2>1, <2>2, <2>3 DEF SessionInv, S!TypeOK, SessionRow
  <2>5. \A t \in Slots : IF t = s THEN row'[t].id = sNextId /\ sPhase'[t] = "inserting"
                                  ELSE row'[t] = row[t] /\ sPhase'[t] = sPhase[t]
    BY <1>0, <2>1, <2>2
  <2>6. SessionIds'
    BY <1>0, <2>2, <2>5, SessionIsRow DEF SessionIds, IsRow
  <2>7. SessionsStay' /\ S!Sessions' = S!Sessions
    BY <1>0, <2>2, <2>5 DEF SessionsStay, S!Sessions
  <2> QED BY <2>2, <2>4, <2>6, <2>7
<1>2. CASE S!Committed(s)
  <2>1. /\ sPhase[s] = "inserting" /\ sPhase' = [sPhase EXCEPT ![s] = "live"]
        /\ UNCHANGED <<sClock, sNextId, row, sScroll, sKnown>>
    BY <1>2 DEF S!Committed
  <2>2. S!TypeOK' /\ SessionIds'
    BY <1>0, <2>1 DEF SessionInv, S!TypeOK, SessionIds
  <2>3. \A t \in Slots \ {s} : sPhase'[t] = sPhase[t]
    BY <1>0, <2>1
  <2>4. SessionsStay'
    BY <1>0, <2>1, <2>3 DEF SessionsStay
  <2>5. row[s] \notin sKnown
    <3> SUFFICES ASSUME row[s] \in sKnown PROVE FALSE
      OBVIOUS
    <3>1. PICK t \in Slots : sPhase[t] \in {"live", "deleted"} /\ row[t] = row[s]
      BY <1>0 DEF SessionsStay
    <3>2. t = s
      BY <1>0, <2>1, <3>1 DEF SessionIds
    <3> QED BY <2>1, <3>1, <3>2
  <2>6. S!Sessions' \subseteq S!Sessions \cup {row[s]}
    BY <2>1, <2>3 DEF S!Sessions
  <2> QED BY <2>1, <2>2, <2>4, <2>5, <2>6
<1>3. CASE S!DeleteSession(s)
  <2>1. /\ sPhase[s] = "live" /\ sPhase' = [sPhase EXCEPT ![s] = "deleted"]
        /\ UNCHANGED <<sClock, sNextId, row, sScroll, sKnown>>
    BY <1>3 DEF S!DeleteSession
  <2>2. S!TypeOK' /\ SessionIds'
    BY <1>0, <2>1 DEF SessionInv, S!TypeOK, SessionIds
  <2>3. sPhase'[s] = "deleted" /\ \A t \in Slots \ {s} : sPhase'[t] = sPhase[t]
    BY <1>0, <2>1
  <2>4. SessionsStay'
    BY <1>0, <2>1, <2>3 DEF SessionsStay
  <2>5. S!Sessions' \subseteq S!Sessions
    BY <2>1, <2>3 DEF S!Sessions
  <2> QED BY <2>1, <2>2, <2>4, <2>5
<1> QED BY <1>1, <1>2, <1>3 DEF Changes

LEMMA TableKeeps ==
  ASSUME SessionInv, NEW s \in Slots, Changes(s)
  PROVE  SessionInv'
<1>1. /\ S!TypeOK' /\ SessionIds' /\ SessionsStay' /\ sScroll' = sScroll /\ sKnown' = sKnown
      /\ (sKnown \cap S!Sessions)' \subseteq sKnown \cap S!Sessions
  BY TableChanges
<1>2. S!Shown' = S!Shown
  BY <1>1 DEF S!Shown, S!PageSet
<1>3. SessionCursor' /\ S!PagesDescend'
  BY <1>1, <1>2 DEF SessionInv, SessionCursor, S!PagesDescend, S!PageSet
<1>4. SessionsAhead'
  BY <1>1, <1>2 DEF SessionInv, SessionsAhead, PassedOver
<1> QED BY <1>1, <1>3, <1>4 DEF SessionInv

\* A page of sessions goes on behind the cursor, the newest first.
LEMMA SessionPage ==
  ASSUME SessionInv
  PROVE  /\ S!Page \in Seq(Leads(S!Sessions, sScroll.cursors)) /\ Len(S!Page) \in Nat
         /\ \A i, j \in 1 .. Len(S!Page) : i < j => Precedes(S!Page[j], S!Page[i])
         /\ \A r \in Leads(S!Sessions, sScroll.cursors) :
              \/ \E i \in 1 .. Len(S!Page) : S!Page[i] = r
              \/ /\ Len(S!Page) = SessionLimit
                 /\ \A i \in 1 .. Len(S!Page) : Precedes(r, S!Page[i])
<1> DEFINE some == Leads(S!Sessions, sScroll.cursors)
           up == PageBefore(S!Sessions, sScroll.cursors, SessionLimit)
<1>1. Table(S!Sessions)
  BY SessionsTable DEF SessionInv
<1>2. /\ up \in Seq(some) /\ InOrder(up)
      /\ \A r \in some : \/ \E i \in 1 .. Len(up) : up[i] = r
                         \/ Len(up) = SessionLimit /\ \A i \in 1 .. Len(up) : Precedes(r, up[i])
  BY <1>1, Limits, PageBeforeIsLast
<1>3. S!Page = [i \in 1 .. Len(up) |-> up[Len(up) - i + 1]]
  BY SameOrder DEF S!Page, S!Reverse
<1> HIDE DEF some, up
<1>4. Len(up) \in Nat /\ \A i \in 1 .. Len(up) : up[i] \in some
  BY <1>2
<1>5. \A i \in 1 .. Len(up) : /\ Len(up) - i + 1 \in 1 .. Len(up)
                             /\ Len(up) - (Len(up) - i + 1) + 1 = i
  BY <1>4
<1>6. S!Page \in Seq(some) /\ Len(S!Page) = Len(up)
  BY <1>3, <1>4, <1>5
<1>7. \A i \in 1 .. Len(up) : S!Page[i] = up[Len(up) - i + 1]
  BY <1>3
<1>8. ASSUME NEW i \in 1 .. Len(up), NEW j \in 1 .. Len(up), i < j
      PROVE  Precedes(S!Page[j], S!Page[i])
  <2>1. Len(up) - j + 1 < Len(up) - i + 1
    BY <1>4, <1>8
  <2>2. Precedes(up[Len(up) - j + 1], up[Len(up) - i + 1])
    BY <1>2, <1>5, <2>1 DEF InOrder
  <2> QED BY <1>7, <2>2
<1>9. ASSUME NEW r \in some, \A i \in 1 .. Len(up) : S!Page[i] # r
      PROVE  Len(up) = SessionLimit /\ \A i \in 1 .. Len(up) : Precedes(r, S!Page[i])
  <2>1. \A i \in 1 .. Len(up) : up[i] # r
    <3>1. ASSUME NEW i \in 1 .. Len(up) PROVE up[i] = S!Page[Len(up) - i + 1]
      BY <1>5, <1>7
    <3> QED BY <1>5, <1>9, <3>1
  <2>2. Len(up) = SessionLimit /\ \A i \in 1 .. Len(up) : Precedes(r, up[i])
    BY <1>2, <2>1
  <2> QED BY <1>5, <1>7, <2>2
<1>10. \A r \in some :
         \/ \E i \in 1 .. Len(up) : S!Page[i] = r
         \/ Len(up) = SessionLimit /\ \A i \in 1 .. Len(up) : Precedes(r, S!Page[i])
  BY <1>9
<1> QED BY <1>4, <1>6, <1>8, <1>10 DEF some

LEMMA ListKeeps ==
  ASSUME SessionInv, S!FetchPage
  PROVE  SessionInv'
<1> DEFINE p == S!Page
           pages == sScroll.pages
           n == Len(pages)
           all == Append(pages, p)
<1>1. /\ p \in Seq(Leads(S!Sessions, sScroll.cursors)) /\ Len(p) \in Nat
      /\ \A i, j \in 1 .. Len(p) : i < j => Precedes(p[j], p[i])
      /\ \A r \in Leads(S!Sessions, sScroll.cursors) :
           \/ \E i \in 1 .. Len(p) : p[i] = r
           \/ Len(p) = SessionLimit /\ \A i \in 1 .. Len(p) : Precedes(r, p[i])
  BY SessionPage
<1>2. /\ sScroll.more
      /\ sScroll' = [pages |-> Append(pages, p),
                     cursors |-> IF p = <<>> THEN {} ELSE {Cursor(p[Len(p)])},
                     more |-> Len(p) = SessionLimit]
      /\ sKnown' = IF pages = <<>> THEN S!Sessions ELSE sKnown
      /\ UNCHANGED <<sClock, sNextId, sPhase, row>>
  BY SameOrder DEF S!FetchPage, S!tableVars
<1>3. S!Sessions' = S!Sessions
  BY <1>2 DEF S!Sessions
<1>4. Table(S!Sessions) /\ S!Sessions \subseteq SessionRow
  BY SessionsTable DEF SessionInv
<1>5. \A i \in 1 .. Len(p) : /\ p[i] \in S!Sessions /\ p[i] \in SessionRow /\ IsRow(p[i])
                            /\ \A c \in sScroll.cursors : Precedes(p[i], c)
  BY <1>1, <1>4 DEF Leads, Table
<1>6. p \in Seq(SessionRow) /\ pages \in Seq(Seq(SessionRow))
  <2>1. p \in Seq(SessionRow)
    BY <1>1, <1>5
  <2>2. pages \in Seq(Seq(SessionRow))
    BY DEF SessionInv, S!TypeOK, SessionRow
  <2> QED BY <2>1, <2>2
<1> HIDE DEF p
<1>7. /\ sScroll'.pages = all
      /\ sScroll'.cursors = IF p = <<>> THEN {} ELSE {Cursor(p[Len(p)])}
      /\ sScroll'.more = (Len(p) = SessionLimit)
  BY <1>2
<1>8. /\ all \in Seq(Seq(SessionRow)) /\ all # <<>>
      /\ n \in Nat /\ Len(all) = n + 1
      /\ DOMAIN pages = 1 .. n /\ DOMAIN all = 1 .. n + 1
      /\ \A i \in 1 .. n : all[i] = pages[i] /\ pages[i] \in Seq(SessionRow)
      /\ all[n + 1] = p
  <2> HIDE DEF pages
  <2> QED BY <1>6, Shows
<1>9. /\ \A x : x \in S!Shown' <=> x \in S!Shown \/ \E i \in 1 .. Len(p) : x = p[i]
      /\ S!Shown \subseteq SessionRow
  <2>1. S!Shown' = ShownOn(all) /\ S!Shown = ShownOn(pages)
    BY <1>7 DEF S!Shown, S!PageSet, S!ToSet, ShownOn
  <2> QED BY <1>6, <2>1, ShownAfter
<1>10. pages = <<>> => S!Shown = {} /\ sScroll.cursors = {}
  <2>1. pages = <<>> => DOMAIN pages = {}
    BY <1>8
  <2> QED BY <2>1 DEF S!Shown, SessionInv, SessionCursor
<1>11. ASSUME pages # <<>>
       PROVE  /\ sScroll.cursors = {Cursor(Newest(pages))}
              /\ Newest(pages) \in SessionRow /\ IsRow(Newest(pages))
              /\ \A x \in S!Shown : x = Newest(pages) \/ Precedes(Newest(pages), x)
  <2>1. /\ pages[n] # <<>> /\ sScroll.cursors = {Cursor(Newest(pages))}
        /\ \A x \in S!Shown : x = Newest(pages) \/ Precedes(Newest(pages), x)
    BY <1>2, <1>11 DEF SessionInv, SessionCursor
  <2>2. n \in 1 .. n
    BY <1>6, <1>11
  <2>3. pages[n] \in Seq(SessionRow)
    BY <1>8, <2>2
  <2>4. pages[n][Len(pages[n])] \in SessionRow
    BY <2>1, <2>3
  <2> QED BY <2>1, <2>4, SessionIsRow DEF Newest
\* What the page holds comes behind everything that was shown.
<1>12. ASSUME NEW i \in 1 .. Len(p), NEW x \in S!Shown
       PROVE  Precedes(p[i], x)
  <2>1. pages # <<>> /\ IsRow(x) /\ IsRow(p[i])
    BY <1>5, <1>9, <1>10, SessionIsRow
  <2>2. Precedes(p[i], Newest(pages))
    BY <1>5, <1>11, <2>1, CursorIsEarly
  <2> QED BY <1>11, <2>1, <2>2, OrderStrict
<1>13. S!TypeOK'
  <2>1. sScroll'.cursors \in SUBSET SessionRow
    <3>1. ASSUME p # <<>>
          PROVE  Cursor(p[Len(p)]) \in SessionRow
      <4>1. p[Len(p)] \in SessionRow /\ IsRow(p[Len(p)])
        BY <1>5, <1>6, <3>1
      <4>2. /\ Cursor(p[Len(p)]).at \in Nat /\ Cursor(p[Len(p)]).id \in Nat
            /\ Cursor(p[Len(p)]).at <= p[Len(p)].at /\ p[Len(p)].at \in 0 .. MaxSessionTime
        BY <4>1, CursorOf, SessionIsRow DEF IsRow
      <4>3. Cursor(p[Len(p)]).at \in 0 .. MaxSessionTime
        BY <4>2, Limits
      <4> QED BY <4>2, <4>3 DEF Cursor, SessionRow
    <3> QED BY <1>7, <3>1
  <2>2. sKnown' \subseteq SessionRow
    BY <1>2, <1>4 DEF SessionInv, S!TypeOK, SessionRow
  <2>3. sScroll' \in [pages : Seq(Seq(SessionRow)), cursors : SUBSET SessionRow, more : BOOLEAN]
    BY <1>2, <1>7, <1>8, <2>1
  <2> QED BY <1>2, <2>2, <2>3 DEF SessionInv, S!TypeOK, SessionRow
<1>14. SessionIds' /\ SessionsStay'
  <2>1. S!Sessions \subseteq {row[s] : s \in {t \in Slots : sPhase[t] \in {"live", "deleted"}}}
    BY DEF S!Sessions
  <2> QED BY <1>2, <2>1 DEF SessionInv, SessionIds, SessionsStay
<1>15. ASSUME Len(p) = SessionLimit
       PROVE  /\ Len(p) \in 1 .. Len(p) /\ p # <<>> /\ Newest(all) = p[Len(p)]
              /\ \A x \in S!Shown' : x = p[Len(p)] \/ Precedes(p[Len(p)], x)
  <2>1. Len(p) \in 1 .. Len(p) /\ p # <<>>
    BY <1>6, <1>15, Limits
  <2>2. Newest(all) = p[Len(p)]
    BY <1>8 DEF Newest
  <2>3. \A i \in 1 .. Len(p) : i = Len(p) \/ Precedes(p[Len(p)], p[i])
    BY <1>1, <2>1
  <2> QED BY <1>9, <1>12, <2>1, <2>2, <2>3
<1>16. SessionCursor'
  <2>1. ASSUME sScroll'.more
        PROVE  /\ sScroll'.pages[Len(sScroll'.pages)] # <<>>
               /\ sScroll'.cursors = {Cursor(Newest(sScroll'.pages))}
               /\ \A x \in S!Shown' :
                    x = Newest(sScroll'.pages) \/ Precedes(Newest(sScroll'.pages), x)
    <3>1. sScroll'.pages[Len(sScroll'.pages)] = p /\ Len(p) = SessionLimit
      BY <1>7, <1>8, <2>1
    <3>2. Newest(sScroll'.pages) = p[Len(p)] /\ p # <<>>
      BY <1>7, <1>15, <3>1
    <3>3. sScroll'.cursors = {Cursor(p[Len(p)])}
      BY <1>7, <3>2
    <3> QED BY <1>15, <3>1, <3>2, <3>3
  <2> QED BY <1>7, <1>8, <2>1 DEF SessionCursor
<1>17. S!PagesDescend'
  <2>1. ASSUME NEW i \in 1 .. n + 1, NEW j \in 1 .. n + 1, i < j,
               NEW x \in S!ToSet(all[i]), NEW y \in S!ToSet(all[j])
        PROVE  Precedes(y, x)
    <3>1. CASE j <= n
      <4>1. i \in DOMAIN pages /\ j \in DOMAIN pages /\ all[i] = pages[i] /\ all[j] = pages[j]
        BY <1>8, <2>1, <3>1
      <4> QED BY <2>1, <4>1, SameOrder DEF SessionInv, S!PagesDescend, S!PageSet
    <3>2. CASE j = n + 1
      <4>1. i \in 1 .. n /\ all[i] = pages[i] /\ all[j] = p
        BY <1>8, <2>1, <3>2
      <4>2. x \in S!Shown
        BY <1>8, <4>1 DEF S!Shown, S!PageSet
      <4>3. PICK k \in 1 .. Len(p) : y = p[k]
        BY <1>6, <4>1 DEF S!ToSet
      <4> QED BY <1>12, <4>2, <4>3
    <3>3. j <= n \/ j = n + 1
      BY <1>8
    <3> QED BY <3>1, <3>2, <3>3
  <2>2. sScroll'.pages = all /\ DOMAIN sScroll'.pages = 1 .. n + 1
    BY <1>7, <1>8
  <2>3. \A x, y : S!Precedes(y, x) = Precedes(y, x)
    BY SameOrder
  <2> HIDE DEF all
  <2>4. \A i, j \in DOMAIN sScroll'.pages : i < j =>
          \A x \in S!ToSet(sScroll'.pages[i]), y \in S!ToSet(sScroll'.pages[j]) :
            S!Precedes(y, x)
    BY <2>1, <2>2, <2>3
  <2> QED BY <2>4 DEF S!PagesDescend, S!PageSet
<1>18. SessionsAhead'
  <2>1. ASSUME NEW x \in (sKnown' \cap S!Sessions'), x \notin S!Shown'
        PROVE  PassedOver(x)' \/ (sScroll'.more /\ \A c \in sScroll'.cursors : Precedes(x, c))
    <3>1. x \in S!Sessions /\ IsRow(x) /\ x \notin S!Shown
      BY <1>3, <1>4, <1>9, <2>1 DEF Table
    <3>2. PassedOver(x) \/ x \in Leads(S!Sessions, sScroll.cursors)
      <4>1. CASE pages = <<>>
        BY <1>10, <3>1, <4>1 DEF Leads
      <4>2. CASE pages # <<>>
        BY <1>2, <2>1, <3>1, <4>2 DEF Leads, SessionInv, SessionsAhead
      <4> QED BY <4>1, <4>2
    <3>3. CASE PassedOver(x)
      <4>1. PICK m \in 1 .. n :
              /\ pages[m] # <<>>
              /\ S!SameMilli(x, pages[m][Len(pages[m])]) /\ Precedes(x, pages[m][Len(pages[m])])
        BY <1>8, <3>3 DEF PassedOver
      <4>2. m \in DOMAIN sScroll'.pages /\ sScroll'.pages[m] = pages[m]
        BY <1>7, <1>8
      <4> QED BY <4>1, <4>2 DEF PassedOver
    <3>4. CASE x \in Leads(S!Sessions, sScroll.cursors)
      <4>1. Len(p) = SessionLimit /\ \A i \in 1 .. Len(p) : Precedes(x, p[i])
        BY <1>1, <1>9, <2>1, <3>4
      <4>2. /\ Len(p) \in 1 .. Len(p) /\ p # <<>> /\ IsRow(p[Len(p)])
            /\ Precedes(x, p[Len(p)])
        BY <1>5, <1>15, <4>1
      <4>3. CASE Precedes(x, Cursor(p[Len(p)]))
        BY <1>7, <4>1, <4>2, <4>3
      <4>4. CASE ~ Precedes(x, Cursor(p[Len(p)]))
        <5>1. S!SameMilli(x, p[Len(p)])
          BY <3>1, <4>2, <4>4, MilliOrder DEF S!SameMilli
        <5>2. n + 1 \in DOMAIN sScroll'.pages /\ sScroll'.pages[n + 1] = p
          BY <1>7, <1>8
        <5> QED BY <4>2, <5>1, <5>2 DEF PassedOver
      <4> QED BY <4>3, <4>4
    <3> QED BY <3>2, <3>3, <3>4
  <2> QED BY <2>1 DEF SessionsAhead
<1> QED BY <1>13, <1>14, <1>16, <1>17, <1>18 DEF SessionInv

\* A finished scroll has nothing ahead of it.
LEMMA AllShown ==
  ASSUME SessionInv
  PROVE  S!AllShownUnlessSameMilli
<1>1. ASSUME ~ sScroll.more, NEW x \in (sKnown \cap S!Sessions) \ S!Shown
      PROVE  PassedOver(x)
  BY <1>1 DEF SessionInv, SessionCursor, SessionsAhead
<1> QED BY <1>1, SameOrder DEF S!AllShownUnlessSameMilli, PassedOver

-----------------------------------------------------------------------------
(***************************************************************************)
(* The theorems.                                                           *)
(***************************************************************************)

LEMMA MessagesRest ==
  ASSUME MessageInv, UNCHANGED messageVars
  PROVE  MessageInv'
<1>1. /\ clock' = clock /\ nextId' = nextId /\ phase' = phase /\ at' = at /\ ids' = ids
      /\ scroll' = scroll /\ known' = known
  BY DEF messageVars
<1>2. M!TypeOK' /\ MessageIds'
  BY <1>1 DEF MessageInv, M!TypeOK, MessageIds, Inserted
<1>3. M!Messages' = M!Messages /\ M!Shown' = M!Shown
  BY <1>1 DEF M!Messages, M!Committed, M!MessagesOf, M!Shown
<1>4. MessagesStay' /\ MessageCursor' /\ MessagesAhead' /\ M!ForwardRepeatsSameMilli'
  BY <1>1, <1>3 DEF MessageInv, MessagesStay, MessageCursor, MessagesAhead,
                    M!ForwardRepeatsSameMilli
<1> QED BY <1>2, <1>4 DEF MessageInv

LEMMA SessionsRest ==
  ASSUME SessionInv, UNCHANGED sessionVars
  PROVE  SessionInv'
<1>1. /\ sClock' = sClock /\ sNextId' = sNextId /\ sPhase' = sPhase /\ row' = row
      /\ sScroll' = sScroll /\ sKnown' = sKnown
  BY DEF sessionVars
<1>2. S!TypeOK' /\ SessionIds' /\ SessionsStay'
  BY <1>1 DEF SessionInv, S!TypeOK, SessionIds, SessionsStay
<1>3. S!Sessions' = S!Sessions /\ S!Shown' = S!Shown
  BY <1>1 DEF S!Sessions, S!Shown, S!PageSet
<1>4. SessionCursor' /\ SessionsAhead' /\ S!PagesDescend'
  BY <1>1, <1>3 DEF SessionInv, SessionCursor, SessionsAhead, PassedOver, S!PagesDescend, S!PageSet
<1> QED BY <1>2, <1>4 DEF SessionInv

\* The invariant holds at every moment of either view.
LEMMA ViewsInvariant == Spec => []ViewsInv
<1>1. Init => ViewsInv
  BY MessageStart, SessionStart DEF Init, ViewsInv
<1>2. ViewsInv /\ [Next]_vars => ViewsInv'
  <2> SUFFICES ASSUME ViewsInv, [Next]_vars PROVE ViewsInv'
    OBVIOUS
  <2>1. CASE MessageStep
    <3>1. (\E t \in Turns : Writes(t)) \/ M!FetchPage
      BY <2>1 DEF MessageStep, M!Next, Writes
    <3>2. MessageInv'
      BY <3>1, WriterKeeps, ReaderKeeps DEF ViewsInv
    <3>3. SessionInv'
      BY <2>1, SessionsRest DEF MessageStep, ViewsInv
    <3> QED BY <3>2, <3>3 DEF ViewsInv
  <2>2. CASE SessionStep
    <3>1. (\E s \in Slots : Changes(s)) \/ S!FetchPage
      BY <2>2 DEF SessionStep, S!Next, Changes
    <3>2. SessionInv'
      BY <3>1, TableKeeps, ListKeeps DEF ViewsInv
    <3>3. MessageInv'
      BY <2>2, MessagesRest DEF SessionStep, ViewsInv
    <3> QED BY <3>2, <3>3 DEF ViewsInv
  <2>3. CASE UNCHANGED vars
    <3>1. UNCHANGED messageVars /\ UNCHANGED sessionVars
      BY <2>3 DEF vars
    <3> QED BY <3>1, MessagesRest, SessionsRest DEF ViewsInv
  <2> QED BY <2>1, <2>2, <2>3 DEF Next
<1> QED BY <1>1, <1>2, PTL DEF Spec

\* Rows, pages and cursors have their types: a cursor is a time and an id, never
\* the row it was made from (encodeCursor).
THEOREM TypeCorrect == Spec => []TypeOK
<1>1. ViewsInv => TypeOK
  BY DEF ViewsInv, MessageInv, SessionInv, TypeOK
<1> QED BY <1>1, ViewsInvariant, PTL

\* However many transactions of persistConversation interleave, an answer comes
\* right behind its question in the history of a session, and the history and
\* what of it goes into the next prompt are lists of turns, unless two of the
\* transactions began at one instant of the database clock.
THEOREM TurnsStayTogether == Spec => []HistoryPaired
<1>1. ViewsInv => HistoryPaired
  BY AnswersFollow DEF ViewsInv, MessageInv, HistoryPaired
<1> QED BY <1>1, ViewsInvariant, PTL

\* A forward scroll through the messages leaves none out, whatever is committed
\* meanwhile: one that was there when it began is shown before any later one
\* (getSessionMessagesHandler).
THEOREM ForwardIsComplete == Spec => []ForwardSkipsNothing
<1>1. ViewsInv => ForwardSkipsNothing
  BY NothingSkipped DEF ViewsInv, ForwardSkipsNothing
<1> QED BY <1>1, ViewsInvariant, PTL

\* A message is on two pages of a forward scroll only if it is of the same
\* millisecond as the last one of an earlier page: the cursor of
\* getSessionMessagesHandler cannot tell them apart.
THEOREM RepeatsAreSameMilli == Spec => []ForwardRepeatsSameMilli
<1>1. ViewsInv => ForwardRepeatsSameMilli
  BY DEF ViewsInv, MessageInv, ForwardRepeatsSameMilli
<1> QED BY <1>1, ViewsInvariant, PTL

\* The pages of the session list descend, across pages too: none is shown twice,
\* whatever is created or deleted between two requests (listSessionsHandler).
THEOREM SessionsDescend == Spec => []PagesDescend
<1>1. ViewsInv => PagesDescend
  BY DEF ViewsInv, SessionInv, PagesDescend
<1> QED BY <1>1, ViewsInvariant, PTL

\* A finished scroll through the sessions has shown every one that was there when
\* it began and still is, but for those of a cursor's own millisecond
\* (listSessionsHandler).
THEOREM SessionsAllShown == Spec => []AllShownUnlessSameMilli
<1>1. ViewsInv => AllShownUnlessSameMilli
  BY AllShown DEF ViewsInv, AllShownUnlessSameMilli
<1> QED BY <1>1, ViewsInvariant, PTL
=============================================================================
