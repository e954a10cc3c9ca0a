----------------------------- MODULE PageCursor -----------------------------
(***************************************************************************)
(* The cursors of the session endpoints: encodeCursor and decodeCursor     *)
(* (src/controllers/session.controller.ts) and the keyset predicates of    *)
(* the two repositories that take them.                                    *)
(*                                                                         *)
(* A row has a creation time and an id.  PostgreSQL keeps microseconds; a  *)
(* JavaScript Date, and with it every cursor, keeps milliseconds.          *)
(***************************************************************************)
EXTENDS Naturals, Sequences, FiniteSets

CONSTANT Milli   \* time units to a millisecond (1000 in PostgreSQL)

ASSUME MilliAssumption == Milli \in Nat \ {0}

\* Mutants of Cursor: kept to a coarser unit, or rounded up.
CoarseCursor(row) == [at |-> row.at - (row.at % (2 * Milli)), id |-> row.id]

CursorRoundedUp(row) == [at |-> row.at + Milli - (row.at % Milli), id |-> row.id]

\* The cursor of a row, as it comes back in the next request.
Cursor(row) == [at |-> row.at - (row.at % Milli), id |-> row.id]

\* Mutant of Precedes: ORDER BY id.
PrecedesById(x, y) == x.id < y.id

\* Keyset predicates: the order is by time, then by id.
Precedes(x, y) == x.at < y.at \/ (x.at = y.at /\ x.id < y.id)

\* The rows in that order: each stands behind as many as precede it.
Ascending(rows) ==
  [n \in 1 .. Cardinality(rows) |->
     CHOOSE r \in rows : Cardinality({x \in rows : Precedes(x, r)}) = n - 1]

\* The page of at most limit rows on the far side of the cursors (none: {}),
\* in ascending order: the oldest rows after it, or the newest before it.
PageAfter(rows, cursors, limit) ==
  LET s == Ascending({r \in rows : \A c \in cursors : Precedes(c, r)}) IN
  SubSeq(s, 1, IF Len(s) < limit THEN Len(s) ELSE limit)

PageBefore(rows, cursors, limit) ==
  LET s == Ascending({r \in rows : \A c \in cursors : Precedes(r, c)}) IN
  SubSeq(s, IF Len(s) < limit THEN 1 ELSE Len(s) - limit + 1, Len(s))
=============================================================================
