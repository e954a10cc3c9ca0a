----------------------------- MODULE SessionList -----------------------------
(***************************************************************************)
(* The sessions of one requester, newest first: GET /ai/v2/sessions        *)
(* (listSessionsHandler, listSessionsForRequester) read page after page    *)
(* while sessions are created and deleted.                                 *)
(*                                                                         *)
(* A session gets its id and created_at when its INSERT starts and is seen *)
(* when it commits, so sessions may appear out of the order they are       *)
(* listed in.  A scroll is a client that goes on with the cursor of the    *)
(* page before as long as has_more is true.                                *)
(***************************************************************************)
EXTENDS PageCursor, SequencesExt

CONSTANTS
  Slots,    \* the sessions that may be created
  Limit,    \* limit of the pages (1 to 50, 20 by default)
  MaxTime   \* bound: the clock, in time units

\* What the instances have to satisfy.
ListAssumption == Limit \in Nat \ {0} /\ MaxTime \in Nat

VARIABLES
  clock,   \* the time of the database
  nextId,  \* the sequence of ask_session.id
  phase,   \* phase[s]: "unused", "inserting", "live" or "deleted"
  row,     \* row[s]: id and created_at
  scroll,  \* the scroll: pages shown so far, cursors to go on with, has_more
  known    \* history: the sessions there were when the scroll began

tableVars == <<clock, nextId, phase, row>>
vars == <<tableVars, scroll, known>>

TypeOK ==
  /\ clock \in 0 .. MaxTime
  /\ nextId \in Nat
  /\ phase \in [Slots -> {"unused", "inserting", "live", "deleted"}]
  /\ row \in [Slots -> [id : Nat, at : 0 .. MaxTime]]
  /\ scroll \in [pages : Seq(Seq([id : Nat, at : 0 .. MaxTime])),
                 cursors : SUBSET [id : Nat, at : 0 .. MaxTime], more : BOOLEAN]
  /\ known \subseteq [id : Nat, at : 0 .. MaxTime]

Init ==
  /\ clock = 0
  /\ nextId = 1
  /\ phase = [s \in Slots |-> "unused"]
  /\ row = [s \in Slots |-> [id |-> 0, at |-> 0]]
  /\ scroll = [pages |-> <<>>, cursors |-> {}, more |-> TRUE]
  /\ known = {}

Sessions == {row[s] : s \in {t \in Slots : phase[t] = "live"}}

-----------------------------------------------------------------------------
\* createSession, and its commit.
CreateSession(s) ==
  /\ phase[s] = "unused"
  /\ \E now \in clock .. clock + Milli :
       /\ now <= MaxTime
       /\ clock' = now
       /\ row' = [row EXCEPT ![s] = [id |-> nextId, at |-> now]]
  /\ nextId' = nextId + 1
  /\ phase' = [phase EXCEPT ![s] = "inserting"]
  /\ UNCHANGED <<scroll, known>>

Committed(s) ==
  /\ phase[s] = "inserting"
  /\ phase' = [phase EXCEPT ![s] = "live"]
  /\ UNCHANGED <<clock, nextId, row, scroll, known>>

\* DELETE /ai/v2/sessions/:id
DeleteSession(s) ==
  /\ phase[s] = "live"
  /\ phase' = [phase EXCEPT ![s] = "deleted"]
  /\ UNCHANGED <<clock, nextId, row, scroll, known>>

\* The page comes newest first; its cursor is that of its last session.
Page == Reverse(PageBefore(Sessions, scroll.cursors, Limit))

\* Mutant of FetchPage: the cursor is that of the first session.
FetchPageFromTop ==
  /\ scroll.more
  /\ Len(scroll.pages) <= Cardinality(Slots)
  /\ scroll' = [pages |-> Append(scroll.pages, Page),
                cursors |-> IF Page = <<>> THEN {} ELSE {Cursor(Page[1])},
                more |-> Len(Page) = Limit]
  /\ known' = IF scroll.pages = <<>> THEN Sessions ELSE known
  /\ UNCHANGED tableVars

FetchPage ==
  /\ scroll.more
  /\ Len(scroll.pages) <= Cardinality(Slots)
  /\ scroll' = [pages |-> Append(scroll.pages, Page),
                cursors |-> IF Page = <<>> THEN {} ELSE {Cursor(Page[Len(Page)])},
                more |-> Len(Page) = Limit]
  /\ known' = IF scroll.pages = <<>> THEN Sessions ELSE known
  /\ UNCHANGED tableVars

Next == \/ \E s \in Slots : CreateSession(s) \/ Committed(s) \/ DeleteSession(s)
        \/ FetchPage

Spec == Init /\ [][Next]_vars

-----------------------------------------------------------------------------
(***************************************************************************)
(* Properties.                                                             *)
(***************************************************************************)

PageSet(n) == ToSet(scroll.pages[n])
Shown == UNION {PageSet(n) : n \in DOMAIN scroll.pages}

\* No session is shown twice, and a later page never holds a session that is
\* listed before one of an earlier page, whatever commits in between.
PagesDescend ==
  \A i, j \in DOMAIN scroll.pages :
    i < j => \A x \in PageSet(i), y \in PageSet(j) : Precedes(y, x)

SameMilli(x, y) == x.at \div Milli = y.at \div Milli

\* A finished scroll has shown every session that was there when it began and
\* still is, except those that were created in the same millisecond as the last
\* session of some page, which the cursor passes over.
AllShownUnlessSameMilli ==
  ~scroll.more =>
    \A x \in (known \cap Sessions) \ Shown :
      \E n \in {m \in DOMAIN scroll.pages : scroll.pages[m] # <<>>} :
        LET last == scroll.pages[n][Len(scroll.pages[n])] IN
        SameMilli(x, last) /\ Precedes(x, last)
=============================================================================
