--------------------------- MODULE SessionMessages ---------------------------
(***************************************************************************)
(* The messages of one session: the transactions of persistConversation    *)
(* that append them, and the two ways they are read back, the history of   *)
(* an ask (loadRecentMessages) and the pages of                            *)
(* GET /ai/v2/sessions/:id/messages (getSessionMessagesHandler).           *)
(*                                                                         *)
(* created_at defaults to now(), the time of BEGIN, so the two messages of *)
(* a turn share it; ids come from a sequence when a row is inserted, and   *)
(* those of concurrent turns interleave.  A scroll is a client that asks   *)
(* for page after page with the cursor of the page before.                 *)
(***************************************************************************)
EXTENDS PageCursor, SequencesExt

CONSTANTS
  Turns,      \* the conversations to be persisted
  Limit,      \* limit of the pages (1 to 50, 20 by default)
  Direction,  \* direction of the pages: "backward" or "forward"
  MaxTime     \* bound: the clock, in time units

\* What the instances have to satisfy.
MessagesAssumption ==
  /\ Limit \in Nat \ {0}
  /\ Direction \in {"backward", "forward"}
  /\ MaxTime \in Nat

HISTORY_MESSAGE_LIMIT == 4

VARIABLES
  clock,    \* the time of the database
  nextId,   \* the sequence of ask_message.id
  phase,    \* phase[t]: "idle", "begun", "user", "both", "committed", "aborted"
  at,       \* at[t]: now() in the transaction of t
  ids,      \* ids[t]: the ids of its user and its assistant message
  scroll,   \* the scroll: pages shown so far, cursors to go on with, has_more
  known     \* history: the messages there were when the scroll began

writerVars == <<clock, nextId, phase, at, ids>>
vars == <<writerVars, scroll, known>>

Role == {"user", "assistant"}
Message == [turn : Turns, role : Role, id : Nat, at : 0 .. MaxTime]

MessagesOf(t) ==
  {[turn |-> t, role |-> "user", id |-> ids[t].user, at |-> at[t]],
   [turn |-> t, role |-> "assistant", id |-> ids[t].assistant, at |-> at[t]]}

\* The committed rows of ask_message.
Committed == {t \in Turns : phase[t] = "committed"}
Messages == UNION {MessagesOf(t) : t \in Committed}

TypeOK ==
  /\ clock \in 0 .. MaxTime
  /\ nextId \in Nat
  /\ phase \in [Turns -> {"idle", "begun", "user", "both", "committed", "aborted"}]
  /\ at \in [Turns -> 0 .. MaxTime]
  /\ ids \in [Turns -> [Role -> Nat]]
  /\ scroll \in [pages : Seq(Seq(Message)), cursors : SUBSET [at : 0 .. MaxTime, id : Nat],
                 more : BOOLEAN]
  /\ known \subseteq Message

Init ==
  /\ clock = 0
  /\ nextId = 1
  /\ phase = [t \in Turns |-> "idle"]
  /\ at = [t \in Turns |-> 0]
  /\ ids = [t \in Turns |-> [r \in Role |-> 0]]
  /\ scroll = [pages |-> <<>>, cursors |-> {}, more |-> TRUE]
  /\ known = {}

-----------------------------------------------------------------------------
(***************************************************************************)
(* persistConversation.                                                    *)
(***************************************************************************)

Advance(t, from, to) == phase[t] = from /\ phase' = [phase EXCEPT ![t] = to]

\* BEGIN fixes now(); two transactions may begin at one instant.
Begin(t) ==
  /\ Advance(t, "idle", "begun")
  /\ \E now \in clock .. clock + Milli :
       now <= MaxTime /\ clock' = now /\ at' = [at EXCEPT ![t] = now]
  /\ UNCHANGED <<nextId, ids, scroll, known>>

InsertMessage(t, role) ==
  /\ ids' = [ids EXCEPT ![t][role] = nextId]
  /\ nextId' = nextId + 1
  /\ UNCHANGED <<clock, at, scroll, known>>

InsertUser(t) == Advance(t, "begun", "user") /\ InsertMessage(t, "user")
InsertAssistant(t) == Advance(t, "user", "both") /\ InsertMessage(t, "assistant")

\* The cache row, last_question_at, and COMMIT.
Commit(t) ==
  /\ Advance(t, "both", "committed")
  /\ UNCHANGED <<clock, nextId, at, ids, scroll, known>>

\* ROLLBACK; the sequence does not take its ids back.
Abort(t) ==
  /\ phase[t] \in {"begun", "user", "both"}
  /\ phase' = [phase EXCEPT ![t] = "aborted"]
  /\ UNCHANGED <<clock, nextId, at, ids, scroll, known>>

-----------------------------------------------------------------------------
(***************************************************************************)
(* Reading.                                                                *)
(***************************************************************************)

\* getLatestMessages: ORDER BY created_at DESC, id DESC, then reversed.
LoadRecentMessages == PageBefore(Messages, {}, HISTORY_MESSAGE_LIMIT)

\* getMessagesBySession: both directions answer in ascending order.
Page == IF Direction = "forward" THEN PageAfter(Messages, scroll.cursors, Limit)
                                 ELSE PageBefore(Messages, scroll.cursors, Limit)

\* Mutant of FetchPage: the row itself is the cursor.
FetchPageByRow ==
  /\ scroll.more
  /\ Len(scroll.pages) < 2 * Cardinality(Turns)
  /\ scroll' = [pages |-> Append(scroll.pages, Page),
                cursors |-> IF Page = <<>> THEN {} ELSE {Page[Len(Page)]},
                more |-> Len(Page) = Limit]
  /\ known' = IF scroll.pages = <<>> THEN Messages ELSE known
  /\ UNCHANGED writerVars

\* next_cursor is that of the last message of the page.
FetchPage ==
  /\ scroll.more
  /\ Len(scroll.pages) < 2 * Cardinality(Turns)
  /\ scroll' = [pages |-> Append(scroll.pages, Page),
                cursors |-> IF Page = <<>> THEN {} ELSE {Cursor(Page[Len(Page)])},
                more |-> Len(Page) = Limit]
  /\ known' = IF scroll.pages = <<>> THEN Messages ELSE known
  /\ UNCHANGED writerVars

Next == \/ \E t \in Turns : \/ Begin(t) \/ InsertUser(t) \/ InsertAssistant(t)
                            \/ Commit(t) \/ Abort(t)
        \/ FetchPage

Spec == Init /\ [][Next]_vars

-----------------------------------------------------------------------------
(***************************************************************************)
(* Properties.                                                             *)
(***************************************************************************)

\* In a list of whole turns every question is followed by its own answer.
Paired(s) ==
  /\ Len(s) % 2 = 0
  /\ \A n \in 1 .. Len(s) \div 2 : /\ s[2 * n - 1].role = "user"
                                   /\ s[2 * n].role = "assistant"
                                   /\ s[2 * n - 1].turn = s[2 * n].turn

\* No other turn has begun at the instant of t.
Alone(t) == \A u \in Committed : at[u] = at[t] => u = t

\* However the transactions of concurrent asks interleave, the history has the
\* answer of a turn right behind its question, unless another turn began at the
\* same instant; and where none did, the history and the part of it that goes
\* into the next prompt are lists of questions each followed by its own answer.
HistoryPaired ==
  /\ \A t \in Committed : Alone(t) =>
       LET s == Ascending(Messages) IN
       \A n \in DOMAIN s : s[n].turn = t /\ s[n].role = "user" =>
         n < Len(s) /\ s[n + 1].turn = t /\ s[n + 1].role = "assistant"
  /\ (\A t \in Committed : Alone(t)) =>
       Paired(Ascending(Messages)) /\ Paired(LoadRecentMessages)

Shown == UNION {ToSet(scroll.pages[n]) : n \in DOMAIN scroll.pages}

\* A forward scroll leaves no message out: one that was there when it began is
\* shown before any later one.
ForwardSkipsNothing ==
  Direction = "forward" =>
    \A m \in known : (\E s \in Shown : Precedes(m, s)) => m \in Shown

\* A message is shown on two pages of a forward scroll only if it is of the same
\* millisecond as the last one of the first of them, which the cursor cannot
\* tell it from.
ForwardRepeatsSameMilli ==
  Direction = "forward" =>
    \A i, j \in DOMAIN scroll.pages : i < j =>
      \A m \in ToSet(scroll.pages[i]) \cap ToSet(scroll.pages[j]) :
        \E k \in i .. j - 1 :
          m.at \div Milli = Last(scroll.pages[k]).at \div Milli

\* A backward scroll shows every message once: each page goes on where the last
\* one ended.
BackwardPagesDisjoint ==
  Direction = "backward" =>
    \A i, j \in DOMAIN scroll.pages :
      i # j => ToSet(scroll.pages[i]) \cap ToSet(scroll.pages[j]) = {}
=============================================================================
