---------------------------- MODULE HistoryViews ----------------------------
(***************************************************************************)
(* The two views of the history a client can scroll through: the list of   *)
(* its sessions (SessionList) and the messages of one of them              *)
(* (SessionMessages).  A client has one of the two open; the rows of both  *)
(* tables come from sequences and clocks of their own, and neither         *)
(* endpoint reads what the other one pages through.                        *)
(***************************************************************************)
EXTENDS PageCursor

CONSTANTS
  Turns, Slots,                  \* conversations and sessions to be created
  MessageLimit, SessionLimit,    \* limits of the pages
  MaxMessageTime, MaxSessionTime \* bounds: the clocks

VARIABLES
  open,                                    \* the view: "messages" or "sessions"
  clock, nextId, phase, at, ids, scroll, known,           \* of the messages
  sClock, sNextId, sPhase, row, sScroll, sKnown           \* of the sessions

messageVars == <<clock, nextId, phase, at, ids, scroll, known>>
sessionVars == <<sClock, sNextId, sPhase, row, sScroll, sKnown>>
vars == <<open, messageVars, sessionVars>>

M == INSTANCE SessionMessages WITH
       Limit <- MessageLimit, Direction <- "forward", MaxTime <- MaxMessageTime

S == INSTANCE SessionList WITH
       Limit <- SessionLimit, MaxTime <- MaxSessionTime,
       clock <- sClock, nextId <- sNextId, phase <- sPhase, scroll <- sScroll,
       known <- sKnown

ASSUME ViewsAssumption == M!MessagesAssumption /\ S!ListAssumption

Init == open \in {"messages", "sessions"} /\ M!Init /\ S!Init

MessageStep == open = "messages" /\ M!Next /\ UNCHANGED <<open, sessionVars>>
SessionStep == open = "sessions" /\ S!Next /\ UNCHANGED <<open, messageVars>>

Next == MessageStep \/ SessionStep

Spec == Init /\ [][Next]_vars

-----------------------------------------------------------------------------

TypeOK == M!TypeOK /\ S!TypeOK

\* However the transactions of concurrent asks interleave, the history of the
\* session, and the part of it that goes into the next prompt, is a list of
\* questions each followed by its own answer: but for asks whose transactions
\* began at one instant, which only the interleaved ids can order.
HistoryPaired == M!HistoryPaired

\* A forward scroll leaves no message out: one that was there when it began is
\* shown before any later one.
ForwardSkipsNothing == M!ForwardSkipsNothing

\* A message is shown on two pages of a forward scroll only if it is of the same
\* millisecond as the last one of the first of them, which the cursor cannot
\* tell it from.
ForwardRepeatsSameMilli == M!ForwardRepeatsSameMilli

\* No session is shown twice, and a later page never holds a session that is
\* listed before one of an earlier page, whatever commits in between.
PagesDescend == S!PagesDescend

\* A finished scroll has shown every session that was there when it began and
\* still is, except those that were created in the same millisecond as the last
\* session of some page, which the cursor passes over.
AllShownUnlessSameMilli == S!AllShownUnlessSameMilli
=============================================================================
