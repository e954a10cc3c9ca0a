----------------------------- MODULE ChunkStore -----------------------------
(***************************************************************************)
(* storeContentEmbeddings (src/repositories/post.repository.ts): BEGIN,    *)
(* DELETE, INSERT and COMMIT, each sent with pool.query.  The API calls it *)
(* for every request to embed a body, the worker for one job at a time.    *)
(*                                                                         *)
(* pool.query takes a client of the pool for one statement.  pg-pool hands *)
(* a client that is released to the first query waiting for one; if none   *)
(* waits it pushes it on a stack of idle clients, and the next query pops  *)
(* that stack.  A call continues in the same tick in which its statement   *)
(* completed, so nothing happens between its release of a client and its   *)
(* next query.  The statements of a call are one transaction only if they  *)
(* all end up on the same client.                                          *)
(*                                                                         *)
(* The rest of the program uses the same pool: a read, a search or the     *)
(* upsert of a title is one statement sent with pool.query, and            *)
(* withTransaction keeps one client from BEGIN to COMMIT or ROLLBACK.      *)
(* They leave post_chunks alone but run on whatever client they are given, *)
(* so a client may come to be idle with the transaction of a call, and its *)
(* row locks, still open.  pg-pool closes a client that has been idle for  *)
(* idleTimeoutMillis, which ends the transaction.                          *)
(*                                                                         *)
(* pc[j] names the statement call j has under way; "deleting" is a DELETE  *)
(* whose snapshot the server has taken.  All calls are for the same post   *)
(* and a call stands for the rows it inserts: PRIMARY KEY (post_id,        *)
(* chunk_index) keeps the rows of two calls from being stored together.    *)
(***************************************************************************)
EXTENDS Naturals, FiniteSets, SequencesExt

CONSTANTS
  Calls,        \* the calls of storeContentEmbeddings for one post
  Others,       \* the other uses of the pool, each made once
  Clients,      \* the clients the pool may open (10 by default)
  NoClient,     \* no client is assigned
  Empty,        \* no chunks are stored
  MaxInFlight,  \* how many calls and other uses may be under way at once
  MaxFaults     \* bound: statements that fail

ASSUME PoolAssumption ==
  /\ Clients # {} /\ NoClient \notin Clients
  /\ Empty \notin Calls /\ Calls \cap Others = {}
  /\ MaxInFlight \in Nat /\ MaxFaults \in Nat

VARIABLES
  pc,       \* pc[j]: where call or use j is
  conn,     \* conn[j]: the client its statement runs on
  waiting,  \* pg-pool: those whose query waits for a client, FIFO
  idle,     \* pg-pool: the stack of idle clients
  tx,       \* tx[c]: the transaction open on client c
  table,    \* post_chunks: the call whose rows are committed, or Empty
  seen,     \* seen[j]: the table in the snapshot of the DELETE of j
  faults,   \* statements that may still fail
  queued    \* history: some query has had to wait for a client

vars == <<pc, conn, waiting, idle, tx, table, seen, faults, queued>>

Users == Calls \cup Others
Use == {"query", "transaction"}
Statement == {"begin", "delete", "deleting", "insert", "commit", "rollback"} \cup Use
NoTx == [open |-> FALSE, deleted |-> FALSE, inserted |-> Empty]
Content == Calls \cup {Empty}

TypeOK ==
  /\ pc \in [Users -> Statement \cup {"idle", "ok", "failed"}]
  /\ conn \in [Users -> Clients \cup {NoClient}]
  /\ waiting \in Seq(Users)
  /\ idle \in Seq(Clients)
  /\ tx \in [Clients -> [open : BOOLEAN, deleted : BOOLEAN, inserted : Content]]
  /\ table \in Content
  /\ seen \in [Calls -> Content]
  /\ faults \in 0 .. MaxFaults
  /\ queued \in BOOLEAN

Init ==
  /\ pc = [j \in Users |-> "idle"]
  /\ conn = [j \in Users |-> NoClient]
  /\ waiting = <<>>
  /\ idle = <<>>
  /\ tx = [c \in Clients |-> NoTx]
  /\ table = Empty
  /\ seen = [j \in Calls |-> Empty]
  /\ faults = MaxFaults
  /\ queued = FALSE

InFlight == {j \in Users : pc[j] \in Statement}
-----------------------------------------------------------------------------
(***************************************************************************)
(* The pool.                                                               *)
(***************************************************************************)

\* pg-pool pops the client that was released last.
Top(stack) == stack[Len(stack)]
Rest(stack) == SubSeq(stack, 1, Len(stack) - 1)

Unopened(assigned, stack) ==
  {c \in Clients : /\ \A n \in DOMAIN stack : stack[n] # c
                   /\ \A j \in Users : assigned[j] # c}

\* j sends a query to a pool with these clients assigned, these idle and this
\* line of waiting queries; or it returns or throws and sends none.
Query(j, assigned, stack, line) ==
  \/ /\ stack # <<>>
     /\ conn' = [assigned EXCEPT ![j] = Top(stack)]
     /\ idle' = Rest(stack)
     /\ waiting' = line
     /\ UNCHANGED queued
  \/ /\ stack = <<>>
     /\ \E c \in Unopened(assigned, stack) : conn' = [assigned EXCEPT ![j] = c]
     /\ UNCHANGED <<idle, queued>>
     /\ waiting' = line
  \/ /\ stack = <<>> /\ Unopened(assigned, stack) = {}
     /\ conn' = [assigned EXCEPT ![j] = NoClient]
     /\ UNCHANGED idle
     /\ waiting' = Append(line, j)
     /\ queued' = TRUE

NoQuery(assigned, stack, line) ==
  conn' = assigned /\ idle' = stack /\ waiting' = line /\ UNCHANGED queued

\* j goes on when its statement is over and its client c was released
\* to the pool, which has these clients idle now unless a query waits for c.
GoOn(j, next, stack) ==
  LET c == conn[j]
      released == [conn EXCEPT ![j] = NoClient]
      After(assigned, rest, line) ==
        IF next \in Statement THEN Query(j, assigned, rest, line)
                              ELSE NoQuery(assigned, rest, line)
  IN
  /\ pc' = [pc EXCEPT ![j] = next]
  /\ IF waiting = <<>>
     THEN After(released, stack, waiting)
     ELSE After([released EXCEPT ![Head(waiting)] = c], idle, Tail(waiting))

\* Mutant of Complete: the pool keeps the query in place of its client.
CompleteKeepingQuery(j, next) == GoOn(j, next, Append(idle, j))

\* The statement of j completed.
Complete(j, next) == GoOn(j, next, Append(idle, conn[j]))

\* The statement of j failed: the pool closes its client, which ends the
\* transaction on it and leaves room for a new one; a call goes to its catch.
Break(j) ==
  /\ tx' = [tx EXCEPT ![conn[j]] = NoTx]
  /\ GoOn(j, IF pc[j] \in {"begin", "rollback"} \cup Use THEN "failed" ELSE "rollback", idle)

\* Mutant of IdleTimeout: idleTimeoutMillis is 0 and no idle client is closed.
NeverTimesOut(c) == FALSE

\* pg-pool closes a client nobody has taken for idleTimeoutMillis.
IdleTimeout(c) ==
  /\ \E n \in DOMAIN idle : idle[n] = c /\ idle' = RemoveAt(idle, n)
  /\ tx' = [tx EXCEPT ![c] = NoTx]
  /\ UNCHANGED <<pc, conn, waiting, table, seen, faults, queued>>

-----------------------------------------------------------------------------
(***************************************************************************)
(* The statements.                                                         *)
(***************************************************************************)

Running(j, statement) == pc[j] = statement /\ conn[j] # NoClient

OtherClients(c) == Clients \ {c}

Start(j) ==
  /\ pc[j] = "idle"
  /\ Cardinality(InFlight) < MaxInFlight
  /\ pc' = [pc EXCEPT ![j] = "begin"]
  /\ Query(j, conn, idle, waiting)
  /\ UNCHANGED <<tx, table, seen, faults>>

\* BEGIN inside an open transaction is a warning and changes nothing.
Begin(j) ==
  /\ Running(j, "begin")
  /\ tx' = [tx EXCEPT ![conn[j]].open = TRUE]
  /\ Complete(j, "delete")
  /\ UNCHANGED <<table, seen, faults>>

\* The server starts on the DELETE: its snapshot is the committed table.
Snapshot(j) ==
  /\ Running(j, "delete")
  /\ seen' = [seen EXCEPT ![j] = table]
  /\ pc' = [pc EXCEPT ![j] = "deleting"]
  /\ UNCHANGED <<conn, waiting, idle, tx, table, faults, queued>>

\* The DELETE waits for a transaction that deleted the rows it has seen, and
\* passes over rows that were committed after its snapshot.
Delete(j) ==
  LET c == conn[j]
      hits == seen[j] # Empty /\ seen[j] = table
  IN
  /\ Running(j, "deleting")
  /\ seen[j] # Empty => \A d \in OtherClients(c) : ~tx[d].deleted
  /\ IF tx[c].open
     THEN /\ tx' = [tx EXCEPT ![c].deleted = @ \/ hits, ![c].inserted = Empty]
          /\ UNCHANGED table
     ELSE /\ table' = IF hits THEN Empty ELSE table
          /\ UNCHANGED tx
  /\ Complete(j, "insert")
  /\ UNCHANGED <<seen, faults>>

\* The INSERT waits for transactions that touched the same keys.
MayInsert(c) == \A d \in OtherClients(c) : ~tx[d].deleted /\ tx[d].inserted = Empty

Duplicate(c) == tx[c].inserted # Empty \/ (table # Empty /\ ~tx[c].deleted)

Insert(j) ==
  LET c == conn[j] IN
  /\ Running(j, "insert")
  /\ MayInsert(c)
  /\ ~Duplicate(c)
  /\ IF tx[c].open
     THEN tx' = [tx EXCEPT ![c].inserted = j] /\ UNCHANGED table
     ELSE table' = j /\ UNCHANGED tx
  /\ Complete(j, "commit")
  /\ UNCHANGED <<seen, faults>>

\* duplicate key value violates the primary key
InsertDuplicate(j) ==
  /\ Running(j, "insert")
  /\ MayInsert(conn[j])
  /\ Duplicate(conn[j])
  /\ Break(j)
  /\ UNCHANGED <<table, seen, faults>>

Committed(c) == IF tx[c].inserted # Empty THEN tx[c].inserted
                ELSE IF tx[c].deleted THEN Empty ELSE table

\* COMMIT without a transaction is a warning and changes nothing.
Commit(j) ==
  /\ Running(j, "commit")
  /\ table' = Committed(conn[j])
  /\ tx' = [tx EXCEPT ![conn[j]] = NoTx]
  /\ Complete(j, "ok")
  /\ UNCHANGED <<seen, faults>>

\* Mutant of Rollback: the error is not thrown again.
RollbackReturns(j) ==
  /\ Running(j, "rollback")
  /\ tx' = [tx EXCEPT ![conn[j]] = NoTx]
  /\ Complete(j, "ok")
  /\ UNCHANGED <<table, seen, faults>>

Rollback(j) ==
  /\ Running(j, "rollback")
  /\ tx' = [tx EXCEPT ![conn[j]] = NoTx]
  /\ Complete(j, "failed")
  /\ UNCHANGED <<table, seen, faults>>

\* A statement fails, or the connection does; a COMMIT may have been executed.
StatementFails(j) ==
  /\ \E statement \in Statement : Running(j, statement)
  /\ faults > 0
  /\ faults' = faults - 1
  /\ \/ UNCHANGED table
     \/ pc[j] = "commit" /\ table' = Committed(conn[j])
  /\ Break(j)
  /\ UNCHANGED seen

-----------------------------------------------------------------------------
(***************************************************************************)
(* The other uses of the pool.                                             *)
(***************************************************************************)

Take(r) ==
  /\ pc[r] = "idle"
  /\ Cardinality(InFlight) < MaxInFlight
  /\ \E use \in Use : pc' = [pc EXCEPT ![r] = use]
  /\ Query(r, conn, idle, waiting)
  /\ UNCHANGED <<tx, table, seen, faults>>

\* The statement runs inside the transaction that is open on its client.
Answer(r) ==
  /\ Running(r, "query")
  /\ Complete(r, "ok")
  /\ UNCHANGED <<tx, table, seen, faults>>

\* COMMIT or ROLLBACK of withTransaction, and the release of its client.  Its
\* BEGIN changed nothing if the transaction of a call was open there.
Finish(r) ==
  /\ Running(r, "transaction")
  /\ tx' = [tx EXCEPT ![conn[r]] = NoTx]
  /\ UNCHANGED table \/ table' = Committed(conn[r])
  /\ Complete(r, "ok")
  /\ UNCHANGED <<seen, faults>>

\* The statement fails, or the connection that withTransaction holds.
UseFails(r) ==
  /\ \E use \in Use : Running(r, use)
  /\ faults > 0
  /\ faults' = faults - 1
  /\ Break(r)
  /\ UNCHANGED <<table, seen>>

-----------------------------------------------------------------------------
Step(j) == \/ Begin(j) \/ Snapshot(j) \/ Delete(j) \/ Insert(j)
           \/ InsertDuplicate(j) \/ Commit(j) \/ Rollback(j)

Next ==
  \/ \E j \in Calls : Start(j) \/ Step(j) \/ StatementFails(j)
  \/ \E r \in Others : Take(r) \/ Answer(r) \/ Finish(r) \/ UseFails(r)
  \/ \E c \in Clients : IdleTimeout(c)

Spec == Init /\ [][Next]_vars

\* The database executes every statement it can execute, withTransaction ends,
\* and the timer of a client that stays idle fires.
FairSpec ==
  /\ Spec
  /\ \A j \in Calls : WF_vars(Step(j))
  /\ \A r \in Others : WF_vars(Answer(r) \/ Finish(r))
  /\ \A c \in Clients : WF_vars(IdleTimeout(c))

-----------------------------------------------------------------------------
(***************************************************************************)
(* Properties.                                                             *)
(***************************************************************************)

Status(j) == CASE pc[j] = "ok" -> "ok"
               [] pc[j] = "failed" -> "failed"
               [] OTHER -> "open"

Abstract == INSTANCE AtomicReplace
              WITH content <- table, status <- [j \in Calls |-> Status(j)]

\* As long as the pool has had a client for every query, the calls implement
\* an atomic replacement: a call that returns has put its chunks in place of
\* the old ones in one step, a call that throws has not touched them (unless
\* the answer to its COMMIT was lost).
ReplacesAtomically ==
  Abstract!Init /\ [][Abstract!Next \/ queued']_(Abstract!vars)

\* Once the traffic ends, every call and every other use of the pool returns or
\* throws, even when statements of several calls meet on one client and a client
\* is left idle with a transaction open: none waits for ever for its row locks.
EveryCallReturns ==
  \A j \in Users : pc[j] \in Statement ~> pc[j] \in {"ok", "failed"}
=============================================================================
