-------------------------- MODULE ChunkStore_proofs --------------------------
(***************************************************************************)
(* Proofs about ChunkStore, for any number of calls, other uses of the     *)
(* pool, clients and failing statements: as long as no query has had to    *)
(* wait for a client, the statements of a call all run on one client, and  *)
(* therefore replace the chunks of a post as a whole.                      *)
(***************************************************************************)
EXTENDS ChunkStore, SequenceTheorems, TLAPS

CallState == Statement \cup {"idle", "ok", "failed"}
Transaction == [open : BOOLEAN, deleted : BOOLEAN, inserted : Content]

\* A set of two names, of which Statement is made.
USE DEF Use

-----------------------------------------------------------------------------
(* The pool.                                                               *)

LEMMA Stack ==
  ASSUME NEW stack \in Seq(Clients), NEW c \in Clients
  PROVE  /\ stack # <<>> => Top(stack) \in Clients /\ Rest(stack) \in Seq(Clients)
         /\ Append(stack, c) \in Seq(Clients) /\ Append(stack, c) # <<>>
         /\ Top(Append(stack, c)) = c /\ Rest(Append(stack, c)) = stack
<1>1. ASSUME stack # <<>>
      PROVE  Top(stack) \in Clients /\ Rest(stack) \in Seq(Clients)
  <2>1. Len(stack) \in Nat \ {0} /\ Len(stack) \in DOMAIN stack
    BY <1>1
  <2>. QED  BY <2>1, SubSeqProperties DEF Top, Rest
<1>2. /\ Append(stack, c) \in Seq(Clients) /\ Append(stack, c) # <<>>
      /\ Top(Append(stack, c)) = c
  BY DEF Top
<1>3. Rest(Append(stack, c)) = stack
  <2>1. Len(Append(stack, c)) = Len(stack) + 1 /\ Len(stack) \in Nat
    OBVIOUS
  <2>2. SubSeq(Append(stack, c), 1, Len(stack)) = stack
    <3>1. /\ SubSeq(Append(stack, c), 1, Len(stack)) \in Seq(Clients)
          /\ Len(SubSeq(Append(stack, c), 1, Len(stack))) = Len(stack)
          /\ \A n \in 1 .. Len(stack) :
               SubSeq(Append(stack, c), 1, Len(stack))[n] = stack[n]
      BY <2>1, <1>2, SubSeqProperties
    <3>. QED  BY <3>1, SeqEqual
  <2>. QED  BY <2>1, <2>2 DEF Rest
<1>. QED  BY <1>1, <1>2, <1>3

LEMMA RemoveClient ==
  ASSUME NEW stack \in Seq(Clients), NEW k \in DOMAIN stack
  PROVE  /\ RemoveAt(stack, k) \in Seq(Clients)
         /\ Len(RemoveAt(stack, k)) = Len(stack) - 1
         /\ \A n \in 1 .. Len(stack) - 1 :
              RemoveAt(stack, k)[n] = stack[IF n < k THEN n ELSE n + 1]
<1>. DEFINE front == SubSeq(stack, 1, k - 1)
            back == SubSeq(stack, k + 1, Len(stack))
<1>1. k \in 1 .. Len(stack) /\ Len(stack) \in Nat
  OBVIOUS
<1>2. /\ front \in Seq(Clients) /\ Len(front) = k - 1
      /\ \A n \in 1 .. k - 1 : front[n] = stack[n]
  BY <1>1, SubSeqProperties
<1>3. /\ back \in Seq(Clients) /\ Len(back) = Len(stack) - k
      /\ \A n \in 1 .. Len(stack) - k : back[n] = stack[k + n]
  BY <1>1, SubSeqProperties
<1>4. RemoveAt(stack, k) = front \o back
  BY DEF RemoveAt
<1>. HIDE DEF front, back
<1>. QED  BY <1>1, <1>2, <1>3, <1>4, SMTT(30)

PoolTyped(assigned, stack, line) ==
  /\ assigned \in [Users -> Clients \cup {NoClient}]
  /\ stack \in Seq(Clients) /\ line \in Seq(Users)

LEMMA QueryTyped ==
  ASSUME NEW j \in Users, NEW assigned, NEW stack, NEW line, queued \in BOOLEAN,
         idle \in Seq(Clients), PoolTyped(assigned, stack, line),
         Query(j, assigned, stack, line) \/ NoQuery(assigned, stack, line)
  PROVE  PoolTyped(conn', idle', waiting') /\ queued' \in BOOLEAN
<1>1. CASE Query(j, assigned, stack, line)
  <2>1. CASE stack # <<>>
    <3>1. Top(stack) \in Clients /\ Rest(stack) \in Seq(Clients)
      BY <2>1, Stack, PoolAssumption DEF PoolTyped
    <3>2. /\ conn' = [assigned EXCEPT ![j] = Top(stack)]
          /\ idle' = Rest(stack) /\ waiting' = line /\ queued' = queued
      BY <1>1, <2>1 DEF Query
    <3>. QED  BY <3>1, <3>2 DEF PoolTyped
  <2>2. CASE stack = <<>>
    <3>1. Append(line, j) \in Seq(Users)
      BY DEF PoolTyped
    <3>2. CASE /\ \E c \in Unopened(assigned, stack) : conn' = [assigned EXCEPT ![j] = c]
               /\ idle' = idle /\ queued' = queued /\ waiting' = line
      <4>1. PICK c \in Clients : conn' = [assigned EXCEPT ![j] = c]
        BY <3>2 DEF Unopened
      <4>. QED  BY <3>2, <4>1 DEF PoolTyped
    <3>3. CASE /\ conn' = [assigned EXCEPT ![j] = NoClient] /\ idle' = idle
               /\ waiting' = Append(line, j) /\ queued' = TRUE
      BY <3>1, <3>3 DEF PoolTyped
    <3>. QED  BY <1>1, <2>2, <3>2, <3>3 DEF Query
  <2>. QED  BY <2>1, <2>2
<1>2. CASE NoQuery(assigned, stack, line)
  BY <1>2 DEF NoQuery, PoolTyped
<1>. QED  BY <1>1, <1>2

LEMMA GoOnTyped ==
  ASSUME TypeOK, NEW j \in Users, conn[j] \in Clients, NEW next \in CallState,
         NEW stack \in Seq(Clients), GoOn(j, next, stack)
  PROVE  /\ PoolTyped(conn', idle', waiting') /\ queued' \in BOOLEAN
         /\ pc' \in [Users -> CallState]
<1>1. pc' \in [Users -> CallState]
  BY DEF GoOn, TypeOK, CallState
<1>2. CASE waiting = <<>>
  <2>1. PoolTyped([conn EXCEPT ![j] = NoClient], stack, waiting)
    BY DEF PoolTyped, TypeOK
  <2>2. \/ Query(j, [conn EXCEPT ![j] = NoClient], stack, waiting)
        \/ NoQuery([conn EXCEPT ![j] = NoClient], stack, waiting)
    BY <1>2 DEF GoOn
  <2>. QED  BY <1>1, <2>1, <2>2, QueryTyped DEF TypeOK
<1>3. CASE waiting # <<>>
  <2>. DEFINE assigned == [[conn EXCEPT ![j] = NoClient] EXCEPT ![Head(waiting)] = conn[j]]
  <2>1. Head(waiting) \in Users /\ Tail(waiting) \in Seq(Users)
    BY <1>3 DEF TypeOK
  <2>2. PoolTyped(assigned, idle, Tail(waiting))
    BY <2>1 DEF PoolTyped, TypeOK
  <2>3. Query(j, assigned, idle, Tail(waiting)) \/ NoQuery(assigned, idle, Tail(waiting))
    BY <1>3 DEF GoOn
  <2>. HIDE DEF assigned
  <2>. QED  BY <1>1, <2>2, <2>3, QueryTyped DEF TypeOK
<1>. QED  BY <1>2, <1>3

\* The statement of a call completed, or broke off with its client.
LEMMA CompleteTyped ==
  ASSUME TypeOK, NEW j \in Users, conn[j] \in Clients, NEW next \in CallState,
         Complete(j, next)
  PROVE  /\ PoolTyped(conn', idle', waiting') /\ queued' \in BOOLEAN
         /\ pc' \in [Users -> CallState]
<1>1. Append(idle, conn[j]) \in Seq(Clients)
  BY Stack DEF TypeOK
<1>. QED  BY <1>1, GoOnTyped DEF Complete

LEMMA BreakTyped ==
  ASSUME TypeOK, NEW j \in Users, conn[j] \in Clients, Break(j)
  PROVE  /\ PoolTyped(conn', idle', waiting') /\ queued' \in BOOLEAN
         /\ pc' \in [Users -> CallState]
         /\ tx' \in [Clients -> Transaction]
<1>1. "failed" \in CallState /\ "rollback" \in CallState
  BY DEF CallState, Statement
<1>2. NoTx \in Transaction
  BY DEF NoTx, Transaction, Content
<1>. QED  BY <1>1, <1>2, GoOnTyped DEF Break, TypeOK, Transaction

LEMMA RunningClient ==
  ASSUME TypeOK, NEW j \in Users, NEW statement, Running(j, statement)
  PROVE  conn[j] \in Clients
BY DEF TypeOK, Running

-----------------------------------------------------------------------------
(* Type correctness.                                                       *)

LEMMA TypeInit == Init => TypeOK
<1>. SUFFICES ASSUME Init PROVE TypeOK
  OBVIOUS
<1>1. waiting \in Seq(Users) /\ idle \in Seq(Clients)
  BY DEF Init
<1>2. tx \in [Clients -> [open : BOOLEAN, deleted : BOOLEAN, inserted : Content]]
  BY DEF Init, NoTx, Content
<1>3. /\ pc \in [Users -> Statement \cup {"idle", "ok", "failed"}]
      /\ conn \in [Users -> Clients \cup {NoClient}]
      /\ table \in Content /\ seen \in [Calls -> Content] /\ queued \in BOOLEAN
  BY DEF Init, Content
<1>4. faults \in 0 .. MaxFaults
  BY PoolAssumption DEF Init
<1>. QED  BY <1>1, <1>2, <1>3, <1>4 DEF TypeOK

LEMMA StepTyped ==
  ASSUME TypeOK, NEW j \in Calls, Start(j) \/ Step(j) \/ StatementFails(j)
  PROVE  TypeOK'
<1>. USE DEF PoolTyped
<1>. j \in Users
  BY DEF Users
<1>1. CASE Start(j)
  <2>1. PoolTyped(conn', idle', waiting') /\ queued' \in BOOLEAN
    BY <1>1, QueryTyped DEF Start, TypeOK
  <2>. QED  BY <1>1, <2>1 DEF Start, TypeOK, Statement
<1>2. CASE Begin(j)
  <2>1. conn[j] \in Clients /\ "delete" \in CallState
    BY <1>2, RunningClient DEF Begin, CallState, Statement
  <2>2. tx' \in [Clients -> Transaction]
    BY <1>2, <2>1 DEF Begin, TypeOK, Transaction
  <2>. QED  BY <1>2, <2>1, <2>2, CompleteTyped DEF Begin, TypeOK, Transaction, CallState
<1>3. CASE Snapshot(j)
  BY <1>3 DEF Snapshot, TypeOK, Statement
<1>4. CASE Delete(j)
  <2>1. conn[j] \in Clients /\ "insert" \in CallState
    BY <1>4, RunningClient DEF Delete, CallState, Statement
  <2>2. tx' \in [Clients -> Transaction] /\ table' \in Content
    <3>1. tx[conn[j]] \in Transaction /\ Empty \in Content
      BY <2>1 DEF TypeOK, Transaction, Content
    <3>2. \A hits \in BOOLEAN :
            [tx[conn[j]] EXCEPT !.deleted = @ \/ hits, !.inserted = Empty] \in Transaction
      BY <3>1 DEF Transaction
    <3>3. CASE tx[conn[j]].open
      <4>1. PICK hits \in BOOLEAN :
              tx' = [tx EXCEPT ![conn[j]].deleted = @ \/ hits, ![conn[j]].inserted = Empty]
        BY <1>4, <3>3 DEF Delete
      <4>2. tx' = [tx EXCEPT ![conn[j]] =
                     [tx[conn[j]] EXCEPT !.deleted = @ \/ hits, !.inserted = Empty]]
        BY <4>1, <2>1 DEF TypeOK
      <4>3. table' = table
        BY <1>4, <3>3 DEF Delete
      <4>. QED  BY <2>1, <3>2, <4>2, <4>3 DEF TypeOK, Transaction
    <3>4. CASE ~tx[conn[j]].open
      BY <1>4, <3>1, <3>4 DEF Delete, TypeOK, Transaction
    <3>. QED  BY <3>3, <3>4
  <2>. QED  BY <1>4, <2>1, <2>2, CompleteTyped DEF Delete, TypeOK, Transaction, CallState
<1>5. CASE Insert(j)
  <2>1. conn[j] \in Clients /\ "commit" \in CallState
    BY <1>5, RunningClient DEF Insert, CallState, Statement
  <2>2. tx' \in [Clients -> Transaction] /\ table' \in Content
    <3>1. [tx[conn[j]] EXCEPT !.inserted = j] \in Transaction /\ j \in Content
      BY <2>1 DEF TypeOK, Transaction, Content
    <3>. QED  BY <1>5, <2>1, <3>1 DEF Insert, TypeOK, Transaction
  <2>. QED  BY <1>5, <2>1, <2>2, CompleteTyped DEF Insert, TypeOK, Transaction, CallState
<1>6. CASE InsertDuplicate(j)
  <2>1. conn[j] \in Clients
    BY <1>6, RunningClient DEF InsertDuplicate
  <2>. QED  BY <1>6, <2>1, BreakTyped DEF InsertDuplicate, TypeOK, Transaction, CallState
<1>7. CASE Commit(j)
  <2>1. conn[j] \in Clients /\ "ok" \in CallState
    BY <1>7, RunningClient DEF Commit, CallState, Statement
  <2>2. tx' \in [Clients -> Transaction] /\ table' \in Content
    BY <1>7, <2>1 DEF Commit, Committed, NoTx, TypeOK, Transaction, Content
  <2>. QED  BY <1>7, <2>1, <2>2, CompleteTyped DEF Commit, TypeOK, Transaction, CallState
<1>8. CASE Rollback(j)
  <2>1. conn[j] \in Clients /\ "failed" \in CallState
    BY <1>8, RunningClient DEF Rollback, CallState, Statement
  <2>2. tx' \in [Clients -> Transaction]
    BY <1>8, <2>1 DEF Rollback, NoTx, TypeOK, Transaction, Content
  <2>. QED  BY <1>8, <2>1, <2>2, CompleteTyped DEF Rollback, TypeOK, Transaction, CallState
<1>9. CASE StatementFails(j)
  <2>1. conn[j] \in Clients
    BY <1>9, RunningClient DEF StatementFails
  <2>2. table' \in Content /\ faults' \in 0 .. MaxFaults
    BY <1>9, <2>1, PoolAssumption DEF StatementFails, Committed, TypeOK, Content
  <2>. QED  BY <1>9, <2>1, <2>2, BreakTyped DEF StatementFails, TypeOK, Transaction, CallState
<1>. QED  BY <1>1, <1>2, <1>3, <1>4, <1>5, <1>6, <1>7, <1>8, <1>9 DEF Step

LEMMA UseTyped ==
  ASSUME TypeOK, NEW r \in Users, Take(r) \/ Answer(r) \/ Finish(r) \/ UseFails(r)
  PROVE  TypeOK'
<1>. USE DEF PoolTyped
<1>1. CASE Take(r)
  <2>1. PoolTyped(conn', idle', waiting') /\ queued' \in BOOLEAN
    BY <1>1, QueryTyped DEF Take, TypeOK
  <2>2. pc' \in [Users -> CallState]
    BY <1>1 DEF Take, TypeOK, CallState, Statement
  <2>. QED  BY <1>1, <2>1, <2>2 DEF Take, TypeOK, CallState
<1>2. CASE Answer(r)
  <2>1. conn[r] \in Clients /\ "ok" \in CallState
    BY <1>2, RunningClient DEF Answer, CallState
  <2>. QED  BY <1>2, <2>1, CompleteTyped DEF Answer, TypeOK, CallState
<1>3. CASE Finish(r)
  <2>1. conn[r] \in Clients /\ "ok" \in CallState
    BY <1>3, RunningClient DEF Finish, CallState
  <2>2. tx' \in [Clients -> Transaction] /\ table' \in Content
    BY <1>3, <2>1 DEF Finish, Committed, NoTx, TypeOK, Transaction, Content
  <2>. QED  BY <1>3, <2>1, <2>2, CompleteTyped DEF Finish, TypeOK, Transaction, CallState
<1>4. CASE UseFails(r)
  <2>1. conn[r] \in Clients
    BY <1>4, RunningClient DEF UseFails
  <2>2. faults' \in 0 .. MaxFaults
    BY <1>4, PoolAssumption DEF UseFails, TypeOK
  <2>. QED  BY <1>4, <2>1, <2>2, BreakTyped DEF UseFails, TypeOK, Transaction, CallState
<1>. QED  BY <1>1, <1>2, <1>3, <1>4

LEMMA IdleTyped ==
  ASSUME TypeOK, NEW c \in Clients, IdleTimeout(c)
  PROVE  TypeOK'
<1>1. PICK n \in DOMAIN idle : idle' = RemoveAt(idle, n)
  BY DEF IdleTimeout
<1>2. idle' \in Seq(Clients)
  BY <1>1, RemoveClient DEF TypeOK
<1>3. NoTx \in Transaction
  BY DEF NoTx, Transaction, Content
<1>. QED  BY <1>2, <1>3 DEF IdleTimeout, TypeOK, Transaction

LEMMA NextTyped ==
  ASSUME TypeOK, [Next]_vars
  PROVE  TypeOK'
<1>1. CASE UNCHANGED vars
  BY <1>1 DEF vars, TypeOK
<1>. QED  BY <1>1, StepTyped, UseTyped, IdleTyped DEF Next, Users

\* The variables of the pool, the transactions and the table keep their types.
THEOREM TypeCorrect == Spec => []TypeOK
<1>. QED  BY TypeInit, NextTyped, PTL DEF Spec

-----------------------------------------------------------------------------
(***************************************************************************)
(* The inductive invariant: while the pool has had a client for every      *)
(* query, each call has a client of its own from its first statement to    *)
(* its last, and the transaction open there is its own.  An idle client,   *)
(* and one that serves another use, then has none of a call's open.        *)
(***************************************************************************)

OwnClients ==
  /\ waiting = <<>>
  /\ \A j \in Users : conn[j] # NoClient <=> pc[j] \in Statement
  /\ \A i, j \in Users : conn[i] # NoClient /\ conn[i] = conn[j] => i = j
  /\ \A n \in DOMAIN idle : \A j \in Users : conn[j] # idle[n]
  /\ \A m, n \in DOMAIN idle : idle[m] = idle[n] => m = n

OwnTransactions ==
  /\ \A c \in Clients : (\A j \in Users : conn[j] # c) => tx[c] = NoTx
  /\ \A j \in Users :
       /\ pc[j] \in {"begin", "rollback"} \cup Use => tx[conn[j]] = NoTx
       /\ pc[j] \in {"delete", "deleting", "insert", "commit"} => tx[conn[j]].open
       /\ pc[j] = "commit" => tx[conn[j]].inserted = j

Apart == ~queued => OwnClients /\ OwnTransactions

-----------------------------------------------------------------------------
(***************************************************************************)
(* What a step of a call does to the pool: its client stays with it, goes  *)
(* back to the stack, or it gets one that is nobody's.                     *)
(***************************************************************************)

Keeps(j) ==
  /\ pc[j] \in Statement /\ pc'[j] \in Statement
  /\ conn' = conn /\ idle' = idle /\ waiting' = waiting /\ queued' = queued

Returns(j) ==
  /\ pc[j] \in Statement /\ pc'[j] \notin Statement
  /\ conn' = [conn EXCEPT ![j] = NoClient] /\ idle' = Append(idle, conn[j])
  /\ waiting' = waiting /\ queued' = queued

\* Its client was closed, and none is needed any more.
Leaves(j) ==
  /\ pc[j] \in Statement /\ pc'[j] \notin Statement
  /\ conn' = [conn EXCEPT ![j] = NoClient] /\ idle' = idle
  /\ waiting' = waiting /\ queued' = queued

\* Its client, if it had one, was closed, and it has another or a new one.
Takes(j) ==
  /\ pc'[j] \in Statement
  /\ conn' = [conn EXCEPT ![j] = conn'[j]] /\ conn'[j] \in Clients
  /\ \A i \in Users : i # j => conn[i] # conn'[j]
  /\ \A n \in DOMAIN idle' : idle'[n] # conn'[j] /\ n \in DOMAIN idle /\ idle'[n] = idle[n]
  /\ waiting' = waiting /\ queued' = queued

Pcs(j) == \A i \in Users : i # j => pc'[i] = pc[i]

LEMMA QueryTakes ==
  ASSUME TypeOK, OwnClients, ~queued', NEW j \in Users,
         Query(j, [conn EXCEPT ![j] = NoClient], idle, <<>>),
         pc'[j] \in Statement
  PROVE  Takes(j)
<1>. DEFINE assigned == [conn EXCEPT ![j] = NoClient]
<1>1. /\ \A i \in Users : i # j => assigned[i] = conn[i]
      /\ assigned[j] = NoClient /\ \A c : [assigned EXCEPT ![j] = c] = [conn EXCEPT ![j] = c]
      /\ conn \in [Users -> Clients \cup {NoClient}] /\ idle \in Seq(Clients) /\ waiting = <<>>
      /\ queued \in BOOLEAN
  BY DEF TypeOK, OwnClients
<1>. HIDE DEF assigned
<1>2. CASE /\ idle # <<>> /\ conn' = [assigned EXCEPT ![j] = Top(idle)]
           /\ idle' = Rest(idle) /\ waiting' = <<>> /\ queued' = queued
  <2>1. Top(idle) \in Clients /\ Len(idle) \in DOMAIN idle /\ Top(idle) = idle[Len(idle)]
    BY <1>1, <1>2 DEF Top
  <2>2. \A n \in DOMAIN idle' : n \in DOMAIN idle /\ n # Len(idle) /\ idle'[n] = idle[n]
    <3>1. Len(idle) \in Nat \ {0} /\ DOMAIN idle = 1 .. Len(idle)
      BY <1>1, <1>2
    <3>2. /\ Rest(idle) \in Seq(Clients) /\ Len(Rest(idle)) = Len(idle) - 1
          /\ \A n \in 1 .. Len(idle) - 1 : Rest(idle)[n] = idle[n]
      BY <1>1, <3>1, SubSeqProperties DEF Rest
    <3>. QED  BY <1>2, <3>1, <3>2
  <2>3. \A n \in DOMAIN idle' : idle'[n] # Top(idle)
    BY <2>1, <2>2 DEF OwnClients
  <2>4. \A i \in Users : conn[i] # Top(idle)
    BY <2>1 DEF OwnClients
  <2>5. conn'[j] = Top(idle) /\ conn' = [conn EXCEPT ![j] = conn'[j]]
    BY <1>1, <1>2
  <2>. QED  BY <1>1, <1>2, <2>1, <2>2, <2>3, <2>4, <2>5 DEF Takes
<1>3. CASE /\ \E c \in Unopened(assigned, idle) : conn' = [assigned EXCEPT ![j] = c]
           /\ idle' = idle /\ waiting' = <<>> /\ queued' = queued
  <2>1. PICK c \in Unopened(assigned, idle) : conn' = [assigned EXCEPT ![j] = c]
    BY <1>3
  <2>2. /\ c \in Clients /\ \A i \in Users : i # j => conn[i] # c
        /\ \A n \in DOMAIN idle : idle[n] # c
    BY <1>1 DEF Unopened
  <2>3. conn'[j] = c /\ conn' = [conn EXCEPT ![j] = conn'[j]]
    BY <1>1, <2>1
  <2>. QED  BY <1>1, <1>3, <2>2, <2>3 DEF Takes
<1>. QED  BY <1>2, <1>3 DEF Query, assigned

\* The client that is released comes back to the call that goes on.
LEMMA CompleteMoves ==
  ASSUME TypeOK, OwnClients, NEW j \in Users, NEW statement \in Statement,
         Running(j, statement), NEW next \in CallState, Complete(j, next)
  PROVE  /\ Pcs(j) /\ pc'[j] = next
         /\ IF next \in Statement THEN Keeps(j) ELSE Returns(j)
<1>1. conn[j] \in Clients /\ waiting = <<>> /\ pc[j] \in Statement
  BY RunningClient DEF OwnClients, Running
<1>2. pc' = [pc EXCEPT ![j] = next] /\ pc'[j] = next /\ Pcs(j)
  BY DEF Complete, GoOn, TypeOK, Pcs
<1>3. /\ Append(idle, conn[j]) # <<>> /\ Top(Append(idle, conn[j])) = conn[j]
      /\ Rest(Append(idle, conn[j])) = idle
  BY <1>1, Stack DEF TypeOK
<1>4. CASE next \in Statement
  <2>1. Query(j, [conn EXCEPT ![j] = NoClient], Append(idle, conn[j]), waiting)
    BY <1>1, <1>4 DEF Complete, GoOn
  <2>2. /\ conn' = [[conn EXCEPT ![j] = NoClient] EXCEPT ![j] = conn[j]]
        /\ idle' = idle /\ waiting' = waiting /\ queued' = queued
    BY <1>3, <2>1 DEF Query
  <2>3. conn' = conn
    BY <2>2 DEF TypeOK
  <2>. QED  BY <1>1, <1>2, <1>4, <2>2, <2>3 DEF Keeps
<1>5. CASE next \notin Statement
  <2>1. NoQuery([conn EXCEPT ![j] = NoClient], Append(idle, conn[j]), waiting)
    BY <1>1, <1>5 DEF Complete, GoOn
  <2>. QED  BY <1>1, <1>2, <1>5, <2>1 DEF NoQuery, Returns
<1>. QED  BY <1>2, <1>4, <1>5

LEMMA BreakMoves ==
  ASSUME TypeOK, OwnClients, ~queued', NEW j \in Users, NEW statement \in Statement,
         Running(j, statement), Break(j)
  PROVE  /\ Pcs(j) /\ tx' = [tx EXCEPT ![conn[j]] = NoTx]
         /\ \/ pc'[j] = "failed" /\ Leaves(j)
            \/ pc'[j] = "rollback" /\ Takes(j)
<1>1. conn[j] \in Clients /\ waiting = <<>> /\ pc[j] \in Statement
  BY RunningClient DEF OwnClients, Running
<1>. DEFINE next == IF pc[j] \in {"begin", "rollback"} \cup Use THEN "failed" ELSE "rollback"
<1>2. /\ pc' = [pc EXCEPT ![j] = next] /\ pc'[j] = next /\ Pcs(j)
      /\ tx' = [tx EXCEPT ![conn[j]] = NoTx]
  BY DEF Break, GoOn, TypeOK, Pcs
<1>3. CASE next = "failed"
  <2>1. next \notin Statement
    BY <1>3 DEF Statement
  <2>2. NoQuery([conn EXCEPT ![j] = NoClient], idle, waiting)
    BY <1>1, <2>1 DEF Break, GoOn
  <2>. QED  BY <1>1, <1>2, <1>3, <2>1, <2>2 DEF NoQuery, Leaves
<1>4. CASE next = "rollback"
  <2>1. next \in Statement
    BY <1>4 DEF Statement
  <2>2. Query(j, [conn EXCEPT ![j] = NoClient], idle, <<>>)
    BY <1>1, <2>1 DEF Break, GoOn
  <2>. QED  BY <1>2, <1>4, <2>1, <2>2, QueryTakes
<1>. QED  BY <1>3, <1>4

LEMMA StartMoves ==
  ASSUME TypeOK, OwnClients, ~queued', NEW j \in Users, Start(j)
  PROVE  Pcs(j) /\ Takes(j) /\ pc'[j] = "begin" /\ conn[j] = NoClient /\ tx' = tx
<1>1. pc'[j] = "begin" /\ pc'[j] \in Statement /\ Pcs(j) /\ tx' = tx
  BY DEF Start, TypeOK, Pcs, Statement
<1>2. conn[j] = NoClient
  BY DEF Start, OwnClients, Statement
<1>3. conn = [conn EXCEPT ![j] = NoClient] /\ waiting = <<>>
  BY <1>2 DEF TypeOK, OwnClients
<1>4. Query(j, [conn EXCEPT ![j] = NoClient], idle, <<>>)
  BY <1>3 DEF Start
<1>. QED  BY <1>1, <1>2, <1>4, QueryTakes

LEMMA OwnClientsNext ==
  ASSUME TypeOK, OwnClients, NEW j \in Users, Pcs(j),
         Keeps(j) \/ Returns(j) \/ Leaves(j) \/ Takes(j)
  PROVE  OwnClients'
<1>1. conn \in [Users -> Clients \cup {NoClient}] /\ NoClient \notin Clients
  BY PoolAssumption DEF TypeOK
<1>2. CASE Keeps(j)
  BY <1>2 DEF OwnClients, Keeps, Pcs
<1>3. CASE Leaves(j)
  <2>1. \A i \in Users : conn'[i] = IF i = j THEN NoClient ELSE conn[i]
    BY <1>1, <1>3 DEF Leaves
  <2>2. idle' = idle /\ waiting' = waiting /\ \A n \in DOMAIN idle : idle[n] \in Clients
    BY <1>3 DEF Leaves, TypeOK
  <2>3. \A i \in Users : conn'[i] # NoClient <=> pc'[i] \in Statement
    BY <1>3, <2>1 DEF OwnClients, Leaves, Pcs
  <2>. QED  BY <1>1, <2>1, <2>2, <2>3 DEF OwnClients
<1>4. CASE Takes(j)
  <2>1. \A i \in Users : conn'[i] = IF i = j THEN conn'[j] ELSE conn[i]
    BY <1>1, <1>4 DEF Takes
  <2>. QED  BY <1>1, <1>4, <2>1 DEF OwnClients, Takes, Pcs
<1>5. CASE Returns(j)
  <2>1. conn[j] \in Clients
    BY <1>1, <1>5 DEF Returns, OwnClients
  <2>2. \A n \in DOMAIN idle' : \/ n \in DOMAIN idle /\ idle'[n] = idle[n]
                                \/ n = Len(idle) + 1 /\ idle'[n] = conn[j]
    BY <1>5, <2>1 DEF Returns, TypeOK
  <2>3. \A i \in Users : conn'[i] = IF i = j THEN NoClient ELSE conn[i]
    BY <1>1, <1>5 DEF Returns
  <2>4. \A n \in DOMAIN idle' : \A i \in Users : conn'[i] # idle'[n]
    BY <1>1, <2>1, <2>2, <2>3 DEF OwnClients, TypeOK
  <2>5. \A m, n \in DOMAIN idle' : idle'[m] = idle'[n] => m = n
    BY <2>2 DEF OwnClients
  <2>. QED  BY <1>1, <1>5, <2>3, <2>4, <2>5 DEF OwnClients, Returns, Pcs
<1>. QED  BY <1>2, <1>3, <1>4, <1>5

\* The history never forgets that a query has had to wait.
LEMMA QueuedStays ==
  ASSUME TypeOK, queued, [Next]_vars
  PROVE  queued'
<1>1. ASSUME NEW j, NEW next, NEW stack, GoOn(j, next, stack)
      PROVE  queued'
  BY <1>1 DEF GoOn, Query, NoQuery
<1>2. ASSUME NEW j \in Calls, Start(j) \/ Step(j) \/ StatementFails(j)
      PROVE  queued'
  BY <1>1, <1>2 DEF Start, Step, StatementFails, Begin, Snapshot, Delete, Insert,
     InsertDuplicate, Commit, Rollback, Complete, Break, Query
<1>3. ASSUME NEW r \in Others, Take(r) \/ Answer(r) \/ Finish(r) \/ UseFails(r)
      PROVE  queued'
  BY <1>1, <1>3 DEF Take, Answer, Finish, UseFails, Complete, Break, Query
<1>4. ASSUME NEW c \in Clients, IdleTimeout(c)
      PROVE  queued'
  BY <1>4 DEF IdleTimeout
<1>. QED  BY <1>2, <1>3, <1>4 DEF Next, vars

-----------------------------------------------------------------------------
(* The transactions.                                                       *)

\* A call alone on its client: the transactions of the others are untouched.
LEMMA TransactionsNext ==
  ASSUME TypeOK, OwnClients, OwnTransactions, NEW j \in Users, Pcs(j),
         Keeps(j) \/ Returns(j) \/ Leaves(j) \/ Takes(j),
         \A c \in Clients : c # conn[j] => tx'[c] = tx[c],
         pc'[j] \notin {"delete", "deleting", "insert", "commit"} /\ conn[j] \in Clients
           => tx'[conn[j]] = NoTx,
         pc'[j] \in {"begin", "rollback"} \cup Use => Takes(j),
         pc'[j] \in {"delete", "deleting", "insert", "commit"} => Keeps(j) /\ tx'[conn[j]].open,
         pc'[j] = "commit" => tx'[conn[j]].inserted = j
  PROVE  OwnTransactions'
<1>1. conn \in [Users -> Clients \cup {NoClient}] /\ NoClient \notin Clients
  BY PoolAssumption DEF TypeOK
<1>2. \A i \in Users : i # j => conn'[i] = conn[i] /\ pc'[i] = pc[i]
  BY <1>1 DEF Keeps, Returns, Leaves, Takes, Pcs
<1>3. ASSUME NEW c \in Clients, \A i \in Users : conn'[i] # c
      PROVE  tx'[c] = NoTx
  <2>1. CASE c = conn[j]
    <3>1. ~Keeps(j)
      BY <1>3, <2>1 DEF Keeps
    <3>. QED  BY <2>1, <3>1
  <2>2. CASE c # conn[j]
    BY <1>2, <1>3, <2>2 DEF OwnTransactions
  <2>. QED  BY <2>1, <2>2
<1>4. ASSUME NEW i \in Users, i # j, pc[i] \in Statement
      PROVE  /\ conn'[i] = conn[i] /\ pc'[i] = pc[i]
             /\ conn[i] \in Clients /\ tx'[conn[i]] = tx[conn[i]]
  BY <1>1, <1>2, <1>4 DEF OwnClients
<1>5. ASSUME Takes(j), pc'[j] \in {"begin", "rollback"} \cup Use
      PROVE  tx'[conn'[j]] = NoTx
  <2>1. conn'[j] \in Clients
    BY <1>5 DEF Takes
  <2>2. CASE conn'[j] = conn[j]
    BY <1>5, <2>1, <2>2
  <2>3. CASE conn'[j] # conn[j]
    BY <1>5, <2>1, <2>3 DEF Takes, OwnTransactions
  <2>. QED  BY <2>2, <2>3
<1>6. /\ pc'[j] \in {"begin", "rollback"} \cup Use => tx'[conn'[j]] = NoTx
      /\ pc'[j] \in {"delete", "deleting", "insert", "commit"} => tx'[conn'[j]].open
      /\ pc'[j] = "commit" => tx'[conn'[j]].inserted = j
  BY <1>5 DEF Keeps
<1>. QED  BY <1>2, <1>3, <1>4, <1>6 DEF OwnTransactions, Statement

LEMMA TakeMoves ==
  ASSUME TypeOK, OwnClients, ~queued', NEW r \in Users, Take(r)
  PROVE  Pcs(r) /\ Takes(r) /\ pc'[r] \in Use /\ conn[r] = NoClient /\ tx' = tx
<1>1. pc'[r] \in Use /\ pc'[r] \in Statement /\ Pcs(r) /\ tx' = tx
  BY DEF Take, TypeOK, Pcs, Statement
<1>2. conn[r] = NoClient
  BY DEF Take, OwnClients, Statement
<1>3. conn = [conn EXCEPT ![r] = NoClient] /\ waiting = <<>>
  BY <1>2 DEF TypeOK, OwnClients
<1>4. Query(r, [conn EXCEPT ![r] = NoClient], idle, <<>>)
  BY <1>3 DEF Take
<1>. QED  BY <1>1, <1>2, <1>4, QueryTakes

\* The client that is closed had no transaction of a call open.
LEMMA IdleNext ==
  ASSUME TypeOK, OwnClients, OwnTransactions, NEW c \in Clients, IdleTimeout(c)
  PROVE  OwnClients' /\ OwnTransactions' /\ table' = table /\ pc' = pc
<1>1. PICK k \in DOMAIN idle : idle[k] = c /\ idle' = RemoveAt(idle, k)
  BY DEF IdleTimeout
<1>2. /\ pc' = pc /\ conn' = conn /\ waiting' = waiting /\ table' = table
      /\ tx' = [tx EXCEPT ![c] = NoTx]
  BY DEF IdleTimeout
<1>3. \A j \in Users : conn[j] # c
  BY <1>1 DEF OwnClients
<1>4. tx[c] = NoTx /\ tx' = tx
  BY <1>2, <1>3 DEF OwnTransactions, TypeOK
<1>5. /\ k \in 1 .. Len(idle) /\ Len(idle) \in Nat /\ DOMAIN idle' = 1 .. Len(idle) - 1
      /\ \A n \in 1 .. Len(idle) - 1 : idle'[n] = idle[IF n < k THEN n ELSE n + 1]
  BY <1>1, RemoveClient DEF TypeOK
<1>6. \A n \in DOMAIN idle' : (IF n < k THEN n ELSE n + 1) \in DOMAIN idle
  BY <1>5 DEF TypeOK
<1>7. \A n \in DOMAIN idle' : \A j \in Users : conn[j] # idle'[n]
  BY <1>5, <1>6 DEF OwnClients
<1>8. \A m, n \in DOMAIN idle' : idle'[m] = idle'[n] => m = n
  BY <1>5, <1>6, SMTT(30) DEF OwnClients
<1>9. OwnClients'
  BY <1>2, <1>7, <1>8 DEF OwnClients
<1>. QED  BY <1>2, <1>4, <1>9 DEF OwnTransactions

LEMMA ApartNext ==
  ASSUME TypeOK, Apart, [Next]_vars
  PROVE  Apart'
<1>. Calls \subseteq Users
  BY DEF Users
<1>. SUFFICES ASSUME ~queued' PROVE OwnClients' /\ OwnTransactions'
  BY DEF Apart
<1>. OwnClients /\ OwnTransactions
  BY QueuedStays DEF Apart
<1>1. ASSUME NEW j \in Calls, Start(j)
      PROVE  OwnClients' /\ OwnTransactions'
  <2>1. Pcs(j) /\ Takes(j) /\ pc'[j] = "begin" /\ conn[j] = NoClient /\ tx' = tx
    BY <1>1, StartMoves
  <2>. QED  BY <2>1, PoolAssumption, OwnClientsNext, TransactionsNext
<1>2. ASSUME NEW j \in Calls, Begin(j)
      PROVE  OwnClients' /\ OwnTransactions'
  <2>1. Pcs(j) /\ pc'[j] = "delete" /\ Keeps(j) /\ conn[j] \in Clients
    BY <1>2, CompleteMoves, RunningClient DEF Begin, CallState, Statement
  <2>2. tx'[conn[j]].open /\ \A c \in Clients : c # conn[j] => tx'[c] = tx[c]
    BY <1>2, <2>1 DEF Begin, TypeOK
  <2>. QED  BY <2>1, <2>2, OwnClientsNext, TransactionsNext
<1>3. ASSUME NEW j \in Calls, Snapshot(j)
      PROVE  OwnClients' /\ OwnTransactions'
  <2>1. Pcs(j) /\ pc'[j] = "deleting" /\ Keeps(j) /\ conn[j] \in Clients /\ tx' = tx
    BY <1>3, RunningClient DEF Snapshot, Keeps, Pcs, TypeOK, Statement, Running
  <2>2. tx[conn[j]].open
    BY <1>3 DEF Snapshot, OwnTransactions, Running
  <2>. QED  BY <2>1, <2>2, OwnClientsNext, TransactionsNext
<1>4. ASSUME NEW j \in Calls, Delete(j)
      PROVE  OwnClients' /\ OwnTransactions'
  <2>1. Pcs(j) /\ pc'[j] = "insert" /\ Keeps(j) /\ conn[j] \in Clients
    BY <1>4, CompleteMoves, RunningClient DEF Delete, CallState, Statement
  <2>2. tx[conn[j]].open
    BY <1>4 DEF Delete, OwnTransactions, Running
  <2>3. tx'[conn[j]].open /\ \A c \in Clients : c # conn[j] => tx'[c] = tx[c]
    BY <1>4, <2>1, <2>2 DEF Delete, TypeOK
  <2>. QED  BY <2>1, <2>3, OwnClientsNext, TransactionsNext
<1>5. ASSUME NEW j \in Calls, Insert(j)
      PROVE  OwnClients' /\ OwnTransactions'
  <2>1. Pcs(j) /\ pc'[j] = "commit" /\ Keeps(j) /\ conn[j] \in Clients
    BY <1>5, CompleteMoves, RunningClient DEF Insert, CallState, Statement
  <2>2. tx[conn[j]].open
    BY <1>5 DEF Insert, OwnTransactions, Running
  <2>3. /\ tx'[conn[j]].open /\ tx'[conn[j]].inserted = j
        /\ \A c \in Clients : c # conn[j] => tx'[c] = tx[c]
    BY <1>5, <2>1, <2>2 DEF Insert, TypeOK
  <2>. QED  BY <2>1, <2>3, OwnClientsNext, TransactionsNext
<1>6. ASSUME NEW j \in Calls, Commit(j) \/ Rollback(j)
      PROVE  OwnClients' /\ OwnTransactions'
  <2>1. Pcs(j) /\ pc'[j] \in {"ok", "failed"} /\ Returns(j) /\ conn[j] \in Clients
    BY <1>6, CompleteMoves, RunningClient DEF Commit, Rollback, CallState, Statement
  <2>2. tx'[conn[j]] = NoTx /\ \A c \in Clients : c # conn[j] => tx'[c] = tx[c]
    BY <1>6, <2>1 DEF Commit, Rollback, TypeOK
  <2>. QED  BY <2>1, <2>2, OwnClientsNext, TransactionsNext
<1>7. ASSUME NEW j \in Calls, InsertDuplicate(j) \/ StatementFails(j)
      PROVE  OwnClients' /\ OwnTransactions'
  <2>1. PICK statement \in Statement : Running(j, statement) /\ Break(j)
    BY <1>7 DEF InsertDuplicate, StatementFails, Statement
  <2>2. /\ Pcs(j) /\ tx' = [tx EXCEPT ![conn[j]] = NoTx] /\ conn[j] \in Clients
        /\ \/ pc'[j] = "failed" /\ Leaves(j)
           \/ pc'[j] = "rollback" /\ Takes(j)
    BY <2>1, BreakMoves, RunningClient
  <2>3. tx'[conn[j]] = NoTx /\ \A c \in Clients : c # conn[j] => tx'[c] = tx[c]
    BY <2>2 DEF TypeOK
  <2>. QED  BY <2>2, <2>3, OwnClientsNext, TransactionsNext
<1>8. CASE UNCHANGED vars
  BY <1>8 DEF vars, OwnClients, OwnTransactions
<1>9. ASSUME NEW r \in Others, Take(r) \/ Answer(r) \/ Finish(r) \/ UseFails(r)
      PROVE  OwnClients' /\ OwnTransactions'
  <2>. r \in Users
    BY DEF Users
  <2>1. CASE Take(r)
    <3>1. Pcs(r) /\ Takes(r) /\ pc'[r] \in Use /\ conn[r] = NoClient /\ tx' = tx
      BY <2>1, TakeMoves
    <3>. QED  BY <3>1, PoolAssumption, OwnClientsNext, TransactionsNext
  <2>2. CASE Answer(r)
    <3>1. Pcs(r) /\ pc'[r] = "ok" /\ Returns(r) /\ conn[r] \in Clients /\ tx' = tx
      BY <2>2, CompleteMoves, RunningClient DEF Answer, CallState, Statement
    <3>2. tx[conn[r]] = NoTx
      BY <2>2 DEF Answer, Running, OwnTransactions
    <3>. QED  BY <3>1, <3>2, OwnClientsNext, TransactionsNext
  <2>3. CASE Finish(r)
    <3>1. Pcs(r) /\ pc'[r] = "ok" /\ Returns(r) /\ conn[r] \in Clients
      BY <2>3, CompleteMoves, RunningClient DEF Finish, CallState, Statement
    <3>2. tx'[conn[r]] = NoTx /\ \A c \in Clients : c # conn[r] => tx'[c] = tx[c]
      BY <2>3, <3>1 DEF Finish, TypeOK
    <3>. QED  BY <3>1, <3>2, OwnClientsNext, TransactionsNext
  <2>4. CASE UseFails(r)
    <3>1. PICK use \in Use : Running(r, use) /\ Break(r)
      BY <2>4 DEF UseFails
    <3>2. /\ Pcs(r) /\ tx' = [tx EXCEPT ![conn[r]] = NoTx] /\ conn[r] \in Clients
          /\ \/ pc'[r] = "failed" /\ Leaves(r)
             \/ pc'[r] = "rollback" /\ Takes(r)
      BY <3>1, BreakMoves, RunningClient DEF Statement
    <3>3. tx'[conn[r]] = NoTx /\ \A c \in Clients : c # conn[r] => tx'[c] = tx[c]
      BY <3>2 DEF TypeOK
    <3>. QED  BY <3>2, <3>3, OwnClientsNext, TransactionsNext
  <2>. QED  BY <1>9, <2>1, <2>2, <2>3, <2>4
<1>. QED  BY <1>1, <1>2, <1>3, <1>4, <1>5, <1>6, <1>7, <1>8, <1>9, IdleNext DEF Next, Step

LEMMA ApartInvariant == Spec => [](TypeOK /\ Apart)
<1>1. Init => Apart
  <2>1. Init => DOMAIN idle = {}
    BY DEF Init
  <2>. QED  BY <2>1 DEF Init, Apart, OwnClients, OwnTransactions, Statement
<1>2. TypeOK /\ Apart /\ [Next]_vars => TypeOK' /\ Apart'
  BY NextTyped, ApartNext
<1>. QED  BY TypeInit, <1>1, <1>2, PTL DEF Spec

-----------------------------------------------------------------------------
(***************************************************************************)
(* The table.  A call changes it at its COMMIT alone, and to its own rows; *)
(* every other step is a failure of the call or nothing to its caller.     *)
(***************************************************************************)

StatusOf == [j \in Calls |-> Status(j)]

LEMMA StatusNext ==
  ASSUME NEW j \in Calls, Pcs(j)
  PROVE  StatusOf' = [StatusOf EXCEPT ![j] = Status(j)']
<1>. Calls \subseteq Users
  BY DEF Users
<1>1. \A i \in Calls : i # j => Status(i)' = Status(i)
  BY DEF Pcs, Status
<1>. QED  BY <1>1 DEF StatusOf

Stutters(j) == table' = table /\ Status(j)' = Status(j)
Fails(j) == table' = table /\ Status(j) = "open" /\ Status(j)' = "failed"
Replaces(j) == table' = j /\ Status(j) = "open" /\ Status(j)' \in {"ok", "open"}

LEMMA StepReplaces ==
  ASSUME TypeOK, OwnClients, OwnTransactions, ~queued',
         NEW j \in Calls, Start(j) \/ Step(j) \/ StatementFails(j)
  PROVE  Pcs(j) /\ (Stutters(j) \/ Fails(j) \/ Replaces(j))
<1>. j \in Users
  BY DEF Users
<1>1. CASE Start(j)
  <2>1. Pcs(j) /\ pc'[j] = "begin" /\ pc[j] = "idle" /\ table' = table
    BY <1>1, StartMoves DEF Start
  <2>. QED  BY <2>1 DEF Stutters, Status
<1>2. CASE Begin(j)
  <2>1. Pcs(j) /\ pc'[j] = "delete" /\ pc[j] = "begin" /\ table' = table
    BY <1>2, CompleteMoves DEF Begin, Running, CallState, Statement
  <2>. QED  BY <2>1 DEF Stutters, Status
<1>3. CASE Snapshot(j)
  <2>1. Pcs(j) /\ pc'[j] = "deleting" /\ pc[j] = "delete" /\ table' = table
    BY <1>3 DEF Snapshot, Running, Pcs, TypeOK
  <2>. QED  BY <2>1 DEF Stutters, Status
<1>4. CASE Delete(j)
  <2>1. Pcs(j) /\ pc'[j] = "insert" /\ pc[j] = "deleting"
    BY <1>4, CompleteMoves DEF Delete, Running, CallState, Statement
  <2>2. tx[conn[j]].open
    BY <2>1 DEF OwnTransactions
  <2>3. table' = table
    BY <1>4, <2>2 DEF Delete
  <2>. QED  BY <2>1, <2>3 DEF Stutters, Status
<1>5. CASE Insert(j)
  <2>1. Pcs(j) /\ pc'[j] = "commit" /\ pc[j] = "insert"
    BY <1>5, CompleteMoves DEF Insert, Running, CallState, Statement
  <2>2. tx[conn[j]].open
    BY <2>1 DEF OwnTransactions
  <2>3. table' = table
    BY <1>5, <2>2 DEF Insert
  <2>. QED  BY <2>1, <2>3 DEF Stutters, Status
<1>6. CASE InsertDuplicate(j)
  <2>1. Pcs(j) /\ pc'[j] \in {"failed", "rollback"} /\ pc[j] = "insert" /\ table' = table
    BY <1>6, BreakMoves DEF InsertDuplicate, Running, Statement
  <2>. QED  BY <2>1 DEF Stutters, Fails, Status
<1>7. CASE Commit(j)
  <2>1. Pcs(j) /\ pc'[j] = "ok" /\ pc[j] = "commit"
    BY <1>7, CompleteMoves DEF Commit, Running, CallState, Statement
  <2>2. table' = j
    BY <1>7, <2>1, PoolAssumption DEF Commit, Committed, OwnTransactions
  <2>. QED  BY <2>1, <2>2 DEF Replaces, Status
<1>8. CASE Rollback(j)
  <2>1. Pcs(j) /\ pc'[j] = "failed" /\ pc[j] = "rollback" /\ table' = table
    BY <1>8, CompleteMoves DEF Rollback, Running, CallState, Statement
  <2>. QED  BY <2>1 DEF Fails, Status
<1>9. CASE StatementFails(j)
  <2>1. PICK statement \in Statement : Running(j, statement)
    BY <1>9 DEF StatementFails
  <2>2. Pcs(j) /\ pc'[j] \in {"failed", "rollback"} /\ pc[j] \in Statement
    BY <1>9, <2>1, BreakMoves DEF StatementFails, Running
  <2>3. table' = table \/ (pc[j] = "commit" /\ table' = j)
    BY <1>9, PoolAssumption DEF StatementFails, Committed, OwnTransactions
  <2>4. pc[j] = "commit" => pc'[j] = "rollback"
    BY <1>9, <2>2 DEF StatementFails, Break, GoOn, TypeOK
  <2>. QED  BY <2>2, <2>3, <2>4 DEF Stutters, Fails, Replaces, Status, Statement
<1>. QED  BY <1>1, <1>2, <1>3, <1>4, <1>5, <1>6, <1>7, <1>8, <1>9 DEF Step

\* Another use of the pool commits nothing of a call's.
LEMMA UseLeaves ==
  ASSUME TypeOK, OwnClients, OwnTransactions, NEW r \in Others,
         Take(r) \/ Answer(r) \/ Finish(r) \/ UseFails(r)
  PROVE  Pcs(r) /\ table' = table
<1>1. r \in Users
  BY DEF Users
<1>2. CASE Finish(r)
  <2>1. tx[conn[r]] = NoTx
    BY <1>1, <1>2 DEF Finish, Running, OwnTransactions
  <2>. QED  BY <1>1, <1>2, <2>1 DEF Finish, Committed, NoTx, Complete, GoOn, Pcs, TypeOK
<1>. QED  BY <1>1, <1>2 DEF Take, Answer, UseFails, Complete, Break, GoOn, Pcs, TypeOK

LEMMA StepImplements ==
  ASSUME TypeOK, Apart, [Next]_vars, ~queued'
  PROVE  [Abstract!Next]_(Abstract!vars)
<1>. OwnClients /\ OwnTransactions
  BY QueuedStays DEF Apart
<1>1. CASE UNCHANGED vars
  BY <1>1 DEF vars, Abstract!vars, Status
<1>2. ASSUME NEW j \in Calls, Start(j) \/ Step(j) \/ StatementFails(j)
      PROVE  [Abstract!Next]_(Abstract!vars)
  <2>1. Pcs(j) /\ (Stutters(j) \/ Fails(j) \/ Replaces(j))
    BY <1>2, StepReplaces
  <2>2. StatusOf' = [StatusOf EXCEPT ![j] = Status(j)'] /\ StatusOf[j] = Status(j)
    BY <2>1, StatusNext DEF StatusOf
  <2>3. CASE Stutters(j)
    <3>1. StatusOf' = StatusOf
      BY <2>2, <2>3 DEF Stutters, StatusOf
    <3>. QED  BY <2>3, <3>1 DEF Stutters, Abstract!vars, StatusOf
  <2>4. CASE Fails(j)
    <3>1. Abstract!Fail(j)
      BY <2>2, <2>4 DEF Fails, Abstract!Fail, StatusOf
    <3>. QED  BY <3>1 DEF Abstract!Next
  <2>5. CASE Replaces(j)
    <3>1. Abstract!Replace(j)
      BY <2>2, <2>5 DEF Replaces, Abstract!Replace, StatusOf
    <3>. QED  BY <3>1 DEF Abstract!Next
  <2>. QED  BY <2>1, <2>3, <2>4, <2>5
<1>3. ASSUME NEW r \in Others, Take(r) \/ Answer(r) \/ Finish(r) \/ UseFails(r)
      PROVE  [Abstract!Next]_(Abstract!vars)
  <2>1. Pcs(r) /\ table' = table
    BY <1>3, UseLeaves
  <2>2. StatusOf' = StatusOf
    BY <2>1, PoolAssumption DEF Pcs, StatusOf, Status, Users
  <2>. QED  BY <2>1, <2>2 DEF Abstract!vars, StatusOf
<1>4. ASSUME NEW c \in Clients, IdleTimeout(c)
      PROVE  [Abstract!Next]_(Abstract!vars)
  <2>1. table' = table /\ pc' = pc
    BY <1>4, IdleNext
  <2>. QED  BY <2>1 DEF Abstract!vars, Status
<1>. QED  BY <1>1, <1>2, <1>3, <1>4 DEF Next

\* storeContentEmbeddings keeps the promise of a transaction, for any number of
\* calls, other uses of the pool, clients and failing statements, until a query has had to wait.
THEOREM StoreIsAtomic == Spec => ReplacesAtomically
<1>1. Init => Abstract!Init
  BY DEF Init, Abstract!Init, Status, Users
<1>2. TypeOK /\ Apart /\ [Next]_vars => [Abstract!Next \/ queued']_(Abstract!vars)
  BY StepImplements
<1>. QED  BY ApartInvariant, <1>1, <1>2, PTL DEF Spec, ReplacesAtomically

=============================================================================
