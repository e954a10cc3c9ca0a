--------------------------- MODULE EmbeddingWorker ---------------------------
(***************************************************************************)
(* The embedding worker: src/worker/queue-consumer.ts.                     *)
(*                                                                         *)
(* The blog backend edits posts and LPUSHes embedding jobs on a Redis      *)
(* list; worker processes BRPOP them, re-embed the title and the body of   *)
(* the post, delete the question cache of the post's owner, and requeue a  *)
(* job that failed until it has been tried MaxRetries times.               *)
(*                                                                         *)
(* A worker is one Node.js process, so the code between two awaits is one  *)
(* step.  pc[w] names the await the worker is parked on:                   *)
(*   "brpop"        redis.brpop(queueKey, 0)                               *)
(*   "find"         findPostById                                           *)
(*   "storeTitle"   storeTitleEmbedding (embedding call and upsert)        *)
(*   "storeContent" createEmbeddings and storeContentEmbeddings            *)
(*   "invalidate"   deleteEmbeddingsByOwner                                *)
(*   "backoff"      the sleep before, and the LPUSH of, a retry            *)
(*   "lpushFailed"  pushToFailedQueue                                      *)
(*   "pause"        the sleep of the main loop's catch                     *)
(*   "exited"       the process is gone                                    *)
(*                                                                         *)
(* Texts are abstracted to version numbers: 0 is a text that is blank      *)
(* after trim(), and every edit that changes a text gives it a number      *)
(* never used before.  titleEmb[p] and chunks[p] hold the version that     *)
(* post_title_embeddings and post_chunks were computed from (0: no row).   *)
(*                                                                         *)
(* id numbers the elements of the lists, in the order they were pushed.    *)
(* ioredis sends a command again whose reply the connection lost, so one   *)
(* LPUSH of a worker may push its payload twice: the second element has a  *)
(* number of its own, and copyOf says whose payload it repeats.            *)
(***************************************************************************)
EXTENDS Integers, Sequences, FiniteSets

CONSTANTS
  Workers,      \* the worker processes (docker compose up --scale worker=n)
  Posts,        \* the posts of one blog owner
  NoPost,       \* a postId that is not a positive finite number
  Null,         \* the payload null: JSON, but without any field to read
  MaxRetries,   \* EMBEDDING_WORKER_MAX_RETRIES, which may be any number
  MaxEdits,     \* bound: edits and deletions of posts
  MaxJobs,      \* bound: elements pushed, copies included
  MaxAnswers,   \* bound: asks of the API whose answer may be cached
  FaultBudget   \* bound: how many faults of each kind may happen

FaultKinds == {"service", "cache", "redis", "reply", "signal", "kill"}

ASSUME WorkerAssumption ==
  /\ Workers # {}
  /\ NoPost \notin Posts /\ Null \notin Posts /\ Null # NoPost
  /\ MaxRetries \in Int
  /\ MaxEdits \in Nat /\ MaxJobs \in Nat \ {0} /\ MaxAnswers \in Nat
  /\ FaultBudget \in [FaultKinds -> Nat]

VARIABLES
  queue,        \* the Redis list queueKey; the head is what BRPOP returns
  failed,       \* the Redis list failedQueueKey
  pc,           \* pc[w]: where worker w is
  job,          \* job[w]: the payload worker w holds in memory
  snap,         \* snap[w]: the post row worker w loaded
  stopping,     \* stopping[w]: the worker's shuttingDown flag
  row,          \* row[p]: blog_post as the backend last committed it
  titleEmb,     \* titleEmb[p]: the title version post_title_embeddings holds
  chunks,       \* chunks[p]: the body version post_chunks holds
  asking,       \* asks between reading the embeddings and caching the answer
  answerCache,  \* ask_question_cache: the versions each answer was made from
  edits, pushed, answered,   \* how much of each bound is used
  faults,       \* faults[k]: faults of kind k that may still happen
  tries,        \* history: tries[i], how often processJob ran on element i
  done,         \* history: elements whose processJob returned
  lost,         \* history: elements that are nowhere any more
  copyOf,       \* history: copyOf[i], the element whose payload i repeats, or i
  nulls         \* history: elements that are the payload null

redisVars == <<queue, failed>>
workerVars == <<pc, job, snap, stopping>>
dbVars == <<row, titleEmb, chunks, asking, answerCache>>
boundVars == <<edits, pushed, answered>>
history == <<tries, done, lost, copyOf, nulls>>
vars == <<redisVars, workerVars, dbVars, boundVars, faults, history>>

Version == 0 .. MaxEdits
Row == [state : {"absent", "live", "deleted"}, title : Version, content : Version]
Payload == [id : 1 .. MaxJobs, json : BOOLEAN, post : Posts \cup {NoPost, Null},
            title : BOOLEAN, content : BOOLEAN, attempt : Nat]
\* What an ask made its answer from; overlapped: a deletion of the owner's cached
\* answers came between its reading of the embeddings and its caching.
Answer == [post : Posts, title : Version, content : Version, overlapped : BOOLEAN]

\* The awaits inside processJob, and those during which the worker is the
\* only holder of a payload.
InJob == {"find", "storeTitle", "storeContent", "invalidate"}
Holding == InJob \cup {"backoff", "lpushFailed"}
PcValue == Holding \cup {"brpop", "pause", "exited"}

NoRow == [state |-> "absent", title |-> 0, content |-> 0]
NoJob == [id |-> 1, json |-> FALSE, post |-> NoPost,
          title |-> FALSE, content |-> FALSE, attempt |-> 0]

TypeOK ==
  /\ queue \in Seq(Payload)
  /\ failed \in Seq(Payload)
  /\ pc \in [Workers -> PcValue]
  /\ job \in [Workers -> Payload]
  /\ snap \in [Workers -> Row]
  /\ stopping \in [Workers -> BOOLEAN]
  /\ row \in [Posts -> Row]
  /\ titleEmb \in [Posts -> Version]
  /\ chunks \in [Posts -> Version]
  /\ asking \subseteq Answer
  /\ answerCache \subseteq Answer
  /\ edits \in 0 .. MaxEdits
  /\ pushed \in 0 .. MaxJobs
  /\ answered \in 0 .. MaxAnswers
  /\ faults \in [FaultKinds -> Nat]
  /\ tries \in [1 .. MaxJobs -> Nat]
  /\ done \subseteq 1 .. MaxJobs
  /\ lost \subseteq 1 .. MaxJobs
  /\ copyOf \in [1 .. MaxJobs -> 1 .. MaxJobs]
  /\ nulls \subseteq 1 .. MaxJobs

Init ==
  /\ queue = <<>>
  /\ failed = <<>>
  /\ pc = [w \in Workers |-> "brpop"]
  /\ job = [w \in Workers |-> NoJob]
  /\ snap = [w \in Workers |-> NoRow]
  /\ stopping = [w \in Workers |-> FALSE]
  /\ row = [p \in Posts |-> NoRow]
  /\ titleEmb = [p \in Posts |-> 0]
  /\ chunks = [p \in Posts |-> 0]
  /\ asking = {}
  /\ answerCache = {}
  /\ edits = 0
  /\ pushed = 0
  /\ answered = 0
  /\ faults = FaultBudget
  /\ tries = [i \in 1 .. MaxJobs |-> 0]
  /\ done = {}
  /\ lost = {}
  /\ copyOf = [i \in 1 .. MaxJobs |-> i]
  /\ nulls = {}

Live(p) == row[p].state = "live"

Spend(kind) ==
  /\ faults[kind] > 0
  /\ faults' = [faults EXCEPT ![kind] = @ - 1]

-----------------------------------------------------------------------------
(***************************************************************************)
(* The blog backend (outside this repository) and the API process.         *)
(***************************************************************************)

\* LPUSH by the producer: LPUSH and BRPOP make the list a FIFO queue.
Push(json, p, t, c) ==
  /\ pushed < MaxJobs
  /\ pushed' = pushed + 1
  /\ queue' = Append(queue, [id |-> pushed + 1, json |-> json, post |-> p,
                             title |-> t, content |-> c, attempt |-> 0])

\* A post is created or edited; the flags say which texts changed.
SavePost(p) ==
  /\ row[p].state # "deleted"
  /\ edits < MaxEdits
  /\ \E t \in {row[p].title, 0, edits + 1}, c \in {row[p].content, 0, edits + 1} :
       LET new == [state |-> "live", title |-> t, content |-> c] IN
       /\ new # row[p]
       /\ row' = [row EXCEPT ![p] = new]
       /\ Push(TRUE, p, t # row[p].title, c # row[p].content)
  /\ edits' = edits + 1
  /\ UNCHANGED <<failed, workerVars, titleEmb, chunks, asking, answerCache, answered,
                 faults, history>>

\* A post is deleted; its embeddings go with it by ON DELETE CASCADE.
DeletePost(p) ==
  /\ Live(p)
  /\ edits < MaxEdits
  /\ edits' = edits + 1
  /\ row' = [row EXCEPT ![p] = [NoRow EXCEPT !.state = "deleted"]]
  /\ titleEmb' = [titleEmb EXCEPT ![p] = 0]
  /\ chunks' = [chunks EXCEPT ![p] = 0]
  /\ Push(TRUE, p, TRUE, TRUE)
  /\ UNCHANGED <<failed, workerVars, asking, answerCache, answered, faults, history>>

\* A payload no worker can use: text that is not JSON, null, a bad postId, or
\* flags that parseFlag reads as false.
PushUnusable ==
  /\ \/ \E json \in BOOLEAN : Push(json, NoPost, TRUE, TRUE) /\ UNCHANGED nulls
     \/ Push(TRUE, Null, FALSE, FALSE) /\ nulls' = nulls \cup {pushed + 1}
     \/ \E p \in Posts : Push(TRUE, p, FALSE, FALSE) /\ UNCHANGED nulls
  /\ UNCHANGED <<failed, workerVars, dbVars, edits, answered, faults, tries, done,
                 lost, copyOf>>

\* An ask of the API retrieves the embeddings of p and starts its answer.
AskReads(p) ==
  /\ Live(p)
  /\ answered < MaxAnswers
  /\ answered' = answered + 1
  /\ asking' = asking \cup {[post |-> p, title |-> titleEmb[p], content |-> chunks[p],
                             overlapped |-> FALSE]}
  /\ UNCHANGED <<redisVars, workerVars, row, titleEmb, chunks, answerCache, edits,
                 pushed, faults, history>>

\* The answer is complete, and insertQuestionEmbedding caches it.
AskCaches(a) ==
  /\ asking' = asking \ {a}
  /\ answerCache' = answerCache \cup {a}
  /\ UNCHANGED <<redisVars, workerVars, row, titleEmb, chunks, boundVars, faults,
                 history>>

-----------------------------------------------------------------------------
(***************************************************************************)
(* The main loop and handlePayload.                                        *)
(***************************************************************************)

Goto(w, label) == pc' = [pc EXCEPT ![w] = label]

\* while (!shuttingDown): where the loop goes when handlePayload returns.
LoopTop(w) == IF stopping[w] THEN "exited" ELSE "brpop"

\* The reply of BRPOP arrives and handlePayload starts on the payload.
Pop(w) ==
  /\ pc[w] = "brpop"
  /\ queue # <<>>
  /\ queue' = Tail(queue)

\* The worker has nothing of the payload in memory any more.
Release(w) ==
  /\ job' = [job EXCEPT ![w] = NoJob]
  /\ snap' = [snap EXCEPT ![w] = NoRow]

\* processJob returned.
Finish(w, id) ==
  /\ done' = done \cup {id}
  /\ Release(w)
  /\ Goto(w, LoopTop(w))

\* Mutant of Throw: one retry too many.
ThrowOnceMore(w, j) ==
  LET next == j.attempt + 1 IN
  /\ job' = [job EXCEPT ![w] = [j EXCEPT !.attempt = next]]
  /\ snap' = [snap EXCEPT ![w] = NoRow]
  /\ Goto(w, IF next <= MaxRetries THEN "backoff" ELSE "lpushFailed")

\* The catch of handlePayload: retry while nextAttempt < maxRetries.
Throw(w, j) ==
  LET next == j.attempt + 1 IN
  /\ job' = [job EXCEPT ![w] = [j EXCEPT !.attempt = next]]
  /\ snap' = [snap EXCEPT ![w] = NoRow]
  /\ Goto(w, IF next < MaxRetries THEN "backoff" ELSE "lpushFailed")

Attempted(id) == tries' = [tries EXCEPT ![id] = @ + 1]

\* Mutant of TakeMalformed: the payload goes back to the queue.
RequeueMalformed(w) ==
  /\ Pop(w)
  /\ ~Head(queue).json
  /\ queue' = Append(Tail(queue), Head(queue))
  /\ UNCHANGED <<failed, workerVars, dbVars, boundVars, faults, history>>

\* JSON.parse throws: straight to the failed queue.
TakeMalformed(w) ==
  /\ Pop(w)
  /\ ~Head(queue).json
  /\ job' = [job EXCEPT ![w] = Head(queue)]
  /\ Goto(w, "lpushFailed")
  /\ UNCHANGED <<failed, snap, stopping, dbVars, boundVars, faults, history>>

\* null has no attempt to read: the TypeError is thrown before the try of
\* handlePayload, and all that is left of the payload is the log of the main loop.
TakeNull(w) ==
  /\ Pop(w)
  /\ Head(queue).json
  /\ Head(queue).post = Null
  /\ lost' = lost \cup {Head(queue).id}
  /\ Goto(w, "pause")
  /\ UNCHANGED <<failed, job, snap, stopping, dbVars, boundVars, faults, tries, done,
                 copyOf, nulls>>

\* 'Invalid postId in embedding job'
TakeInvalid(w) ==
  /\ Pop(w)
  /\ Head(queue).json
  /\ Head(queue).post = NoPost
  /\ Throw(w, Head(queue))
  /\ Attempted(Head(queue).id)
  /\ UNCHANGED <<failed, stopping, dbVars, boundVars, faults, done, lost,
                 copyOf, nulls>>

\* Neither flag is set: the job is skipped as no_targets.
TakeUntargeted(w) ==
  /\ Pop(w)
  /\ Head(queue).json
  /\ Head(queue).post \in Posts
  /\ ~Head(queue).title /\ ~Head(queue).content
  /\ Finish(w, Head(queue).id)
  /\ Attempted(Head(queue).id)
  /\ UNCHANGED <<failed, stopping, dbVars, boundVars, faults, lost, copyOf, nulls>>

TakeJob(w) ==
  /\ Pop(w)
  /\ Head(queue).json
  /\ Head(queue).post \in Posts
  /\ Head(queue).title \/ Head(queue).content
  /\ job' = [job EXCEPT ![w] = Head(queue)]
  /\ Goto(w, "find")
  /\ Attempted(Head(queue).id)
  /\ UNCHANGED <<failed, snap, stopping, dbVars, boundVars, faults, done, lost,
                 copyOf, nulls>>

-----------------------------------------------------------------------------
(***************************************************************************)
(* processJob.                                                             *)
(***************************************************************************)

\* Mutants of AfterTitle: a stored title ends the job before its body, or
\* without the deletion of the cached answers.
BodyForgotten(w, post, stored) ==
  CASE stored                                      -> "invalidate"
    [] ~stored /\ job[w].content /\ post.content # 0 -> "storeContent"
    [] OTHER                                       -> "return"

TitleKeepsCache(w, post, stored) ==
  IF job[w].content /\ post.content # 0 THEN "storeContent" ELSE "return"

\* Where processJob goes after the title part; "return" leaves the job.  A
\* blank body returns at once, whatever the title part has done.
AfterTitle(w, post, stored) ==
  CASE job[w].content /\ post.content = 0  -> "return"
    [] job[w].content /\ post.content # 0  -> "storeContent"
    [] ~job[w].content                     -> IF stored THEN "invalidate" ELSE "return"

\* Mutant of Continue: the early return is not taken.
NeverReturn(w, post, label) ==
  /\ Goto(w, label)
  /\ snap' = [snap EXCEPT ![w] = post]
  /\ UNCHANGED <<job, done>>

Continue(w, post, label) ==
  IF label = "return"
  THEN Finish(w, job[w].id)
  ELSE /\ Goto(w, label)
       /\ snap' = [snap EXCEPT ![w] = post]
       /\ UNCHANGED <<job, done>>

\* findPostById returned a row; a blank title is skipped.
FindPost(w) ==
  LET post == row[job[w].post] IN
  /\ pc[w] = "find"
  /\ post.state = "live"
  /\ Continue(w, post, IF job[w].title /\ post.title # 0 THEN "storeTitle"
                       ELSE AfterTitle(w, post, FALSE))
  /\ UNCHANGED <<redisVars, stopping, dbVars, boundVars, faults, tries, lost, copyOf,
                 nulls>>

\* The title is embedded and upserted (post_id references a live row).
StoreTitle(w) ==
  /\ pc[w] = "storeTitle"
  /\ Live(job[w].post)
  /\ titleEmb' = [titleEmb EXCEPT ![job[w].post] = snap[w].title]
  /\ Continue(w, snap[w], AfterTitle(w, snap[w], TRUE))
  /\ UNCHANGED <<redisVars, stopping, row, chunks, asking, answerCache, boundVars,
                 faults, tries, lost, copyOf, nulls>>

\* Mutant of StoreContent: the title is embedded in place of the body.
StoreTitleAsContent(w) ==
  /\ pc[w] = "storeContent"
  /\ Live(job[w].post)
  /\ chunks' = [chunks EXCEPT ![job[w].post] = snap[w].title]
  /\ Goto(w, "invalidate")
  /\ UNCHANGED <<redisVars, job, snap, stopping, row, titleEmb, asking, answerCache,
                 boundVars, faults, history>>

\* The body is chunked and embedded, and its rows are replaced.
StoreContent(w) ==
  /\ pc[w] = "storeContent"
  /\ Live(job[w].post)
  /\ chunks' = [chunks EXCEPT ![job[w].post] = snap[w].content]
  /\ Goto(w, "invalidate")
  /\ UNCHANGED <<redisVars, job, snap, stopping, row, titleEmb, asking, answerCache,
                 boundVars, faults, history>>

\* Mutant of JobError: the error is logged and the job forgotten.
DropOnError(w) ==
  /\ pc[w] \in {"find", "storeTitle", "storeContent"}
  /\ IF Live(job[w].post) THEN Spend("service") ELSE UNCHANGED faults
  /\ lost' = lost \cup {job[w].id}
  /\ Release(w)
  /\ Goto(w, LoopTop(w))
  /\ UNCHANGED <<redisVars, stopping, dbVars, boundVars, tries, done,
                 copyOf, nulls>>

\* The await rejects: no such row, a foreign key error, or an outside failure.
JobError(w) ==
  /\ pc[w] \in {"find", "storeTitle", "storeContent"}
  /\ IF Live(job[w].post) THEN Spend("service") ELSE UNCHANGED faults
  /\ Throw(w, job[w])
  /\ UNCHANGED <<redisVars, stopping, dbVars, boundVars, history>>

\* deleteEmbeddingsByOwner: every cached answer of the owner goes; what an ask in
\* flight is about to cache stays out of its reach.
InvalidateCache(w) ==
  /\ pc[w] = "invalidate"
  /\ answerCache' = {}
  /\ asking' = {[a EXCEPT !.overlapped = TRUE] : a \in asking}
  /\ Finish(w, job[w].id)
  /\ UNCHANGED <<redisVars, stopping, row, titleEmb, chunks, boundVars, faults,
                 tries, lost, copyOf, nulls>>

\* An error of the deletion is logged and the job still succeeds.
InvalidateFails(w) ==
  /\ pc[w] = "invalidate"
  /\ Spend("cache")
  /\ Finish(w, job[w].id)
  /\ UNCHANGED <<redisVars, stopping, dbVars, boundVars, tries, lost, copyOf, nulls>>

-----------------------------------------------------------------------------
(***************************************************************************)
(* Retry and the failed queue.                                             *)
(***************************************************************************)

Lose(id) == lost' = lost \cup {id}

\* The element a repeated LPUSH adds: the payload the worker holds, as it is.
AddCopy(w) ==
  LET k == pushed + 1
      copy == [job[w] EXCEPT !.id = k] IN
  /\ pushed < MaxJobs
  /\ pushed' = k
  /\ IF pc[w] = "backoff"
     THEN queue' = Append(queue, copy) /\ UNCHANGED failed
     ELSE failed' = Append(failed, copy) /\ UNCHANGED queue
  /\ tries' = [tries EXCEPT ![k] = tries[job[w].id]]
  /\ copyOf' = [copyOf EXCEPT ![k] = copyOf[job[w].id]]

\* Redis executes the LPUSH of the worker and the connection drops before its reply
\* is read.  The worker stays parked: ioredis sends the command again (Requeue,
\* PushFailed) or gives up on it (RequeueFails, PushFailedSwallowed).
ReplyUnread(w) ==
  /\ pc[w] \in {"backoff", "lpushFailed"}
  /\ ~stopping[w]
  /\ Spend("reply")
  /\ AddCopy(w)
  /\ UNCHANGED <<workerVars, dbVars, edits, answered, done, lost, nulls>>

\* After redis.disconnect() every command is rejected.
RedisRejects(w) == IF stopping[w] THEN UNCHANGED faults ELSE Spend("redis")

Requeue(w) ==
  /\ pc[w] = "backoff"
  /\ ~stopping[w]
  /\ queue' = Append(queue, job[w])
  /\ Release(w)
  /\ Goto(w, "brpop")
  /\ UNCHANGED <<failed, stopping, dbVars, boundVars, faults, history>>

\* The LPUSH of the retry rejects; the error reaches the catch of the loop.
RequeueFails(w) ==
  /\ pc[w] = "backoff"
  /\ RedisRejects(w)
  /\ Lose(job[w].id)
  /\ Release(w)
  /\ Goto(w, IF stopping[w] THEN "exited" ELSE "pause")
  /\ UNCHANGED <<redisVars, stopping, dbVars, boundVars, tries, done,
                 copyOf, nulls>>

Resume(w) ==
  /\ pc[w] = "pause"
  /\ Goto(w, LoopTop(w))
  /\ UNCHANGED <<redisVars, job, snap, stopping, dbVars, boundVars, faults, history>>

\* Mutant of PushFailed: the payload is requeued as well.
PushFailedAndRequeue(w) ==
  /\ pc[w] = "lpushFailed"
  /\ ~stopping[w]
  /\ failed' = Append(failed, job[w])
  /\ queue' = Append(queue, job[w])
  /\ Release(w)
  /\ Goto(w, "brpop")
  /\ UNCHANGED <<stopping, dbVars, boundVars, faults, history>>

PushFailed(w) ==
  /\ pc[w] = "lpushFailed"
  /\ ~stopping[w]
  /\ failed' = Append(failed, job[w])
  /\ Release(w)
  /\ Goto(w, "brpop")
  /\ UNCHANGED <<queue, stopping, dbVars, boundVars, faults, history>>

\* pushToFailedQueue swallows the error of its LPUSH.
PushFailedSwallowed(w) ==
  /\ pc[w] = "lpushFailed"
  /\ RedisRejects(w)
  /\ Lose(job[w].id)
  /\ Release(w)
  /\ Goto(w, LoopTop(w))
  /\ UNCHANGED <<redisVars, stopping, dbVars, boundVars, tries, done,
                 copyOf, nulls>>

-----------------------------------------------------------------------------
(***************************************************************************)
(* Shutdown, crashes and the connection to Redis.                          *)
(***************************************************************************)

\* Redis answered a BRPOP and the connection drops before the reply is read: the
\* BRPOP is sent again, or rejected when ioredis gives up.
ReplyLost(w) ==
  /\ Pop(w)
  /\ Spend("redis")
  /\ Lose(Head(queue).id)
  /\ Goto(w, "brpop") \/ Goto(w, "pause")
  /\ UNCHANGED <<failed, job, snap, stopping, dbVars, boundVars, tries, done,
                 copyOf, nulls>>

\* handleShutdown: a parked BRPOP is rejected and the loop breaks.
Signal(w) ==
  /\ pc[w] # "exited"
  /\ ~stopping[w]
  /\ Spend("signal")
  /\ stopping' = [stopping EXCEPT ![w] = TRUE]
  /\ IF pc[w] = "brpop" THEN Goto(w, "exited") ELSE UNCHANGED pc
  /\ UNCHANGED <<redisVars, job, snap, dbVars, boundVars, history>>

\* process.exit(0) 500 ms after the signal, or the process is killed.
Exit(w) ==
  /\ pc[w] # "exited"
  /\ IF stopping[w] THEN UNCHANGED faults ELSE Spend("kill")
  /\ IF pc[w] \in Holding THEN Lose(job[w].id) ELSE UNCHANGED lost
  /\ Release(w)
  /\ Goto(w, "exited")
  /\ UNCHANGED <<redisVars, stopping, dbVars, boundVars, tries, done,
                 copyOf, nulls>>

\* Mutant of Restart: the failed jobs are put back on the queue.
RestartWithFailed(w) ==
  /\ pc[w] = "exited"
  /\ stopping' = [stopping EXCEPT ![w] = FALSE]
  /\ Goto(w, "brpop")
  /\ queue' = queue \o failed
  /\ failed' = <<>>
  /\ UNCHANGED <<job, snap, dbVars, boundVars, faults, history>>

\* restart: unless-stopped, or the next deployment.
Restart(w) ==
  /\ pc[w] = "exited"
  /\ stopping' = [stopping EXCEPT ![w] = FALSE]
  /\ Goto(w, "brpop")
  /\ UNCHANGED <<redisVars, job, snap, dbVars, boundVars, faults, history>>

-----------------------------------------------------------------------------
Take(w) == TakeMalformed(w) \/ TakeNull(w) \/ TakeInvalid(w) \/ TakeUntargeted(w)
           \/ TakeJob(w)

Process(w) == FindPost(w) \/ StoreTitle(w) \/ StoreContent(w)
              \/ InvalidateCache(w) \/ JobError(w)

Settle(w) == \/ Requeue(w) \/ RequeueFails(w) \/ Resume(w)
             \/ PushFailed(w) \/ PushFailedSwallowed(w)

\* What the process does by itself; faults are not part of it.
Step(w) == Take(w) \/ Process(w) \/ Settle(w) \/ Restart(w)

Fault(w) == InvalidateFails(w) \/ ReplyUnread(w) \/ ReplyLost(w) \/ Signal(w) \/ Exit(w)

WorkerNext == \E w \in Workers : Step(w) \/ Fault(w)

BackendNext == \/ \E p \in Posts : SavePost(p) \/ DeletePost(p)
               \/ PushUnusable

AskNext == (\E p \in Posts : AskReads(p)) \/ (\E a \in asking : AskCaches(a))

Next == WorkerNext \/ BackendNext \/ AskNext

Spec == Init /\ [][Next]_vars

\* Every worker process keeps running, and is restarted when it has exited.
FairSpec == Spec /\ \A w \in Workers : WF_vars(Step(w))

-----------------------------------------------------------------------------
(***************************************************************************)
(* Properties.                                                             *)
(***************************************************************************)

\* How often a job is run at most: once if no retry is configured.
MaxRuns == IF MaxRetries < 1 THEN 1 ELSE MaxRetries

IdsOf(s) == {s[n].id : n \in DOMAIN s}
HeldIds == {job[w].id : w \in {v \in Workers : pc[v] \in Holding}}
Outstanding == IdsOf(queue) \cup HeldIds

Distinct(s) == \A m, n \in DOMAIN s : s[m].id = s[n].id => m = n
HeldDistinct ==
  \A v, w \in Workers :
    v # w /\ pc[v] \in Holding /\ pc[w] \in Holding => job[v].id # job[w].id

\* Every element pushed so far is somewhere: queued, held by a worker, in the
\* failed queue, done, or recorded as lost (BRPOP, LPUSH, null and the exits).
NothingForgotten ==
  1 .. pushed = Outstanding \cup IdsOf(failed) \cup done \cup lost

\* No element is in two places: two workers never hold the same job, a retry
\* is never queued while its worker goes on, done and failed are final.
NothingDuplicated ==
  /\ Distinct(queue) /\ Distinct(failed) /\ HeldDistinct
  /\ IdsOf(queue) \cap HeldIds = {}
  /\ Outstanding \cap (IdsOf(failed) \cup done \cup lost) = {}
  /\ IdsOf(failed) \cap (done \cup lost) = {}
  /\ done \cap lost = {}

EachPlaced == NothingForgotten /\ NothingDuplicated

\* Payloads multiply by one for each lost reply to an LPUSH, and by nothing else.
CopiesCounted ==
  Cardinality({i \in 1 .. pushed : copyOf[i] # i})
    = FaultBudget["reply"] - faults["reply"]

\* Every element is accounted for exactly once, across retries and workers, and no
\* payload has a second element unless an LPUSH of a worker was sent twice.
JobConservation == EachPlaced /\ CopiesCounted

\* The attempt field travels with the payload through LPUSH and back: it
\* always is the number of failed runs, so a readable job reaches the failed
\* queue after exactly MaxRuns runs and is run no more often (a copy goes on with
\* the runs of what it repeats).
RetriesCounted ==
  /\ \A n \in DOMAIN queue : /\ queue[n].attempt = tries[queue[n].id]
                             /\ queue[n].attempt < MaxRuns
  /\ \A n \in DOMAIN failed : failed[n].json => tries[failed[n].id] = MaxRuns
  /\ \A i \in 1 .. MaxJobs : tries[i] <= MaxRuns

\* What a worker holds agrees with where it is: inside processJob it holds a
\* readable job for a post with a run to spare, before a requeue one that may
\* run again, before the failed queue one that may not.
HeldJobs ==
  \A w \in Workers : LET j == job[w] IN
    /\ pc[w] \in InJob => /\ j.json /\ j.post \in Posts
                          /\ j.attempt < MaxRuns
                          /\ tries[j.id] = j.attempt + 1
    /\ pc[w] = "backoff" => j.json /\ j.attempt < MaxRuns /\ tries[j.id] = j.attempt
    /\ pc[w] = "lpushFailed" => (j.json => tries[j.id] = MaxRuns)

\* An element that was not pushed yet has not run.
UnpushedUntried == \A i \in 1 .. MaxJobs : i > pushed => tries[i] = 0

\* A null in the queue is on record as one, and no worker queues one again.
NullsRecorded ==
  /\ \A n \in DOMAIN queue : queue[n].post = Null => queue[n].id \in nulls
  /\ \A w \in Workers : pc[w] = "backoff" => job[w].post # Null

\* The inductive invariant behind JobConservation and RetriesCounted.
IInv == TypeOK /\ EachPlaced /\ RetriesCounted /\ HeldJobs /\ UnpushedUntried

\* Where a job is, in the words of JobLifecycle.
StateOf(i) ==
  CASE i > pushed          -> "unborn"
    [] i \in IdsOf(queue)  -> "queued"
    [] i \in HeldIds       -> "held"
    [] i \in IdsOf(failed) -> "failed"
    [] i \in done          -> "done"
    [] i \in lost          -> "lost"

Life == INSTANCE JobLifecycle WITH
          Jobs <- 1 .. MaxJobs, MaxRuns <- MaxRuns,
          state <- [i \in 1 .. MaxJobs |-> StateOf(i)], runs <- tries

\* Every step of every worker, fault or not, is a step one job may take: runs are
\* counted, a retry follows a failed run, and what is done, failed or lost stays so.
ImplementsLifecycle == Life!Spec

\* What disappears without a Redis failure, a signal or a kill is the payload null,
\* and nothing else: no error of the embedding service or the database loses a job.
LossNeedsFault ==
  lost \subseteq nulls \/ \E k \in {"redis", "signal", "kill"} : faults[k] < FaultBudget[k]

\* The embeddings of a live post never go back to an older text.
NoRegress ==
  [][\A p \in Posts : Live(p)' =>
       /\ titleEmb'[p] >= titleEmb[p]
       /\ chunks'[p] >= chunks[p]]_vars

AllIdle == \A w \in Workers : pc[w] \in {"brpop", "exited"}
Drained == queue = <<>> /\ AllIdle

\* Once the queue is drained with no job failed or lost, the embeddings of a
\* live post are those of its present texts (blank texts are never stored).
FreshWhenDrained ==
  Drained /\ failed = <<>> /\ lost = {} =>
    \A p \in Posts : Live(p) =>
      /\ row[p].title # 0 => titleEmb[p] = row[p].title
      /\ row[p].content # 0 => chunks[p] = row[p].content

Current(a) == Live(a.post) => a.title = titleEmb[a.post]
                                  /\ a.content = chunks[a.post]

\* No cached answer was made from other embeddings than the present ones,
\* whenever no worker is between a store and the deletion of the cache, except one
\* whose ask was in flight during a deletion.
CacheFollowsEmbeddings ==
  Drained => \A a \in answerCache : Current(a) \/ a.overlapped

\* The same, in the circumstances under which the code does ensure it: every
\* job succeeded, no deletion of cached answers failed, and no body was blank.
CacheFollowsUnlessSkipped ==
  /\ failed = <<>> /\ lost = {}
  /\ faults["cache"] = FaultBudget["cache"]
  /\ \A p \in Posts : Live(p) => row[p].content # 0
  => CacheFollowsEmbeddings

\* Every element that was pushed is eventually done, failed or lost: it is
\* neither retried for ever nor left in the queue or in a worker.
EverySettled ==
  \A i \in 1 .. MaxJobs : i \in Outstanding ~> i \in IdsOf(failed) \cup done \cup lost
=============================================================================
