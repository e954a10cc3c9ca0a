# bubblog-AI in TLA+

bubblog-AI answers questions about a blog. An Express process (the *API*) takes a
question, looks for a cached answer, retrieves chunks of posts by vector similarity,
streams an LLM answer as server-sent events and stores the conversation. A second
process (the *worker*) takes jobs from a Redis list, embeds the titles and bodies of
posts and empties the answer cache of their owner. Both use one PostgreSQL database.
The blog backend that edits posts and produces the jobs is another repository.

This directory holds TLA+ modules of that system, the TLC configurations that check
them, and TLAPS proofs. `PROJECT.json` lists the components, the runs, the mutants
(a plausible bug for every property, which the run must catch), the source lines each
definition stands for, the findings, the hazards and the theorems.

    tlc -config EmbeddingWorker_faults.cfg MCEmbeddingWorker     a run
    tlapm EmbeddingWorker_proofs.tla                             the proofs of a module

## 1. Inventory

Paths are under `src/src/`.

| component | state | operations | interacts with |
|---|---|---|---|
| embedding worker, `worker/queue-consumer.ts` | `shuttingDown`; the payload, a local of the loop; two Redis lists | pop, validate, embed the title, embed the body, empty the cache, retry, fail, shut down | the backend pushes; writes embeddings and deletes cache rows the API reads |
| ask pipeline, `controllers/ai*.ts`, `services/qa*.service.ts`, `session-history.service.ts`, `replace-tone.service.ts` | the locals of one request: embeddings, `bufferedAnswer`, `clientDisconnected` | resolve the session, look up, replay, rewrite, retrieve, stream, persist | PostgreSQL, LLM, the client's connection, the worker through the cache |
| LLM providers and framing, `llm/`, `utils/sse.ts` | `closed`, `buffer`, two PassThrough streams | one call with its fallbacks, re-framing | called by the pipeline and by `rewriteTone` |
| chunk storage, `repositories/post.repository.ts`, `utils/db.ts` | `post_chunks`, the pg pool | BEGIN, DELETE, INSERT, COMMIT over `pool.query` | called by the worker and by the API's `embedContentHandler` (`controllers/ai.controller.ts:32`) |
| chunking, `services/embedding.service.ts` | the chunk being filled | one loop over sentences | its chunks are what is stored |
| session history, `repositories/ask-*.repository.ts`, `controllers/session.controller.ts` | `ask_session`, `ask_message`, `ask_question_cache` | insert turns, page, list, delete | written by the pipeline |
| search plan, `services/search-plan.service.ts`, `types/ai.v2.types.ts` | none | parse and normalise what the LLM returned | used by v2 and the search endpoint |
| hybrid and semantic search, `services/*-search.service.ts`, `search-aggregate.service.ts`, `controllers/search.controller.ts` | the candidates of one search | embed, search by vector and by text once a query, fuse, diversify, aggregate | reads the chunks the worker replaces; called by v2 and the search endpoint |
| time filters, `utils/time.ts` | none | KST calendar ranges | used by the plan |
| HTTP shell, prompts, cost, logging | none that matters here | | |

Where it is hard, and what has to hold:

* **Worker.** BRPOP removes a payload for good, and from then on one process holds it
  in memory across half a dozen awaits. It must not be lost, doubled, retried without
  end, or stored over a newer text. Several workers may run (`--scale worker=3`).
* **Ask pipeline.** Four ways to end a stream, a client that may leave, an LLM that may
  fail or stop, a session that may be deleted meanwhile, and a cache that the worker
  empties between two awaits. A client must learn once what became of its
  conversation; an answer must be in the tone that was asked for; what is cached
  should not outlive the embeddings it was made from.
* **LLM stream.** Up to three calls for one answer, events that arrive after the end,
  writes that are handed on in other portions than they were made in.
* **Chunk storage.** A transaction whose statements may run on different clients. A
  worker makes one call at a time; the API's embedding endpoint makes as many as there
  are requests.
* **History.** Concurrent turns whose ids interleave; cursors of milliseconds over
  rows of microseconds; lists that change while a client scrolls.
* **Search.** A plan an LLM wrote; ranges of a calendar nine hours ahead of the clock the
  code reads; several queries, one after the other, whose hits are merged by a key while
  a worker may replace the chunks; scores that are scaled, raised and cut off before
  they are compared.
* **Chunking.** Boundaries: empty sentences, over-long ones, an overlap longer than
  the chunk.

## 2. Modules

| module | models | lines of interest |
|---|---|---|
| `JobLifecycle` | abstract: what the queue promises for one job | |
| `EmbeddingWorker` | the worker processes, the Redis lists, the rows they write; implements `JobLifecycle` | one action per await of `processJob` and `handlePayload` |
| `EmbeddingWorker_proofs` | theorems: jobs, retries, losses; what one worker process guarantees for embeddings and cache; that it implements `JobLifecycle` | |
| `AskStream` | both ask endpoints, the history and the cache, the worker as environment | one action per await of `answerStream` and `answerStreamV2` |
| `AskStream_proofs` | theorems: outcome, history, cache, tones, post guard | |
| `AnswerChannel` | abstract: what `generate` promises its caller | |
| `LlmStream` | one LLM call: provider, fallbacks, framing, reader; implements `AnswerChannel` | |
| `LlmStream_proofs` | theorems: the framing, and that it does implement it | |
| `AtomicReplace` | abstract: what "in a transaction" promises | |
| `ChunkStore` | `storeContentEmbeddings` over pg-pool; implements `AtomicReplace` | |
| `ChunkStore_proofs` | theorems: that it does until a query has had to wait, whatever else uses the pool | |
| `PageCursor` | cursors and keyset predicates, shared by the next two | |
| `SessionMessages` | turns written concurrently, the history of a prompt, message pages | |
| `SessionList` | the session list under creation and deletion | |
| `HistoryViews` | the two lists a client can scroll, for one run | |
| `HistoryViews_proofs` | theorems: the order of rows, the history of a prompt, both scrolls | |
| `ChunkText`, `ChunkText_proofs` | the chunking loop | |
| `KstRange` | `toAbsoluteRangeKst` with the calendar of JavaScript's `Date` | |
| `KstCalendar` | reference: what each time filter means | |
| `KstCalendar_proofs` | theorem: the range of each filter is what it means | |
| `Listing` | sort and slice, by rank and place; shared by the next two | |
| `SearchPlan` | the schema of a plan and its normalisation | |
| `HybridSearch` | one search, from the plan to the chunks of the prompt or the page of posts | one action per await |
| `HybridSearch_proofs` | theorems: the plan, its range, the keys of candidates, the ranking | |
| `MCEmbeddingWorker`, `MCAskStream`, `MCSessionMessages`, `MCHistoryViews`, `MCHybridSearch` | fault budgets, symmetry sets and inputs for TLC | |

How they relate: `AskStream` contains the worker only as three actions (`WorkerStores`,
then `WorkerInvalidates` or `WorkerSkips`), `EmbeddingWorker` contains an ask of the API
only as two (`AskReads`, and some time later `AskCaches`); each is the other's
environment, reduced to what the shared tables let it see.
`StoreContent` of `EmbeddingWorker` is atomic; `ChunkStore` says under which condition
that is justified. The "stream" phase of `AskStream` assumes text, one outcome and an
end; `LlmStream` shows that the code delivers this. `SessionMessages` takes apart the
transaction that `Persist` of `AskStream` takes in one step. `HybridSearch` takes apart
what `Plan` and `SearchPlanned` of `AskStream` take as one await each: a search that
fails there is `SearchFails` here, a plan that is null is `PlanFails`, and the worker
that replaces chunks meanwhile is `ReplaceChunks`.

### Conventions

Node.js runs the code between two awaits without interruption, so an action is what a
handler does from the completion of one await to the start of the next, and `pc`
names the await a process or a request is parked on. A text is a number, a tone or a
record of what it can be wrong in. A fault is an action guarded by a budget
(`FaultBudget`, `MaxFaults`), so that each is met at every moment and the state space
stays finite. History variables (`tries`, `done`, `lost`, `copyOf`, `nulls`, `stored`,
`overlapped`, `undeleted`, `readable`, `known`, `queued`) record what happened; no guard
reads them.

### EmbeddingWorker

`queue` and `failed` are the Redis lists, head first to be popped. `TakeMalformed`,
`TakeNull`, `TakeInvalid`, `TakeUntargeted` and `TakeJob` are `handlePayload` from the pop
to the first await, by what the payload is. `null` is a case of its own: it is JSON, but
reading its `attempt` throws outside both `try` blocks, and the main loop only logs. `FindPost`, `StoreTitle`, `StoreContent` and
`InvalidateCache` each complete one await of `processJob` and run on to the next;
`Continue` is the early return for a blank body. `JobError` is any of them rejecting;
`Throw` is the `catch` with its decision between `Requeue` and `PushFailed`. The
backoff sleep and the LPUSH behind it are one await ("backoff") because nothing else
distinguishes them. `RequeueFails` is the LPUSH of a retry rejecting, which the main
loop's `catch` swallows together with the payload. `Signal` and `Exit` are
`handleShutdown`: the parked BRPOP is rejected at once, anything else has 500 ms.
`ReplyLost` is a pop whose reply never arrives. `ReplyUnread` is the same for an LPUSH of
the worker, to either list: Redis executed it, and ioredis, which keeps the command and
reconnects, sends it again. The payload is then in the lists twice, as two elements with
an `id` each; `copyOf` says which of them repeats which. What a worker holds after such a
reply is sent again (`Requeue`, `PushFailed`) or given up (`RequeueFails`,
`PushFailedSwallowed`).

`AskReads` and `AskCaches` are an ask of the API as the worker can meet it: it reads the
embeddings, and at any later time inserts the answer it made from them. A deletion in
between marks it `overlapped`.

`EMBEDDING_WORKER_MAX_RETRIES` may be configured to any number; `MaxRetries` is any
integer (with a fraction the code does what it does with the next integer). The test for
another attempt comes after a run, so a job runs once even with 0 or less: `MaxRuns` is
how often it runs at most.

`JobLifecycle` is the life of one job: unborn, queued, held, then done, failed or lost,
with the number of its runs. `StateOf` reads the state of a payload off the lists and
the workers; `ImplementsLifecycle` says that every step of the worker, faults included,
is one step of one job or none. A run that ends at once ("queued" to "done") is a job
without targets; `Reject` is a payload that cannot be parsed, which fails without a run.

### AskStream

One element of `Asks` is one POST and its SSE response. All asks are about one blog;
the similarity search may find any choice of up to three comparable rows in any
order, and the embeddings decide nothing else. An answer is the version of the blog
it was made from, its tone, whether it is blank, and whether the provider finished
it. `target` is what `post_id` names: nothing, the post of the blog, or a post of another
one, which its owner publishes and hides at any time (403 while it is hidden).
`CanRead` is the guard at `qa.service.ts:249-260`, which the cache is consulted before.
`WorkerSkips` is every way in which the deletion after a store does not come about: it
fails and is swallowed, the blank body returns before it, the process dies;
`EndpointStores` are the embedding endpoints of the API, which have none. The rows a lookup finds keep their rank (`found`); `HydrateMatch`
and `HydrateOther` act on the best of those whose messages still exist. Both endpoints
are in one module: they share everything but the retrieval of an ask without `post_id`.

Some code is not obvious and was followed closely: a replay persists even if the
client has left, while a generated answer does not; `llmStream.on('error')` is never
reached because providers report failures as events and end normally; a rewrite that
fails goes on to retrieval; a failing search plan does not reject, everything else
does; Node 20 may fire `req.on('close')` early, which is a `Disconnect` like any
other. The session controllers have no `try` around their awaits under Express 4, so
that a database error there is an unhandled rejection and ends the process: `Crash`.
Deleting a session is modelled as succeeding with its messages and cache rows, as the
cascades of the migration intend.

### LlmStream

`pc` runs along the chain of fallbacks, `source` is the SDK stream that goes on after
the provider function has returned. An event is two writes (`Halves`); `Deliver` and
`Read` hand on any number of writes at once, which covers what Node.js streams may
do. `Blocks` and `Rest` are the split at blank lines in `flushBuffer`, and
`ExtractAnswerText` is what the reader of a chunk takes out of it. Both pick elements of
a sequence by their place (`Places` lists the places in order, `HalvesOf` the halves of
all events), so that a proof can speak of the n-th one. `ResponseError` is
also possible after `ResponseCompleted`; `safeWrite` is what makes that harmless.

### ChunkStore

The pool is a stack of idle clients and a FIFO of waiting queries, as in pg-pool. A
call continues in the tick in which its statement completed, so it gets back the
client it has just released unless somebody was waiting for it. That is the only
reason why `BEGIN ... COMMIT` over `pool.query` is a transaction at all. READ
COMMITTED is modelled where it matters: a DELETE sees the snapshot it started with,
and an INSERT waits for, or collides with, rows of the same primary key.

`Others` are the other uses of the pool: single statements (`Answer`: reads, searches, the
upsert of a title) and `withTransaction`, which keeps its client to the end (`Finish`).
They leave `post_chunks` alone, but they move the clients: a call may get another client
for its next statement and leave its transaction, with the row locks, open on one that is
idle. Then only three things end it: the next use of that client, a failure, and pg-pool,
which closes a client after `idleTimeoutMillis` (`IdleTimeout`; `utils/db.ts` leaves it at the
default of ten seconds).

### SessionMessages, SessionList, PageCursor

`Milli` is the number of database time units to a millisecond (1000 in reality, 2 in
the runs: one boundary inside a millisecond is enough). `now()` is the time of BEGIN,
so both messages of a turn share it and the id decides; two turns may begin at one
instant. `Ascending` puts a row behind as many others as precede it. `Cursor` truncates to
milliseconds, as `Date.toISOString` does.

`HistoryViews` puts the message pages and the session list side by side, `open` saying
which of the two the client scrolls. They share no rows, so a run of both is a run of
each.

### Search: KstRange, KstCalendar, Listing, SearchPlan, HybridSearch

`KstRange` counts hours: every range ends with the last millisecond of a day, which is
its last hour, and BETWEEN includes it. `DayNumber` and `Civil` are the calendar that
`new Date(y, m, d)`, the setters and the getters of JavaScript share, spilling over
included; the run shows that in them days follow each other as the Gregorian calendar
has it (`CalendarAssumption`), and that three dates are the right number of days apart.
The code reads a shifted instant with getters of the process's own zone, hence the
constant `Zone`. The containers run in UTC, and so does the run. `TimeFilters` is what
the schema lets through, with any year a `Date` can have. `KstCalendar` says the same
filters again from the other side: not as a range, but as what must be true of the
Korean date of a post.

`Listing` has the sorts and the filters of the code without a loop: `Listed` puts each
element of a finite set at the place that as many elements come before, `Picked` keeps
the elements of a sequence at given places. A sort that is stable is one by score and
then by place (`Ahead`).

`SearchPlan` takes the answer of the LLM as a record, checks it as zod does and fills
it in (`RawPlans` is every answer whose numbers are whole in the units of the model,
`Accepts` the schema). Words are records of what the cleaning looks at. Finding the JSON
in the answer is one step that fails or not: once text was found, `parsed` is set or the
function has returned, so that the two further requests below
(`search-plan.service.ts:165-250`) cannot be reached and have no action. The clamps behind
the schema have nothing left to do; weights, defaults, lists, bias and the time filter
have.

`HybridSearch` is a process that parks on each query in turn. Which chunks a query
hits, with which scores, is any choice within the LIMIT of its statement; rows that tie
come in the order of their numbers, which stands for whatever order the database gives
them (`Before`). `Requests` are those made since 1970. `cand` is the Map `byKey` in the
order of insertion, because the sort is stable and ties are broken by that order; `KeyOf` is its key, by chunk number or, for the text search over all blogs,
by text. `Fuse` is everything behind the last await of `runHybridSearch`, and
`AggregatePosts` follows it without an await for the search endpoint. Scores are whole
numbers between -50 and 50: a vector score is a weighted sum of which only the part of the
chunk has passed a threshold, so it may be zero or negative, and a text search without
keywords answers with score 0. `Best` and `Worst` are `vMax` and `vMin` (`tMax`, `tMin`),
0 among them, because a candidate counts 0 in the search that did not find it. `Normal` is
the way from the worst to the best in hundredths; the range of `Scores` is what a hundredth
can still tell apart.

### ChunkText

Tokens are numbered; a chunk is an interval of them. `SliceFrom` is `Array.slice` with
its meaning of negative starts. A sentence has at least one token, except for the
empty last one that `split` leaves behind white space at the end of the body
(`blank`).

## 3. Runs

Passing runs (none takes more than about two minutes with 2 workers of TLC):

| run | shows | bounds |
|---|---|---|
| `worker_faults` | no element is forgotten or in two places, and a payload has a second element only if the reply to an LPUSH was lost; `attempt` is the number of failed runs through every requeue; without a Redis failure, a signal or a kill only the payload `null` is lost; every element is settled; the worker implements `JobLifecycle` | 2 workers, 1 post, 2 elements (jobs or copies), 2 tries, one fault of each of six kinds, fairness |
| `worker_single` | with one worker embeddings never regress, are current when the queue is drained, and no cached answer outlives them unless a deletion was skipped or its ask was in flight during one | 1 worker, 2 posts, 3 edits, 3 elements, 1 ask, 2 service faults, 1 cache fault, 1 lost reply of an LPUSH |
| `ask_outcomes` | exactly one outcome, last; what is reported saved, with text, is stored; what is answered about a post that cannot be read is out of the cache, and goes back to an ask of a time when it could; every ask ends | 2 asks, 2 tones, v2, about no post or one of another blog, one fault of each kind but the end of the process, fairness |
| `ask_cache` | tones are right from end to end; a stale answer in a cache that was emptied since the last store needs an ask that overlapped the deletion | 3 asks, 2 tones, v1, 1 edit, 1 crash; deletions that fail, are skipped, or are not part of the call |
| `llm_framing` | the pieces of one call in order, one outcome, then the end | up to 5 pieces, every provider, fallback and failure, fairness |
| `store_pool` | as long as no query has had to wait for a client the calls implement `AtomicReplace`; every call and every other use of the pool returns, waiting or not | 3 calls and 1 other use at once, 2 clients, 1 failing statement, idle clients closed, fairness |
| `history_forward` | history is paired, but for turns that began at one instant; a forward scroll leaves nothing out and repeats only messages of the cursor's own millisecond; pages of sessions descend, and only sessions of a cursor's own millisecond may be missed | 3 concurrent turns in pages of 3, or 4 sessions in pages of 2 |
| `chunks_split` | nothing is skipped, chunks advance, are bounded, and overlap unless the first is shorter than the overlap | size 6, overlap 3, sentences up to 8, 20 tokens |
| `search` | the range of a plan is that of the calendar of Korea; the plan is settled; a chunk of a blog is in the prompt once; fused results keep the limit of the plan, are best first and leave nothing out; a page of two posts is in the order of their chunks | the answers of the LLM in `Answers`, the filters in `Filters` at 14 instants, 7 searches, one with a rewrite and two over all blogs, 2 posts with 4 chunks, 3 scores of each kind (-6 and 0 among them), each post replaced once |

Why the bounds are enough. Two workers and one post are the smallest instance in
which two processes race for one row; with two jobs one is queued or failed while the
other is held, or both are held; two tries contain a first, a last and a requeued run.
`worker_single` has a third job, for one that is queued behind a job and its requeue.
Two elements are enough for a copy too: the second may be the copy of the first, queued,
held or failed at the same time as it.
Two asks suffice for outcomes, which concern one ask and one other actor (session
deletion, a hidden post, cached answer); the endpoints differ in the retrieval alone, of
which v2 has all the steps of v1 and the search plan and the hybrid search besides.
Three asks are needed for the cache, where an answer is generated by one, rewritten by
the next and replayed by the third. The post of the guard is one of another blog: it is
hidden and published again, of which the deletion of the blog's own post is one half.
Three calls and another use on two
clients contain a call that waits, one that runs, and a client that was left idle with a
transaction by one of them; `queued` says whether the pool has
been exhausted yet, so one run covers the pool before and after. Three turns interleave
in every order two of them can, with a third in the page after. In `chunks_split` the
overlap is half of the size and a sentence may exceed the size, so a chunk can be
shorter than the overlap, equal to it and longer, and the bodies are several chunks
long; the proofs of section 5 do without the bounds. In `search` the instants
are the first and the last hour of days at the end of a month, of February, of a year,
and of one in the middle; ranges are tried at the ends of 39 months and around the days
a filter counts back to. Three chunks of one post and one of another are what the limit
of two for a post needs to matter, two queries what merging needs, and one replacement
between two queries what the keys need. The shares of the span between
the worst and the best score are 0, 23, 30, 70, 76, 95 and 100 hundredths: on both sides of
the thresholds of the boosts and exactly on them. A page
has two posts, so that the order of posts is more than that of the best. The configurations that set
`CHECK_DEADLOCK FALSE` do so because the system stops when its bounded work is done.

Runs that end in a violation state something a document or the readme of the
repository says, and show that the code does otherwise. The findings in `PROJECT.json`
quote the lines.

| run | what the code does | what does hold |
|---|---|---|
| `worker_scaled` | two workers, no fault: the older of two edits is stored last | `NoRegress` with one worker (`worker_single`) |
| `ask_stale` | an ask in flight re-inserts an answer from old embeddings after the cache was emptied | `StaleNeedsOverlap` (`ask_cache`), `CacheFollowsUnlessSkipped` (`worker_single`) |
| `messages_backward` | a backward scroll repeats the page and never reaches the older ones | the forward direction (`history_forward`) |

Other differences between code and documents are visible in the definitions; the
properties of the passing runs make the exception explicit:

* SIGTERM loses the job the worker holds (`Exit`; `LossNeedsFault` counts a signal as
  a fault), where `docs/reports/REPORT-embedding-worker.md:16` has a graceful shutdown.
* A job with a blank body stores the title and keeps the cached answers of the old one
  (`Continue`; excepted in `CacheFollowsUnlessSkipped`).
* `session_saved` is sent for an empty answer of which nothing is stored
  (`SavedIsStored` speaks of answers with text), and after an LLM error the client gets
  `error` and then `session_saved`.
* The unknown tone matches the unknown tone, and the answer is replayed as it is,
  although `TASK.md:34` says that it never matches (`HydrateMatch`).
* An LPUSH of the worker whose reply is lost is sent again, and the payload goes on twice
  (`CopiesCounted`, part of `JobConservation`).
* The embedding endpoints delete no cached answer, and a deletion that fails is only logged
  (`undeleted` in `StaleNeedsOverlap`).
* The payload `null` is popped and then in no list, with no fault at all, where
  `docs/reports/REPORT-embedding-worker.md:15` has what fails in the failed queue at last
  (`TakeNull`; excepted in `LossNeedsFault`).
* A question about a post that was deleted, or that its owner has hidden meanwhile, is
  answered from the cache, before the guard is reached, where `docs/api.md:157` has a 403
  for private posts (`HydrateMatch`, `Rewrite`; excepted in `PostGuarded`).
* A response that stops at its token limit leaves the ask open for ever (`LlmCutOff`;
  excepted in `EveryAskEnds` and `EveryCallEnds` as "hung" and as the cut-off stream).
* With more calls in flight than clients the statements of one call run in another's
  transaction, and readers may find a post without chunks (`queued` in
  `ReplacesAtomically`).
* A forward scroll repeats messages of the cursor's millisecond (with as many of them as
  a page holds it goes on repeating them), and the session list may pass over sessions of
  it.
* Two turns that began at one instant of the database clock (a microsecond) may have both
  questions before both answers in the history and in the next prompt (`Alone`, excepted
  in `HistoryPaired`).
* A sentence is never split, so a chunk may be as long as its longest sentence
  (`LongestBounds`); a chunk shorter than the overlap hands on only part of itself
  (`OverlapUnlessShort`).
* "The last month" asked on the 31st of March begins on the 2nd or 3rd of March:
  `setMonth` goes on into March when there is no such day in February (`SpillsOver`,
  excepted in `RangeIsCalendar`).
* A search over all blogs has no time filter and no category, though the plan it answers
  with shows the filter (`Eligible`).
* The text search over all blogs answers with no chunk number, so a chunk found by both
  kinds of search is two candidates there, shown as two and counted twice in the score of
  its post, where `docs/reports/hybrid-serch.md:68` has one key for both (`KeyOf`;
  `ChunkOnce` speaks of one blog).
* A plan without hybrid search, or a hybrid search that found nothing, is answered with up
  to `top_k` chunks whatever its `limit`, where `docs/reports/hybrid-serch.md:76` has the
  limit applied last (`SemanticSearch`; `TypeOK` bounds fused results only by it).
* The label `2019_to_2022`, which the comment at `utils/time.ts:161` names, matches no
  expression (it takes one or two separators) and is no filter ("other" in `LabelRange`);
  `2019-22` is read as December 2019.
* A keyword of one letter and a zero-width character passes the test for two letters and
  becomes a keyword of one (`CleanKeywords`, excepted in `PlanSettled`).
* Above nine tenths of the best score the boost makes different scores equal (`Boost`,
  excepted in `Beats`).
* The text search cuts off by the similarity of the text and is scored by the better one
  of text and title, so that a chunk whose title matches best may be cut off (`Rows`).

Noted while reading and not modelled as a run: the schema in `readme.md` has no unique
constraint on `post_title_embeddings.post_id`, which `ON CONFLICT (post_id)` needs; the
foreign key from `ask_question_cache` to its answer message has no `ON DELETE`.

## 4. Fairness

* `EmbeddingWorker`: weak fairness of `Step(w)` for each worker, which is that a
  process keeps running its loop and compose restarts it (`restart: unless-stopped`).
  Faults and the backend are not fair.
* `AskStream`: weak fairness of `Step(a)`: queries, embedding calls and completions
  settle or reject. `LlmCutOff`, after which nothing comes, is not part of `Step`; the
  ask is then "hung", which `EveryAskEnds` excepts.
* `LlmStream`: weak fairness of the calls, of the SDK stream unless it was cut off, and
  of Node's streams.
* `ChunkStore`: weak fairness of each call's statements; a statement that waits for a
  lock is not enabled until the lock is free, so that a deadlock would show. The other uses
  of the pool end, and pg-pool's timer closes a client that stays idle. Without the timer
  `EveryCallReturns` is false: a statement waits for the row locks of a transaction that
  was left open on an idle client.

## 5. Proofs

Every invariant, action property and refinement that a passing run checks is also a
theorem, except for liveness. A theorem holds for every value of the constants that the
`ASSUME` of its module admits: any number of workers, asks, calls, turns, sessions,
pages, posts and chunks, any answer of an LLM, and any budget of faults. The assumptions
only say that the bounds are natural numbers, that the sets are not empty where the code
needs an element, that posts are finitely many and scores whole numbers
between -50 and 50 (those of a text search not negative), and,
for `ChunkText`, that the overlap is smaller than the size (`Overlap < Size`: 50 and 512
tokens in the code). Two groups of theorems have a hypothesis of their own: those on
embeddings and cache that there is one worker process (`OneWorker`), those on ranges
that the process runs in UTC (`Zone = 0`).

Few of the invariants are inductive alone. What had to be added, module by module:

**`EmbeddingWorker_proofs`**: `TypeCorrect`; `JobsConserved` (each element is in exactly
one place, and there are as many copies as replies to an LPUSH were lost);
`RetriesBounded` (no payload runs more than `MaxRuns` times, and a readable
one in the failed queue ran exactly so often); `LossesExplained` (without a Redis failure,
a signal or a kill nothing is lost but the payload `null`). That a requeue does not double a payload needs that the worker held
its only copy; that the requeued `attempt` is the number of runs needs that the held one
was; that a held payload agrees with the `pc` of its worker needs the types. `IInv` is
the conjunction of `TypeOK`, `EachPlaced`, `RetriesCounted`, `HeldJobs` (what a
worker holds at each `pc`) and `UnpushedUntried` (a payload that does not exist yet has
not run). The proof follows payloads, not actions: lemmas say what happens to the sets of
queued and of held ids when a payload is pushed, popped, held on, put back, or dropped
(`ConservePush`, `ConserveTake`, `ConserveSame`, `ConserveSettle`, `ConserveDrop`), and
each action is one or two of these; a copy is a push. `CopiesKnown` counts the copies
against the budget they were spent from. For the losses, `FaultsSpent` adds that budgets
are only spent and that a worker that is stopping has had a signal, `NullsRecorded` that a
`null` in the queue is on record as one and is never put back.

Of one worker process: `NeverBack`, `DrainedIsFresh`, `DrainedCacheFollows`, the
three properties of `worker_single`, under `OneWorker`, which says that there are no two
worker processes. The hypothesis is needed: `worker_scaled` is the counterexample with
two. `Ascending` orders versions: what is stored is no newer than the text of the post,
and a text that was loaded and is to be stored lies between the two. `FreshOrPending`
says that a text that is not embedded yet has a job, queued or held before the load.
`StaleGoes` says the same of stale answers, those cached and those of asks in flight: a
queued job or the one that is held will delete or mark them, unless the body became blank.

Of the life of a job: `WorkerImplementsLifecycle`, step by step. Each action of the
worker is shown to be one movement of one payload (it is pushed, kept, held on, put back,
settled, or repeated by its LPUSH), and each movement to be one step of `JobLifecycle` or none. `LifeInv` adds
`Unread` to `IInv`: a payload that cannot be read has not run, one that waits for its
retry has.

**`AskStream_proofs`**: `TypeCorrect`, `OutcomeOnce`, `SavedStays`, `ToneKept`,
`GuardHolds`, `StaleExplained`. `AskInv` is inductive and consists of: the types;
`HasSession` (an ask in its stream has a session); `OneOutcome`; `Archived` (the history
holds the drafts of asks that are over, the cache points into it); `FoundIsOver` (a row
that was found describes an ask that is over, whatever became of the row since);
`ToneSettled` (from the first text on, the draft, its label and the request agree);
`SavedIsCommitted`; `PastTheGuard` (what is generated was let through by the check of the
post, and a row of the cache, or an answer that came out of one, is `Rooted` in an ask that
was); and `OldIsExplained` (once the cache was emptied after the last store, an old answer,
in the cache or on its way there, is carried by an ask that was in flight at the last
deletion, or was brought back by one; before that nothing is claimed of it).
`SavedIsStored` and `StaleNeedsOverlap` follow from it; they are not inductive, because
what an ask found before is used after it was deleted.

**`ChunkStore_proofs`**: `TypeCorrect`; `StoreIsAtomic`, the refinement of
`AtomicReplace`, for any number of calls, other uses and clients. `Apart` is the reason: as
long as no query has had to wait, a call between its first and its last statement has a
client that no other call or use has and that is not idle (`OwnClients`), and the
transaction that is open there is the one the call began, while a client that is idle or
serves another use has none (`OwnTransactions`). A COMMIT then replaces the chunks by those of one
call, a ROLLBACK replaces nothing, and every other statement is a stutter.

**`LlmStream_proofs`**: `TypeCorrect`; `TextFromOneCall`; `CallKeepsChannel`, the
refinement of `AnswerChannel`. The text that was written and not yet read lies in three
places: the pipe of the provider, the buffer of `flushBuffer`, and the outer stream.
`Framing` says that these hold, in order and without a gap, the rest of what was written:
`InPipe` the halves that were not handed on, `InBuffer` the half event at most that waits
for its other half, `InOuter` the events that were not read, `WasRead` the text and the
outcome of the ones that were, and `EndsLast` that the streams end after an outcome, with
nothing left in them. With `OneCall` and `NothingEarly` it is `LlmInv`. `Flushing` and
`Reading` are the lemmas on `Blocks`, `Rest` and `ExtractAnswerText`: what comes out of
any portion of writes is their whole events in order, what stays is a half or nothing.

**`HistoryViews_proofs`**: `TypeCorrect`, `TurnsStayTogether`, `ForwardIsComplete`,
`RepeatsAreSameMilli`, `SessionsDescend`, `SessionsAllShown`. It begins with what order
means here: `Precedes` is strict and total on the rows of a table, `Ranking` gives each
row the number of those before it, by which `Ascending` is shown to list each row once
and in order (`AscendingSorts`) and a page to be the first rows behind a cursor, or the
last before it. `CursorIsEarly` and `MilliOrder` are what truncation does: a cursor
never stands behind its row, and both are of one millisecond. `ViewsInv` has, for the
messages, that ids are unique and a question has a smaller one than its answer
(`MessageIds`), and that what a scroll has not shown of the messages it began with is
ahead of all it has shown and of its cursor (`MessageCursor`, `MessagesAhead`). For the
sessions it is ahead as well or has been passed over, in the millisecond of a cursor
(`SessionCursor`, `SessionsAhead`). That turns stay together is proved from the order: no
row fits between a question and its answer when no other turn has their instant.

**`ChunkText_proofs`**: `TypeCorrect`, `EveryTokenChunked`, `EveryChunkAdvances`,
`ChunksBounded` and `ChunksOverlap`. The invariant adds `Position`, where the loop
stands between two sentences: the current chunk is not empty once a token was read,
and the last chunk pushed ended before the last sentence, unless that is the empty
one. `ChunksOverlap` needs besides what the chunk being filled shares with the last
one pushed (`HandedOn`).

**`KstCalendar_proofs`**: `FilterIsMeant`, for every filter of the schema, every request
since 1970 and every post since the year 0. Months are counted through from the year 0,
and `FirstDay` is the number of a month's first day. `MonthTable` and `YearLength` are the
arithmetic of leap years; from them months follow each other and have 28 days or more
(`MonthLength`, `MonthsGrow`). So there is one month a day is in, and that is the one
`Civil` answers with (`YearOf`, `CivilIs`). With it a comparison of days is one of months
and dates (`SinceMonth`, `SameDate`), and `DayRangeIs` and `MonthRangeIs` turn a range of
instants into a comparison of days, or of months. Then each kind of filter is one lemma:
`PresetLets`, `RelativeLets`, `WholeLets` (months, quarters, years) and `LabelLets`. For
months and years back, `SinceLets` compares the day `setMonth` arrives at with the day of
the month: a day the month does not have (`LastOfMonth`) is one of the next month, so
that the range begins too late, never too early.

**`HybridSearch_proofs`**: `Types`, `PlansSettled`, `RangesAreCalendar`, `OnceEach`,
`TheBestFirst`. None of the properties is inductive, since each compares what is there
with what it was made from; `IInv` keeps the connection. `PlanInv` says that the plan is
that of the request which is still there, `QueryInv` that `at` is a kept query,
`FoundInv` that the candidates are chunks that exist, with scores of either sign, no two of
them with one key, and `AnswerInv` that the result is `Fuse` of the candidates, no longer
than the limit, or the rows of the semantic search, no longer than its LIMIT (`Alone`), and
the page `AggregatePosts` of the result.

* Lists. `Ranking` gives each element of a finite set in a strict total order a place of
  its own, which makes `Listed` list each element once and in order (`RankSorts`);
  `PickedIs`, `FirstOfIs` and `UniqIs` follow for places, for slices and for the removal
  of repetitions. What a loop over a list computes is said of places and so needs no
  induction.
* The plan. `CleanListIs` and `CleanKeywordsIs`: what is left has no repetitions and no
  capitals, and stays as it is when cleaned again (for keywords, unless one is "short").
  `WeightsSum` needs that the quotient is whole. `ReadySettled` then has each field of
  the plan accepted and unchanged.
* The keys. `MergeIs`: after a merge the old candidates are at their places with their
  keys, the new ones behind them, each once. It does not look at `body`: a
  key by number does not depend on the version of the text.
* The ranking. `Weighted` is the arithmetic of `FusedIs`: a candidate that `Beats` another
  has more points, though the way from the worst score to the best is rounded down to
  hundredths, raised by a tenth and cut off; here the exception for the top of the scale is needed.
  `DiversifiedIs` and `TopTwo` are the limit of two chunks for a post, from which
  `ServedIs` and `ChunksInOrder` follow. For the page, `SecondCounts`: a post has the
  points of its best chunk and a fifth of its second, and this is what `Outranks` needs.

Only model-checked are the liveness properties: `EverySettled`, `EveryAskEnds`,
`EveryCallEnds` and `EveryCallReturns`. The prover does not reason about ENABLED, which
fairness is defined with.

## 6. Not modelled

* The contents of prompts; costs, logs and configuration.
* Embeddings, similarities and the weights of rewrites: a score is any of a few numbers.
  Which rows match a keyword or a threshold is part of that choice.
* Which text has which shape of a label or a word, letter by letter.
* The process's time zone other than UTC in the run and in the theorems on ranges, and
  zones with summer time at all.
* Routing, validation and JWT: stateless.
* `updateSessionMeta`, a single UPDATE nothing else reads.
* The API's embedding endpoints (`embedTitleHandler`, `embedContentHandler`) in
  `EmbeddingWorker`: they do what a job does without queue, retry or cache deletion.
  `ChunkStore` has their concurrent calls, `AskStream` what they leave in the cache
  (`EndpointStores`).
* Isolation between an ask and the worker finer than a statement: each query of an ask
  is one step.

## 7. Plan

Done, in this order: the worker and its proofs, the ask pipeline, the chunk store with
its abstraction, history and paging, chunking with its proofs, the LLM stream with its
abstraction, the life of a job, search from the plan to the page; then the proofs about
all of them, search last.

What could be added: processes in zones other than UTC, for which `KstCalendar` would
have to say what a wrong day is; the pages of the search endpoint beyond the chunks that
were found (the hazard at `controllers/search.controller.ts:27`), where code and
documents do not say what a client may expect; the contents of prompts.
