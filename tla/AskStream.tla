------------------------------ MODULE AskStream ------------------------------
(***************************************************************************)
(* The ask pipeline of the API process: askHandler and askV2Handler        *)
(* (src/controllers), answerStream and answerStreamV2 (src/services), and  *)
(* the conversation history and question cache behind them.                *)
(*                                                                         *)
(* One element of Asks is one POST of a question with the SSE response it  *)
(* opens.  Node.js runs the code between two awaits as one step, and       *)
(* pc[a] names the await the ask is parked on:                             *)
(*   "idle"      not received yet                                          *)
(*   "session"   resolveSessionContext                                     *)
(*   "prepare"   tone prompt, blog metadata, history, question embeddings  *)
(*   "lookup"    findSimilarEmbeddings                                     *)
(*   "hydrate"   getMessageById of the rows found                          *)
(*   "rewrite"   rewriteTone of a candidate in another tone                *)
(*   "retrieve"  findPostById, findSimilarChunks or generateSearchPlan     *)
(*   "hybrid", "semantic"   the searches of a v2 plan                      *)
(*   "stream"    generate and the events of llmStream                      *)
(*   "hung"      the LLM stream, of which nothing more will come           *)
(*   "persist"   persistConversation                                       *)
(*   "done"      stream.end()                                              *)
(*   "refused"   answered with a JSON status instead of a stream           *)
(*   "dropped"   the API process died                                      *)
(*                                                                         *)
(* All asks are about one blog, and the question of each may be similar    *)
(* enough to that of any other.  A text is abstracted to what an answer    *)
(* can be wrong in: the version of the blog it was made from, the tone it  *)
(* is written in, whether the provider finished it, whether it is blank.   *)
(* The posts, the embeddings and the worker are the environment here;      *)
(* EmbeddingWorker models them in detail.  A question is about no post,    *)
(* about the post of this blog ("own"), or about one of another blog       *)
(* ("foreign"), whose owner publishes and hides it at will.                *)
(***************************************************************************)
EXTENDS Naturals, Sequences, FiniteSets

CONSTANTS
  Asks,         \* the questions that are asked
  Sessions,     \* the ids of ask_session
  NoSession,    \* the ask has no session yet
  Tones,        \* the values of speech_tone
  Unknown,      \* the tone -1, the default of speech_tone
  Apis,         \* the endpoints used: "v1", "v2"
  Targets,      \* what post_id may name: "none", "own", "foreign"
  MaxEdits,     \* bound: edits of the post
  FaultBudget   \* bound: how many faults of each kind may happen

FaultKinds == {"service", "llm", "cutoff", "commit", "disconnect", "crash"}

ASSUME AskAssumption ==
  /\ Asks # {}
  /\ NoSession \notin Sessions
  /\ Unknown \in Tones
  /\ Apis # {} /\ Apis \subseteq {"v1", "v2"}
  /\ Targets # {} /\ Targets \subseteq {"none", "own", "foreign"}
  /\ MaxEdits \in Nat
  /\ FaultBudget \in [FaultKinds -> Nat]

VARIABLES
  pc,            \* pc[a]: where ask a is
  req,           \* req[a]: endpoint, speech_tone and post_id of the request
  session,       \* session[a]: the session the ask resolved to
  embedded,      \* embedded[a]: both question embeddings were returned
  found,         \* found[a]: the cache rows found, the most similar first
  draft,         \* draft[a]: the answer to be persisted, as far as it goes
  label,         \* label[a]: the tone it will be cached under
  how,           \* how[a]: which path produced the answer
  left,          \* left[a]: clientDisconnected
  events,        \* events[a]: the answer and outcome events the client received
  sessions,      \* ask_session: sessions[s] is "unused", "live" or "deleted"
  messages,      \* ask_message: a turn is its user and its assistant message
  questionCache, \* ask_question_cache
  post,          \* the post of the blog: its state and version
  foreign,       \* the post of another blog: "public" or "hidden"
  embVersion,    \* the version of the blog the embeddings were computed from
  replacing,     \* the worker is between storing embeddings and the deletion
  undeleted,     \* history: embeddings were stored since the cache was last emptied
  faults,        \* faults[k]: faults of kind k that may still happen
  stored,        \* history: asks whose turn was committed
  overlapped,    \* history: asks in flight when the worker emptied the cache
  readable       \* history: asks whose post could be read since they were received

askVars == <<pc, req, session, embedded, found, draft, label, how, left, events>>
dbVars == <<sessions, messages, questionCache>>
blogVars == <<post, foreign, embVersion, replacing, undeleted>>
history == <<stored, overlapped, readable>>
vars == <<askVars, dbVars, blogVars, faults, history>>

Version == 0 .. MaxEdits
Request == [api : Apis, tone : Tones, target : Targets]
Answer == [version : Version, tone : Tones, whole : BOOLEAN, blank : BOOLEAN]
Turn == [ask : Asks, session : Sessions, answer : Answer]
CacheRow == [ask : Asks, tone : Tones, target : Targets]
Event == {"answer", "error", "saved", "session_error"}
InStream == {"prepare", "lookup", "hydrate", "rewrite", "retrieve", "hybrid",
             "semantic", "stream", "hung", "persist"}
Waiting == InStream \cup {"session"}
PcValue == Waiting \cup {"idle", "done", "refused", "dropped"}

NoRequest == CHOOSE r \in Request : TRUE
NoAnswer == [version |-> 0, tone |-> Unknown, whole |-> FALSE, blank |-> TRUE]

TypeOK ==
  /\ pc \in [Asks -> PcValue]
  /\ req \in [Asks -> Request]
  /\ session \in [Asks -> Sessions \cup {NoSession}]
  /\ embedded \in [Asks -> BOOLEAN]
  /\ found \in [Asks -> Seq(CacheRow)]
  /\ draft \in [Asks -> Answer]
  /\ label \in [Asks -> Tones]
  /\ how \in [Asks -> {"none", "replayed", "rewritten", "generated"}]
  /\ left \in [Asks -> BOOLEAN]
  /\ events \in [Asks -> Seq(Event)]
  /\ sessions \in [Sessions -> {"unused", "live", "deleted"}]
  /\ messages \subseteq Turn
  /\ questionCache \subseteq CacheRow
  /\ post \in [live : BOOLEAN, version : Version]
  /\ foreign \in {"public", "hidden"}
  /\ embVersion \in Version
  /\ replacing \in BOOLEAN /\ undeleted \in BOOLEAN
  /\ faults \in [FaultKinds -> Nat]
  /\ stored \subseteq Asks
  /\ overlapped \subseteq Asks
  /\ readable \subseteq Asks

Init ==
  /\ pc = [a \in Asks |-> "idle"]
  /\ req = [a \in Asks |-> NoRequest]
  /\ session = [a \in Asks |-> NoSession]
  /\ embedded = [a \in Asks |-> FALSE]
  /\ found = [a \in Asks |-> <<>>]
  /\ draft = [a \in Asks |-> NoAnswer]
  /\ label = [a \in Asks |-> Unknown]
  /\ how = [a \in Asks |-> "none"]
  /\ left = [a \in Asks |-> FALSE]
  /\ events = [a \in Asks |-> <<>>]
  /\ sessions = [s \in Sessions |-> "unused"]
  /\ messages = {}
  /\ questionCache = {}
  /\ post = [live |-> TRUE, version |-> 0]
  /\ embVersion = 0
  /\ foreign \in {"public", "hidden"}
  /\ replacing = FALSE
  /\ undeleted = FALSE
  /\ faults = FaultBudget
  /\ stored = {}
  /\ overlapped = {}
  /\ readable = {}

Spend(kind) ==
  /\ faults[kind] > 0
  /\ faults' = [faults EXCEPT ![kind] = @ - 1]

\* The guard of a question about a post: the post exists, and is public unless
\* it is the blog's own.
CanRead(target) == CASE target = "own" -> post.live
                     [] target = "foreign" -> foreign = "public"
                     [] OTHER -> TRUE

Goto(a, where) == pc' = [pc EXCEPT ![a] = where]

\* The response of a client that left is closed: nothing is received.
Send(a, evs) ==
  events' = [events EXCEPT ![a] = IF left[a] THEN @ ELSE @ \o evs]

\* Mutant of GiveUp: only the error event.
GiveUpSilently(a) ==
  /\ Send(a, <<"error">>)
  /\ Goto(a, "done")

\* The pipeline gives up: error event, session_error, stream.end().
GiveUp(a) ==
  /\ Send(a, <<"error", "session_error">>)
  /\ Goto(a, "done")

-----------------------------------------------------------------------------
(***************************************************************************)
(* The controllers: the session, and the client that goes away.            *)
(***************************************************************************)

Ask(a) ==
  /\ pc[a] = "idle"
  /\ \E r \in Request :
       /\ req' = [req EXCEPT ![a] = r]
       /\ readable' = IF CanRead(r.target) THEN readable \cup {a} ELSE readable
  /\ Goto(a, "session")
  /\ UNCHANGED <<session, embedded, found, draft, label, how, left, events,
                 dbVars, blogVars, faults, stored, overlapped>>

\* The session named by session_id is found, or a new one is inserted.
ResolveSession(a) ==
  /\ pc[a] = "session"
  /\ \E s \in Sessions :
       /\ sessions[s] # "deleted"
       /\ sessions' = [sessions EXCEPT ![s] = "live"]
       /\ session' = [session EXCEPT ![a] = s]
  /\ Goto(a, "prepare")
  /\ UNCHANGED <<req, embedded, found, draft, label, how, left, events,
                 messages, questionCache, blogVars, faults, history>>

\* A status instead of a stream: no such session (400, 404, 409), or an error
\* of the query (500).
RefuseSession(a) ==
  /\ pc[a] = "session"
  /\ Goto(a, "refused")
  /\ UNCHANGED <<req, session, embedded, found, draft, label, how, left, events,
                 dbVars, blogVars, faults, history>>

\* req.on('close')
Disconnect(a) ==
  /\ pc[a] \in InStream
  /\ ~left[a]
  /\ Spend("disconnect")
  /\ left' = [left EXCEPT ![a] = TRUE]
  /\ UNCHANGED <<pc, req, session, embedded, found, draft, label, how, events,
                 dbVars, blogVars, history>>

-----------------------------------------------------------------------------
(***************************************************************************)
(* The answer cache.                                                       *)
(***************************************************************************)

Prepare(a) ==
  /\ pc[a] = "prepare"
  /\ embedded' = [embedded EXCEPT ![a] = TRUE]
  /\ Goto(a, "lookup")
  /\ UNCHANGED <<req, session, found, draft, label, how, left, events, dbVars,
                 blogVars, faults, history>>

\* The embedding call returned fewer vectors than texts: no lookup.
PrepareShort(a) ==
  /\ pc[a] = "prepare"
  /\ Spend("service")
  /\ Goto(a, "retrieve")
  /\ UNCHANGED <<req, session, embedded, found, draft, label, how, left, events,
                 dbVars, blogVars, history>>

\* The first rows of a ranking of some of these: at most three, none twice.
Ranked(rows) == {top \in UNION {[1 .. n -> rows] : n \in 0 .. 3} :
                   \A m, n \in DOMAIN top : top[m] = top[n] => m = n}

\* Mutant of FindSimilar: the rows of every target compete.
FindAnyTarget(a) ==
  /\ pc[a] = "lookup"
  /\ \E rows \in Ranked(questionCache) :
       /\ found' = [found EXCEPT ![a] = rows]
       /\ Goto(a, IF rows = <<>> THEN "retrieve" ELSE "hydrate")
  /\ UNCHANGED <<req, session, embedded, draft, label, how, left, events, dbVars,
                 blogVars, faults, history>>

\* At most three rows of the same target, those over the threshold, by rank.
FindSimilar(a) ==
  /\ pc[a] = "lookup"
  /\ \E rows \in Ranked({row \in questionCache : row.target = req[a].target}) :
       /\ found' = [found EXCEPT ![a] = rows]
       /\ Goto(a, IF rows = <<>> THEN "retrieve" ELSE "hydrate")
  /\ UNCHANGED <<req, session, embedded, draft, label, how, left, events, dbVars,
                 blogVars, faults, history>>

TurnsOf(ask) == {turn \in messages : turn.ask = ask}
AnswerOf(ask) == (CHOOSE turn \in TurnsOf(ask) : TRUE).answer

\* The ranks of the rows found whose messages still exist; the best of some ranks.
Hydrated(a) == {n \in DOMAIN found[a] : TurnsOf(found[a][n].ask) # {}}
Best(n, ranks) == n \in ranks /\ \A m \in ranks : n <= m

\* replayCachedAnswer up to its await: the answer event is out.
Replay(a, answer, tone, path) ==
  /\ draft' = [draft EXCEPT ![a] = answer]
  /\ label' = [label EXCEPT ![a] = tone]
  /\ how' = [how EXCEPT ![a] = path]
  /\ Send(a, <<"answer">>)
  /\ Goto(a, "persist")

\* Mutant of HydrateMatch: the tone of the candidate is not looked at.
ReplayAnyTone(a) ==
  /\ pc[a] = "hydrate"
  /\ \E n \in Hydrated(a) : LET row == found[a][n] IN
       /\ Best(n, Hydrated(a))
       /\ Replay(a, AnswerOf(row.ask), row.tone, "replayed")
  /\ found' = [found EXCEPT ![a] = <<>>]
  /\ UNCHANGED <<req, session, embedded, left, dbVars, blogVars, faults, history>>

\* The first candidate in the tone asked for is replayed as it is.
HydrateMatch(a) ==
  /\ pc[a] = "hydrate"
  /\ \E n \in Hydrated(a) : LET row == found[a][n] IN
       /\ Best(n, {m \in Hydrated(a) : found[a][m].tone = req[a].tone})
       /\ Replay(a, AnswerOf(row.ask), row.tone, "replayed")
  /\ found' = [found EXCEPT ![a] = <<>>]
  /\ UNCHANGED <<req, session, embedded, left, dbVars, blogVars, faults, history>>

\* Mutant of HydrateOther: the cache row is taken for the message it points to.
RewriteTheRow(a) ==
  /\ pc[a] = "hydrate"
  /\ \A n \in Hydrated(a) : found[a][n].tone # req[a].tone
  /\ \E n \in Hydrated(a) :
       /\ Best(n, Hydrated(a))
       /\ draft' = [draft EXCEPT ![a] = found[a][n]]
  /\ Goto(a, "rewrite")
  /\ found' = [found EXCEPT ![a] = <<>>]
  /\ UNCHANGED <<req, session, embedded, label, how, left, events, dbVars, blogVars,
                 faults, history>>

\* Without one the first candidate is to be rewritten, if there is any.
HydrateOther(a) ==
  /\ pc[a] = "hydrate"
  /\ \A n \in Hydrated(a) : found[a][n].tone # req[a].tone
  /\ \/ Hydrated(a) = {} /\ Goto(a, "retrieve") /\ UNCHANGED draft
     \/ \E n \in Hydrated(a) :
          /\ Best(n, Hydrated(a))
          /\ Goto(a, "rewrite")
          /\ draft' = [draft EXCEPT ![a] = AnswerOf(found[a][n].ask)]
  /\ found' = [found EXCEPT ![a] = <<>>]
  /\ UNCHANGED <<req, session, embedded, label, how, left, events, dbVars, blogVars,
                 faults, history>>

\* rewriteTone takes what it collected, also when the provider broke off.
Rewrite(a) ==
  /\ pc[a] = "rewrite"
  /\ \/ /\ Replay(a, [draft[a] EXCEPT !.tone = req[a].tone], req[a].tone, "rewritten")
        /\ UNCHANGED faults
     \/ /\ Replay(a, [draft[a] EXCEPT !.tone = req[a].tone, !.whole = FALSE],
                  req[a].tone, "rewritten")
        /\ Spend("llm")
  /\ UNCHANGED <<req, session, embedded, found, left, dbVars, blogVars, history>>

\* Empty or out of proportion: fall back to retrieval.
RewriteFails(a) ==
  /\ pc[a] = "rewrite"
  /\ Goto(a, "retrieve")
  /\ UNCHANGED <<req, session, embedded, found, draft, label, how, left, events,
                 dbVars, blogVars, faults, history>>

-----------------------------------------------------------------------------
(***************************************************************************)
(* Retrieval.                                                              *)
(***************************************************************************)

\* generate is called with a prompt made from this version of the blog.
Generate(a, version) ==
  /\ draft' = [draft EXCEPT ![a] = [version |-> version, tone |-> req[a].tone,
                                    whole |-> FALSE, blank |-> TRUE]]
  /\ label' = [label EXCEPT ![a] = req[a].tone]
  /\ how' = [how EXCEPT ![a] = "generated"]
  /\ Goto(a, "stream")

\* The post is gone (404), or private and of another blog (403).
RefusePost(a) ==
  /\ pc[a] = "retrieve"
  /\ ~CanRead(req[a].target)
  /\ GiveUp(a)
  /\ UNCHANGED <<req, session, embedded, found, draft, label, how, left, dbVars,
                 blogVars, faults, history>>

\* The post of another blog has no versions here: what is made from it counts
\* as new, whatever this blog's embeddings are.
ReadPost(a) ==
  /\ pc[a] = "retrieve"
  /\ req[a].target # "none" /\ CanRead(req[a].target)
  /\ Generate(a, IF req[a].target = "own" THEN post.version ELSE MaxEdits)
  /\ UNCHANGED <<req, session, embedded, found, left, events, dbVars, blogVars,
                 faults, history>>

\* findSimilarChunks of the first version.
SearchChunks(a) ==
  /\ pc[a] = "retrieve"
  /\ req[a].target = "none" /\ req[a].api = "v1"
  /\ Generate(a, embVersion)
  /\ UNCHANGED <<req, session, embedded, found, left, events, dbVars, blogVars,
                 faults, history>>

\* generateSearchPlan: hybrid or not; without a plan findSimilarChunks, which
\* reads what a semantic search reads.
Plan(a) ==
  /\ pc[a] = "retrieve"
  /\ req[a].target = "none" /\ req[a].api = "v2"
  /\ \E search \in {"hybrid", "semantic"} : Goto(a, search)
  /\ UNCHANGED <<req, session, embedded, found, draft, label, how, left, events,
                 dbVars, blogVars, faults, history>>

SearchPlanned(a) ==
  /\ pc[a] \in {"hybrid", "semantic"}
  /\ Generate(a, embVersion)
  /\ UNCHANGED <<req, session, embedded, found, left, events, dbVars, blogVars,
                 faults, history>>

\* Mutant of HybridEmpty: the search is planned anew.
PlanAgain(a) ==
  /\ pc[a] = "hybrid"
  /\ Goto(a, "retrieve")
  /\ UNCHANGED <<req, session, embedded, found, draft, label, how, left, events,
                 dbVars, blogVars, faults, history>>

\* A hybrid search without rows is followed by a semantic one.
HybridEmpty(a) ==
  /\ pc[a] = "hybrid"
  /\ Goto(a, "semantic")
  /\ UNCHANGED <<req, session, embedded, found, draft, label, how, left, events,
                 dbVars, blogVars, faults, history>>

\* An await of the pipeline rejects: its catch ends the stream.  A plan that
\* cannot be made does not reject.
StreamError(a) ==
  /\ \/ pc[a] \in {"prepare", "lookup", "hydrate", "hybrid", "semantic"}
     \/ pc[a] = "retrieve" /\ (req[a].target # "none" \/ req[a].api = "v1")
  /\ Spend("service")
  /\ GiveUp(a)
  /\ UNCHANGED <<req, session, embedded, found, draft, label, how, left, dbVars,
                 blogVars, history>>

-----------------------------------------------------------------------------
(***************************************************************************)
(* The LLM stream.                                                         *)
(***************************************************************************)

\* The first answer event with text in it.
LlmText(a) ==
  /\ pc[a] = "stream"
  /\ draft[a].blank
  /\ draft' = [draft EXCEPT ![a].blank = FALSE]
  /\ Send(a, <<"answer">>)
  /\ UNCHANGED <<pc, req, session, embedded, found, label, how, left, dbVars,
                 blogVars, faults, history>>

\* The 'end' handler: a client that left gets nothing stored.  Nothing is
\* stored of a blank answer either, but persistConversation returns normally.
EndOfStream(a, evs, whole) ==
  /\ draft' = [draft EXCEPT ![a].whole = whole]
  /\ CASE left[a] -> Goto(a, "done") /\ UNCHANGED events
       [] ~left[a] /\ ~embedded[a] ->
            Goto(a, "done") /\ Send(a, Append(evs, "session_error"))
       [] ~left[a] /\ embedded[a] /\ draft[a].blank ->
            Goto(a, "done") /\ Send(a, Append(evs, "saved"))
       [] ~left[a] /\ embedded[a] /\ ~draft[a].blank ->
            Goto(a, "persist") /\ Send(a, evs)

LlmEnd(a) ==
  /\ pc[a] = "stream"
  /\ EndOfStream(a, <<>>, TRUE)
  /\ UNCHANGED <<req, session, embedded, found, label, how, left, dbVars, blogVars,
                 faults, history>>

\* A provider that fails writes an error event and ends its stream normally.
LlmFails(a) ==
  /\ pc[a] = "stream"
  /\ Spend("llm")
  /\ EndOfStream(a, <<"error">>, FALSE)
  /\ UNCHANGED <<req, session, embedded, found, label, how, left, dbVars, blogVars,
                 history>>

\* The provider stops short of its end (response.incomplete, at the limit of
\* output tokens): neither 'completed' nor 'error' comes, and nobody ends the
\* stream.  A tone rewrite is such a stream, with a limit of its own.
LlmCutOff(a) ==
  /\ pc[a] \in {"stream", "rewrite"}
  /\ Spend("cutoff")
  /\ Goto(a, "hung")
  /\ UNCHANGED <<req, session, embedded, found, draft, label, how, left, events,
                 dbVars, blogVars, history>>

-----------------------------------------------------------------------------
(***************************************************************************)
(* persistConversation.                                                    *)
(***************************************************************************)

\* The transaction commits: both messages and the cache row.
Commit(a) ==
  /\ sessions[session[a]] = "live"
  /\ messages' = messages \cup
       {[ask |-> a, session |-> session[a], answer |-> draft[a]]}
  /\ questionCache' = questionCache \cup
       {[ask |-> a, tone |-> label[a], target |-> req[a].target]}
  /\ stored' = stored \cup {a}

Persist(a) ==
  /\ pc[a] = "persist"
  /\ Commit(a)
  /\ Send(a, <<"saved">>)
  /\ Goto(a, "done")
  /\ UNCHANGED <<req, session, embedded, found, draft, label, how, left, sessions,
                 blogVars, faults, overlapped, readable>>

\* Mutant of PersistFails: the error is swallowed.
PersistFailsSilently(a) ==
  /\ pc[a] = "persist"
  /\ IF sessions[session[a]] = "live" THEN Spend("service") ELSE UNCHANGED faults
  /\ Send(a, <<"saved">>)
  /\ Goto(a, "done")
  /\ UNCHANGED <<req, session, embedded, found, draft, label, how, left, dbVars,
                 blogVars, history>>

\* The session is gone (foreign key) or the database failed: rolled back.
PersistFails(a) ==
  /\ pc[a] = "persist"
  /\ IF sessions[session[a]] = "live" THEN Spend("service") ELSE UNCHANGED faults
  /\ Send(a, <<"session_error">>)
  /\ Goto(a, "done")
  /\ UNCHANGED <<req, session, embedded, found, draft, label, how, left, dbVars,
                 blogVars, history>>

\* The connection drops after COMMIT was executed and before its reply.
PersistUnacknowledged(a) ==
  /\ pc[a] = "persist"
  /\ Spend("commit")
  /\ Commit(a)
  /\ Send(a, <<"session_error">>)
  /\ Goto(a, "done")
  /\ UNCHANGED <<req, session, embedded, found, draft, label, how, left, sessions,
                 blogVars, overlapped, readable>>

-----------------------------------------------------------------------------
(***************************************************************************)
(* Around the asks: sessions, the blog, the worker, and the process.       *)
(***************************************************************************)

\* DELETE /ai/v2/sessions/:id, with its messages and their cache rows.
DeleteSession(s) ==
  /\ sessions[s] = "live"
  /\ sessions' = [sessions EXCEPT ![s] = "deleted"]
  /\ messages' = {turn \in messages : turn.session # s}
  /\ questionCache' = {row \in questionCache :
                         \A turn \in TurnsOf(row.ask) : turn.session # s}
  /\ UNCHANGED <<askVars, blogVars, faults, history>>

EditPost ==
  /\ post.live
  /\ post.version < MaxEdits
  /\ post' = [post EXCEPT !.version = @ + 1]
  /\ UNCHANGED <<askVars, dbVars, foreign, embVersion, replacing, undeleted, faults,
                 history>>

\* The worker's job for a deleted post fails at findPostById.
DeletePost ==
  /\ post.live
  /\ post' = [post EXCEPT !.live = FALSE]
  /\ UNCHANGED <<askVars, dbVars, foreign, embVersion, replacing, undeleted, faults,
                 history>>

\* The owner of the other blog hides his post, or publishes it.
HideForeign ==
  /\ foreign = "public"
  /\ foreign' = "hidden"
  /\ UNCHANGED <<askVars, dbVars, post, embVersion, replacing, undeleted, faults, history>>

PublishForeign ==
  /\ foreign = "hidden"
  /\ foreign' = "public"
  /\ readable' = readable \cup {a \in Asks : pc[a] \in Waiting /\ req[a].target = "foreign"}
  /\ UNCHANGED <<askVars, dbVars, post, embVersion, replacing, undeleted, faults, stored,
                 overlapped>>

\* Embeddings of the present text replace the old ones.
StoreEmbeddings ==
  /\ post.live
  /\ embVersion < post.version
  /\ embVersion' = post.version
  /\ undeleted' = TRUE
  /\ UNCHANGED <<askVars, dbVars, post, foreign, faults, history>>

WorkerStores ==
  /\ ~replacing
  /\ StoreEmbeddings
  /\ replacing' = TRUE

\* POST /embeddings/content (or /title): nothing is deleted from the cache.
EndpointStores ==
  /\ StoreEmbeddings
  /\ UNCHANGED replacing

\* Mutant of WorkerInvalidates: the rows of the owner are not deleted.
WorkerKeepsCache ==
  /\ replacing
  /\ replacing' = FALSE
  /\ undeleted' = FALSE
  /\ overlapped' = overlapped \cup {a \in Asks : pc[a] \in Waiting}
  /\ UNCHANGED <<askVars, dbVars, post, foreign, embVersion, faults, stored, readable>>

\* deleteEmbeddingsByOwner
WorkerInvalidates ==
  /\ replacing
  /\ replacing' = FALSE
  /\ undeleted' = FALSE
  /\ questionCache' = {}
  /\ overlapped' = overlapped \cup {a \in Asks : pc[a] \in Waiting}
  /\ UNCHANGED <<askVars, sessions, messages, post, foreign, embVersion, faults, stored,
                 readable>>

\* The deletion fails and the error is swallowed, the blank text of the post
\* returns before it, or the worker's process dies.
WorkerSkips ==
  /\ replacing
  /\ replacing' = FALSE
  /\ UNCHANGED <<askVars, dbVars, post, foreign, embVersion, undeleted, faults, history>>

\* The API process dies (a deployment, an unhandled rejection) and restarts.
Crash ==
  /\ \E a \in Asks : pc[a] \in Waiting
  /\ Spend("crash")
  /\ pc' = [a \in Asks |-> IF pc[a] \in Waiting THEN "dropped" ELSE pc[a]]
  /\ UNCHANGED <<req, session, embedded, found, draft, label, how, left, events,
                 dbVars, blogVars, history>>

-----------------------------------------------------------------------------
CacheStep(a) == \/ Prepare(a) \/ FindSimilar(a)
                \/ HydrateMatch(a) \/ HydrateOther(a)
                \/ Rewrite(a) \/ RewriteFails(a)

RetrievalStep(a) == \/ RefusePost(a) \/ ReadPost(a) \/ SearchChunks(a)
                    \/ Plan(a) \/ SearchPlanned(a) \/ HybridEmpty(a)

OutcomeStep(a) == LlmText(a) \/ LlmEnd(a) \/ LlmFails(a)
                  \/ Persist(a) \/ PersistFails(a)

\* What the process does for an ask it received, until its stream ends.
Step(a) == \/ ResolveSession(a) \/ RefuseSession(a)
           \/ CacheStep(a) \/ RetrievalStep(a) \/ OutcomeStep(a)

Fault(a) == \/ PrepareShort(a) \/ StreamError(a) \/ PersistUnacknowledged(a)
            \/ LlmCutOff(a) \/ Disconnect(a)

Environment == \/ \E s \in Sessions : DeleteSession(s)
               \/ EditPost \/ DeletePost \/ HideForeign \/ PublishForeign
               \/ WorkerStores \/ EndpointStores \/ WorkerInvalidates \/ WorkerSkips
               \/ Crash

Next == (\E a \in Asks : Ask(a) \/ Step(a) \/ Fault(a)) \/ Environment

Spec == Init /\ [][Next]_vars

\* Every await settles: a query, an embedding call, and the stream of a
\* provider unless it was cut off.
FairSpec == Spec /\ \A a \in Asks : WF_vars(Step(a))

-----------------------------------------------------------------------------
(***************************************************************************)
(* Properties.                                                             *)
(***************************************************************************)

Got(a, ev) == \E n \in DOMAIN events[a] : events[a][n] = ev
Outcomes(a) == {n \in DOMAIN events[a] : events[a][n] \in {"saved", "session_error"}}

\* A client that stays until its stream ends is told exactly once what became
\* of the conversation, last of all; before that it is told nothing.
OneOutcome ==
  \A a \in Asks :
    /\ pc[a] # "done" => Outcomes(a) = {}
    /\ pc[a] = "done" /\ ~left[a] => Outcomes(a) = {Len(events[a])}

\* Whoever is told that an answer with text was saved finds it in the history:
\* the turn was committed, and it is there unless the session was deleted.
SavedIsStored ==
  \A a \in Asks :
    Got(a, "saved") /\ ~draft[a].blank =>
      /\ a \in stored
      /\ sessions[session[a]] = "live" => TurnsOf(a) # {}

\* The tone is right from end to end: every cached row is labelled with the
\* tone its answer is written in, and an answer is in the tone asked for,
\* whether it was generated, replayed or rewritten.
ToneFaithful ==
  /\ \A row \in questionCache : AnswerOf(row.ask).tone = row.tone
  /\ \A a \in Asks : Got(a, "answer") => draft[a].tone = req[a].tone

\* Once the cache was emptied after the last embeddings were stored, an answer
\* in it older than they are was brought there by an ask in flight when it was
\* emptied; replays of such an answer carry it on, and nothing else leaves one
\* behind.  Between the two, and for as long as the deletion is skipped, has
\* failed or is not part of the call, the old answers are all there.
StaleNeedsOverlap ==
  ~undeleted => \A row \in questionCache :
    AnswerOf(row.ask).version < embVersion =>
      \E a \in overlapped \cap stored : draft[a].version = AnswerOf(row.ask).version

\* A question about a post that could not be read from the time it was received
\* on, deleted or another blog's and hidden, is answered only out of the cache,
\* which is consulted before the post is; and what the cache then holds goes
\* back to an ask about the same post made while the post could be read.
PostGuarded ==
  \A a \in Asks : Got(a, "answer") =>
    \/ a \in readable
    \/ /\ how[a] # "generated"
       /\ \E b \in readable \cap stored :
            how[b] = "generated" /\ req[b].target = req[a].target

\* Every ask that is received comes to an end, a refusal, the end of its stream
\* or of the process, unless its provider was cut off.
EveryAskEnds ==
  \A a \in Asks : pc[a] \in Waiting \ {"hung"} ~>
                     pc[a] \in {"done", "refused", "dropped", "hung"}

\* Once the cache was emptied after the last embeddings were stored, no answer in
\* it is older than they are.
CacheFollowsEmbeddings ==
  ~undeleted => \A row \in questionCache : AnswerOf(row.ask).version >= embVersion
=============================================================================
