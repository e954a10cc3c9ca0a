---------------------------- MODULE HybridSearch ----------------------------
(***************************************************************************)
(* One search: the plan of generateSearchPlan, then runHybridSearch or     *)
(* runSemanticSearch, for an ask in one blog (scope "user": the chunks go  *)
(* into the prompt) or for GET /search/hybrid over all blogs (scope        *)
(* "global": aggregatePosts makes a page of posts of them).  The category  *)
(* of an ask is part of which posts there are; a global search has none.   *)
(*                                                                         *)
(* pc is the await the search is parked on:                                *)
(*   "plan"       generateSearchPlan                                       *)
(*   "embed"      createEmbeddings of the question and its rewrites        *)
(*   "vector"     the vector search of query number at                     *)
(*   "text"       the text search of query number at                       *)
(*   "embedOne"   createEmbeddings of the question alone                   *)
(*   "semantic"   the vector search of runSemanticSearch                   *)
(*   "done", "failed"                                                      *)
(*                                                                         *)
(* Query 0 is the question, n its n-th rewrite.  Scores are steps of an    *)
(* even scale.  Which chunks a query hits, and how well, is up to the      *)
(* embeddings and to PostgreSQL, within the limits the code passes on.  A worker may replace *)
(* the chunks of a post between two queries; body[p] is the version of     *)
(* their texts.                                                            *)
(***************************************************************************)
EXTENDS KstCalendar, SearchPlan, FiniteSetsExt

CONSTANTS
  Posts,         \* numbered
  ChunkCount,    \* how many chunks each post has
  Created,       \* when each post was created
  VecScores,     \* scores of a vector hit: similarity times the weight of the query;
                 \* the threshold is for the chunk alone, so a title can make it negative
  TextScores,    \* scores of a text hit; without keywords nothing need be alike: 0
  PageLimit,     \* the limit of GET /search/hybrid
  Offset,        \* and its offset
  Asked,         \* requests: the scope, the plan the LLM will answer, the instant
  Searched,      \* bound: those of them the search is followed for
  MaxReplaced    \* bound: how often the chunks of a post are replaced

\* Requests of the years since 1970.
Requests ==
  [scope : {"user", "global"}, raw : RawPlans, base : {t \in Int : t >= 24 * DayNumber(1970, 0, 1)}]

\* Fifty steps up and fifty down: a hundredth of the way between two scores, the
\* scale Normal has, then tells any two scores apart, as the code's numbers do.
Scores == -50 .. 50

ASSUME SearchAssumption ==
  /\ Posts \subseteq Nat /\ IsFiniteSet(Posts)
  /\ ChunkCount \in [Posts -> Nat] /\ Created \in [Posts -> Int]
  /\ VecScores \subseteq Scores /\ TextScores \subseteq {s \in Scores : s >= 0}
  /\ PageLimit \in 1 .. 10 /\ Offset \in Nat
  /\ Asked \subseteq Requests /\ Searched \subseteq Asked

MAX_CHUNKS_PER_POST == 2

Chunks == UNION {{[post |-> p, index |-> n] : n \in 0 .. ChunkCount[p] - 1} : p \in Posts}

VARIABLES
  pc, at,
  scope,     \* "user" or "global"
  asked,     \* the request, until the search begins; at most one
  plan,      \* the normalised plan; at most one
  kept,      \* the queries that are searched
  eligible,  \* the posts the SQL of the search selects from
  body,      \* body[p]: the version of the chunks of p
  cand,      \* byKey: the candidates in the order they were found in
  result,    \* the chunks that were found, best first
  page       \* the posts of the answer, in the scope "global"

vars == <<pc, at, scope, asked, plan, kept, eligible, body, cand, result, page>>

Init ==
  /\ pc = "plan"
  /\ at = 0
  /\ \E a \in Asked : asked = {a} /\ scope = a.scope
  /\ plan = {}
  /\ kept = {0}
  /\ eligible = {}
  /\ body = [p \in Posts |-> 0]
  /\ cand = <<>>
  /\ result = <<>>
  /\ page = <<>>

The(S) == CHOOSE x \in S : TRUE
Settled == The(plan)

-----------------------------------------------------------------------------
(***************************************************************************)
(* Candidates.                                                             *)
(***************************************************************************)

\* Mutant of KeyOf: chunks are told apart by their text everywhere.
KeyByContent(c, kind) ==
  [post |-> c.post, index |-> c.index, by |-> "content", version |-> body[c.post]]

\* `${postId}:${chunkIndex ?? postChunk}`; the global text search answers with no
\* chunkIndex.
KeyOf(c, kind) ==
  IF scope = "global" /\ kind = "text"
  THEN [post |-> c.post, index |-> c.index, by |-> "content", version |-> body[c.post]]
  ELSE [post |-> c.post, index |-> c.index, by |-> "index", version |-> 0]

\* The order of sort(), which is stable: the best first, and of two equal ones the
\* one that was first.
Ahead(x, y) == x.score > y.score \/ (x.score = y.score /\ x.place < y.place)

\* The numbering of the chunks.
Before(c, d) == c.post < d.post \/ (c.post = d.post /\ c.index < d.index)

\* What a search may answer: at most max rows of the posts it selects from.
Hits(scores, max) ==
  UNION {[hits -> scores] :
           hits \in {s \in SUBSET {c \in Chunks : c.post \in eligible} : Cardinality(s) <= max}}

\* Rows of a vector search come by their score, those of a text search by
\* content_sim, which the score is not (a title may match better): the numbering
\* stands for it, and for the order of rows that tie.
Rows(hits, kind) ==
  LET before(c, d) == IF kind = "text" \/ hits[c] = hits[d] THEN Before(c, d)
                                                           ELSE hits[c] > hits[d]
      found == Listed(DOMAIN hits, before) IN
  [n \in DOMAIN found |-> [key |-> KeyOf(found[n], kind), score |-> hits[found[n]]]]

\* Each candidate keeps the best score of either kind; new ones go to the end.
Merge(kind, rows) ==
  LET scores(key) == {rows[n].score : n \in {m \in DOMAIN rows : rows[m].key = key}}
      fresh == Picked(rows, {n \in DOMAIN rows :
                               \A m \in DOMAIN cand : cand[m].key # rows[n].key})
      entry(r) == [key |-> r.key, vec |-> IF kind = "vec" THEN r.score ELSE 0,
                                  text |-> IF kind = "text" THEN r.score ELSE 0] IN
  [n \in DOMAIN cand |-> [cand[n] EXCEPT ![kind] = Max(scores(cand[n].key) \cup {@})]]
    \o [n \in DOMAIN fresh |-> entry(fresh[n])]

\* LIMIT of the four statements.
VectorLimit == IF scope = "global" THEN Smaller(50, 5 * Settled.topK) ELSE Settled.topK
TextLimit == IF scope = "global" THEN Smaller(50, 3 * Settled.topK) ELSE Settled.topK

-----------------------------------------------------------------------------
(***************************************************************************)
(* Ranking.  c is the list of candidates.                                  *)
(***************************************************************************)

\* vMax and tMax, vMin and tMin.  A chunk that one search did not find counts 0
\* there, and 0 is among the scores even when every chunk was found.
Best(c, kind) == Max({0} \cup {c[n][kind] : n \in DOMAIN c})
Worst(c, kind) == Min({0} \cup {c[n][kind] : n \in DOMAIN c})
Span(c, kind) == Best(c, kind) - Worst(c, kind)

\* normalize01, in hundredths.
Normal(c, n, kind) ==
  IF Span(c, kind) > 0 THEN (100 * (c[n][kind] - Worst(c, kind))) \div Span(c, kind) ELSE 0

Boost(x, threshold) == IF x >= threshold THEN Smaller(100, x + 10) ELSE x

FusedScore(c, n) ==
  LET preset == Preset[Settled.bias] IN
  Settled.alpha * Boost(Normal(c, n, "vec"), preset.sem)
    + (100 - Settled.alpha) * Boost(Normal(c, n, "text"), preset.lex)

Scored(c) ==
  {[key |-> c[n].key, score |-> FusedScore(c, n), place |-> n] : n \in DOMAIN c}

\* At most MAX_CHUNKS_PER_POST chunks of a post.
Diversified(rows) ==
  {r \in rows : Cardinality({q \in rows : q.key.post = r.key.post /\ Ahead(q, r)})
                   < MAX_CHUNKS_PER_POST}

\* How many chunks are asked for.
Limit == IF scope = "global" THEN Smaller(20, Larger(10, 2 * PageLimit)) ELSE Settled.limit

Chunk(r) == [key |-> r.key, score |-> r.score]

\* Mutant of Fuse: the limit is applied before the diversity.
FuseLimitFirst(c) ==
  LET first == FirstOf(Listed(Scored(c), Ahead), Limit)
      best  == Listed(Diversified({first[n] : n \in DOMAIN first}), Ahead) IN
  [n \in DOMAIN best |-> Chunk(best[n])]

Fuse(c) ==
  LET best == FirstOf(Listed(Diversified(Scored(c)), Ahead), Limit) IN
  [n \in DOMAIN best |-> Chunk(best[n])]

PlacesOf(chunks, p) == {n \in DOMAIN chunks : chunks[n].key.post = p}

\* The chunks of a post come best first already; a second one counts a fifth.
AggregatePosts(chunks) ==
  LET score(of)   == 5 * of[1].score + IF Len(of) > 1 THEN of[2].score ELSE 0
      hit(p)      == [post |-> p, score |-> score(Picked(chunks, PlacesOf(chunks, p))),
                      place |-> Min(PlacesOf(chunks, p))]
      before(x, y) == IF x.score = y.score /\ Created[x.post] # Created[y.post]
                      THEN Created[x.post] > Created[y.post] ELSE Ahead(x, y)
      posts == Listed({hit(chunks[n].key.post) : n \in DOMAIN chunks}, before) IN
  [n \in 1 .. Larger(0, Smaller(PageLimit, Len(posts) - Offset)) |-> posts[Offset + n].post]

\* The chunks go into the prompt, or a page of their posts into the response.
Answer(chunks) ==
  /\ result' = chunks
  /\ page' = IF scope = "global" THEN AggregatePosts(result') ELSE <<>>

-----------------------------------------------------------------------------
(***************************************************************************)
(* The search.                                                             *)
(***************************************************************************)

\* The request to the LLM rejects, no JSON can be found in the answer, or the
\* schema refuses it.
PlanFails ==
  /\ pc = "plan"
  /\ pc' = "failed"
  /\ asked' = {}
  /\ UNCHANGED <<at, scope, plan, kept, eligible, body, cand, result, page>>

Plan ==
  /\ pc = "plan"
  /\ \E a \in asked :
       /\ Accepts(a.raw)
       /\ plan' = {Normalize(a.raw, a.base)}
       /\ pc' = IF a.raw.enabled THEN "embed" ELSE "embedOne"
  /\ UNCHANGED <<at, scope, asked, kept, eligible, body, cand, result, page>>

\* fp.created_at BETWEEN from AND to, in the statements of one blog only.
Eligible ==
  IF scope = "global" THEN Posts
  ELSE {p \in Posts : \A f \in Settled.time : \A a \in f.from, b \in f.to :
                        Created[p] \in a .. b}

\* The request of createEmbeddings is answered, and the first query sent.
BeginSearch ==
  /\ asked \subseteq Searched
  /\ eligible' = Eligible
  /\ asked' = {}
  /\ UNCHANGED <<at, scope, plan, body, cand, result, page>>

\* A rewrite that is too far from the question is left out of every search.
Embed ==
  /\ pc = "embed"
  /\ kept' \in {{0} \cup s : s \in SUBSET (1 .. Len(Settled.rewrites))}
  /\ pc' = "vector"
  /\ BeginSearch

\* Mutant of NextQuery: the rewrites that were left out are searched as well.
AnyQuery == {n \in {at + 1} : n <= Len(Settled.rewrites)}

\* The next query that is kept, if there is one.
NextQuery == {n \in kept : n > at /\ \A m \in kept : m > at => n <= m}

VectorSearch ==
  /\ pc = "vector"
  /\ \E rows \in {Rows(hits, "vec") : hits \in Hits(VecScores, VectorLimit)} :
       cand' = Merge("vec", rows)
  /\ IF NextQuery # {}
     THEN pc' = "vector" /\ at' \in NextQuery
     ELSE pc' = "text" /\ at' = 0
  /\ UNCHANGED <<scope, asked, plan, kept, eligible, body, result, page>>

\* After the last query the candidates are fused; when there are none the
\* question is searched for alone.
AfterText ==
  IF NextQuery # {}
  THEN pc' = "text" /\ at' \in NextQuery /\ UNCHANGED <<result, page>>
  ELSE /\ at' = 0
       /\ IF cand' = <<>> THEN pc' = "embedOne" /\ UNCHANGED <<result, page>>
                          ELSE pc' = "done" /\ Answer(Fuse(cand'))

TextSearch ==
  /\ pc = "text"
  /\ \E rows \in {Rows(hits, "text") : hits \in Hits(TextScores, TextLimit)} :
       cand' = Merge("text", rows)
  /\ AfterText
  /\ UNCHANGED <<scope, asked, plan, kept, eligible, body>>

\* The error of the text search of a rewrite is swallowed.
RewriteFails ==
  /\ pc = "text" /\ at > 0
  /\ UNCHANGED cand
  /\ AfterText
  /\ UNCHANGED <<scope, asked, plan, kept, eligible, body>>

EmbedOne ==
  /\ pc = "embedOne"
  /\ pc' = "semantic"
  /\ UNCHANGED kept
  /\ BeginSearch

SemanticSearch ==
  /\ pc = "semantic"
  /\ \E hits \in Hits(VecScores, VectorLimit) : Answer(Rows(hits, "vec"))
  /\ pc' = "done"
  /\ UNCHANGED <<at, scope, asked, plan, kept, eligible, body, cand>>

\* Any other query rejects: the ask ends with 'error', the search with 500.
SearchFails ==
  /\ \/ pc \in {"embed", "embedOne", "vector", "semantic"}
     \/ pc = "text" /\ at = 0
  /\ asked \subseteq Searched
  /\ pc' = "failed"
  /\ at' = 0
  /\ asked' = {}
  /\ UNCHANGED <<scope, plan, kept, eligible, body, cand, result, page>>

\* storeContentEmbeddings of a worker, as ChunkStore has it.
ReplaceChunks(p) ==
  /\ pc \in {"vector", "text"}
  /\ body[p] < MaxReplaced
  /\ body' = [body EXCEPT ![p] = @ + 1]
  /\ UNCHANGED <<pc, at, scope, asked, plan, kept, eligible, cand, result, page>>

Next == \/ PlanFails \/ Plan \/ Embed \/ VectorSearch \/ TextSearch \/ RewriteFails
        \/ EmbedOne \/ SemanticSearch \/ SearchFails
        \/ \E p \in Posts : ReplaceChunks(p)

Spec == Init /\ [][Next]_vars

-----------------------------------------------------------------------------
(***************************************************************************)
(* Properties.                                                             *)
(***************************************************************************)

CONSTANT Probes   \* instants the range of a filter is tried at

ASSUME ProbesAssumption == Probes \subseteq Nat

Fused == pc = "done" /\ cand # <<>>

\* The state of a search has its types; only queries that were kept are searched.
\* A fused result is no longer than was asked for, that of a vector search alone
\* only no longer than its LIMIT, and a page has no more posts than it may.
TypeOK ==
  /\ pc \in {"plan", "embed", "vector", "text", "embedOne", "semantic", "done", "failed"}
  /\ kept \subseteq 0 .. 4 /\ at \in kept
  /\ scope \in {"user", "global"} /\ \A a \in asked : a.scope = scope
  /\ Cardinality(asked) <= 1 /\ Cardinality(plan) <= 1
  /\ eligible \subseteq Posts
  /\ body \in [Posts -> Nat]
  /\ \A n \in DOMAIN cand : cand[n].vec \in Scores /\ cand[n].text \in Scores
  /\ \A n \in DOMAIN result :
       /\ result[n].key.post \in Posts
       /\ result[n].score \in IF Fused THEN 0 .. 10000 ELSE Scores
  /\ result # <<>> => pc = "done" /\ Len(result) <= IF Fused THEN Limit ELSE VectorLimit
  /\ Len(page) <= PageLimit

PlanReady == pc \in {"embed", "embedOne"} /\ asked # {}

InRange(t) == \A f \in Settled.time : \A a \in f.from, b \in f.to : t \in a .. b

\* The range a search is made with holds the instants the calendar of Korea gives
\* the filter of the plan, at the edges of days, months, quarters and years too
\* (toAbsoluteRangeKst); one that goes back to a day its month does not have
\* leaves the first days out, and lets none in.
RangeIsCalendar ==
  PlanReady =>
    \A a \in asked : \A t \in Probes :
      LET meant == \A f \in a.raw.time : Matches(f, a.base, t) IN
      /\ InRange(t) => meant
      /\ meant => InRange(t) \/ \E f \in a.raw.time : SpillsOver(f, a.base)

Distinct(words) == \A m, n \in DOMAIN words : words[m] = words[n] => m = n

\* Whatever the LLM answers, a search is made with weights that sum to one, at
\* most four rewrites and five keywords, none twice and none with capitals; and
\* the plan is settled: as an answer it would be accepted and become itself, but
\* for a keyword that was one letter and a zero-width character
\* (generateSearchPlan).
PlanSettled ==
  PlanReady =>
    LET words == Settled.rewrites \o Settled.keywords IN
    /\ Settled.chunk + Settled.title = 30
    /\ Len(Settled.rewrites) <= 4 /\ Len(Settled.keywords) <= 5
    /\ Distinct(Settled.rewrites) /\ Distinct(Settled.keywords)
    /\ \A n \in DOMAIN words : ~words[n].capital
    /\ Accepts(Settled)
    /\ \/ Normalize(Settled, 0) = Settled
       \/ \E a \in asked : \E n \in DOMAIN a.raw.keywords : a.raw.keywords[n].kind = "padded"

\* The boost may put y at the top of the scale, where no other is ahead of it.
MayTop(y, kind) == 10 * (y[kind] - Worst(cand, kind)) >= 9 * Span(cand, kind)

\* x is better than y: nowhere worse, and better by one of the scores, in which y
\* is not among the best.
Beats(x, y) ==
  /\ x.vec >= y.vec /\ x.text >= y.text
  /\ \/ Settled.alpha > 0 /\ x.vec > y.vec /\ ~MayTop(y, "vec")
     \/ Settled.alpha < 100 /\ x.text > y.text /\ ~MayTop(y, "text")

\* x is among the first n chunks of the result, or two chunks of its post are.
Served(x, n) ==
  \/ \E m \in 1 .. n : result[m].key = x.key
  \/ Cardinality({m \in 1 .. n : result[m].key.post = x.key.post}) = MAX_CHUNKS_PER_POST

ChunksBestFirst ==
  /\ \A x \in DOMAIN cand : Len(result) < Limit => Served(cand[x], Len(result))
  /\ \A n \in DOMAIN result, x, y \in DOMAIN cand :
       (result[n].key = cand[y].key /\ Beats(cand[x], cand[y])) => Served(cand[x], n - 1)

\* p has a better chunk than any of q, and q has no second chunk that makes up for
\* it: p has one as good, or a fifth of that of q is less than p is ahead.
Outranks(p, q) ==
  LET of(r) == Picked(result, PlacesOf(result, r))
      lead  == of(p)[1].score - of(q)[1].score IN
  /\ lead > 0
  /\ \/ Len(of(q)) = 1
     \/ Len(of(p)) > 1 /\ of(p)[2].score >= of(q)[2].score
     \/ 5 * lead > of(q)[2].score

PostsBestFirst ==
  LET found == {result[n].key.post : n \in DOMAIN result}
      shown == {page[n] : n \in DOMAIN page} IN
  /\ Distinct(page) /\ shown \subseteq found
  /\ (Offset = 0 /\ Len(page) < PageLimit) => shown = found
  /\ \A n \in DOMAIN page, p \in found :
       (Offset = 0 /\ Outranks(p, page[n])) => p \in {page[m] : m \in 1 .. n - 1}

\* A fused search leaves nothing out and puts nothing first for no reason: while
\* there is room a candidate is answered unless two others of its post are, one
\* that beats another comes before it, and the posts of a page are in the order of
\* their chunks (runHybridSearch, aggregatePosts).
BestFirst ==
  Fused => /\ ChunksBestFirst
           /\ scope = "global" => PostsBestFirst

\* A chunk of a blog is in the prompt once, though several queries hit it and a
\* worker replaces its text between two of them (byKey).  In the page of a search
\* over all blogs it may be there by its number and by its text.
ChunkOnce ==
  scope = "user" =>
    \A m, n \in DOMAIN result :
      (/\ result[m].key.post = result[n].key.post
       /\ result[m].key.index = result[n].key.index) => m = n
=============================================================================
