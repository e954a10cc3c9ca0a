-------------------------- MODULE AskStream_proofs --------------------------
(***************************************************************************)
(* Proofs about AskStream: type correctness, the outcome the client is     *)
(* told, what is in the history and in the answer cache, for any number of *)
(* asks, sessions, tones, edits and faults.                                *)
(***************************************************************************)
EXTENDS AskStream, SequenceTheorems, TLAPS

-----------------------------------------------------------------------------
(* Type correctness.                                                       *)

LEMMA ConstantsTyped ==
  /\ NoRequest \in Request /\ NoAnswer \in Answer
  /\ \A r \in Request : r.tone \in Tones /\ r.target \in Targets /\ r.api \in Apis
  /\ "refused" \in PcValue /\ "session" \in PcValue /\ "done" \in PcValue
  /\ "dropped" \in PcValue /\ Waiting \subseteq PcValue /\ InStream \subseteq Waiting
<1>1. Apis # {} /\ Targets # {}
  BY AskAssumption
<1>2. \A api \in Apis, target \in Targets :
        [api |-> api, tone |-> Unknown, target |-> target] \in Request
  BY AskAssumption DEF Request
<1>3. NoRequest \in Request
  BY <1>1, <1>2 DEF NoRequest
<1>. QED  BY <1>3, AskAssumption DEF Request, NoAnswer, Answer, Version, PcValue, Waiting

\* What one ask receives.
LEMMA SendTyped ==
  ASSUME TypeOK, NEW a \in Asks, NEW evs \in Seq(Event), Send(a, evs)
  PROVE  events' \in [Asks -> Seq(Event)]
<1>1. events[a] \o evs \in Seq(Event)
  BY ConcatProperties DEF TypeOK
<1>. QED  BY <1>1 DEF TypeOK, Send

LEMMA EventSeqs ==
  /\ <<>> \in Seq(Event)
  /\ \A e \in Event : <<e>> \in Seq(Event)
  /\ \A e, f \in Event : <<e, f>> \in Seq(Event)
  /\ \A evs \in Seq(Event), e \in Event : Append(evs, e) \in Seq(Event)
  /\ {"answer", "error", "saved", "session_error"} \subseteq Event
<1>1. ASSUME NEW evs \in Seq(Event), NEW e \in Event PROVE Append(evs, e) \in Seq(Event)
  BY AppendProperties
<1>. QED  BY <1>1 DEF Event

LEMMA GotoTyped ==
  ASSUME TypeOK, NEW a \in Asks, NEW where \in PcValue, Goto(a, where)
  PROVE  pc' \in [Asks -> PcValue] /\ pc'[a] = where
         /\ \A b \in Asks : b # a => pc'[b] = pc[b]
BY DEF TypeOK, Goto

LEMMA SpendTyped ==
  ASSUME TypeOK, NEW k \in FaultKinds, Spend(k)
  PROVE  faults' \in [FaultKinds -> Nat]
BY DEF TypeOK, Spend

LEMMA GiveUpTyped ==
  ASSUME TypeOK, NEW a \in Asks, GiveUp(a)
  PROVE  events' \in [Asks -> Seq(Event)] /\ pc' \in [Asks -> PcValue]
BY SendTyped, EventSeqs, GotoTyped, ConstantsTyped DEF GiveUp

LEMMA ReplayTyped ==
  ASSUME TypeOK, NEW a \in Asks, NEW answer \in Answer, NEW tone \in Tones,
         NEW path \in {"replayed", "rewritten"}, Replay(a, answer, tone, path)
  PROVE  /\ draft' \in [Asks -> Answer] /\ label' \in [Asks -> Tones]
         /\ how' \in [Asks -> {"none", "replayed", "rewritten", "generated"}]
         /\ events' \in [Asks -> Seq(Event)] /\ pc' \in [Asks -> PcValue]
<1>1. "persist" \in PcValue
  BY DEF PcValue, Waiting, InStream
<1>2. events' \in [Asks -> Seq(Event)] /\ pc' \in [Asks -> PcValue]
  BY <1>1, SendTyped, EventSeqs, GotoTyped DEF Replay
<1>. QED  BY <1>2 DEF Replay, TypeOK

LEMMA GenerateTyped ==
  ASSUME TypeOK, NEW a \in Asks, NEW version \in Version, Generate(a, version)
  PROVE  /\ draft' \in [Asks -> Answer] /\ label' \in [Asks -> Tones]
         /\ how' \in [Asks -> {"none", "replayed", "rewritten", "generated"}]
         /\ pc' \in [Asks -> PcValue]
<1>1. "stream" \in PcValue /\ req[a].tone \in Tones
  BY ConstantsTyped DEF PcValue, Waiting, InStream, TypeOK
<1>2. pc' \in [Asks -> PcValue]
  BY <1>1, GotoTyped DEF Generate
<1>. QED  BY <1>1, <1>2 DEF Generate, TypeOK, Answer

LEMMA EndOfStreamTyped ==
  ASSUME TypeOK, NEW a \in Asks, NEW evs \in {<<>>, <<"error">>}, NEW whole \in BOOLEAN,
         EndOfStream(a, evs, whole)
  PROVE  /\ draft' \in [Asks -> Answer]
         /\ events' \in [Asks -> Seq(Event)] /\ pc' \in [Asks -> PcValue]
<1>1. "persist" \in PcValue /\ "done" \in PcValue
  BY DEF PcValue, Waiting, InStream
<1>2. draft' \in [Asks -> Answer]
  <2>1. [draft[a] EXCEPT !.whole = whole] \in Answer /\ draft \in [Asks -> Answer]
    <3>1. draft \in [Asks -> Answer] /\ draft[a] \in Answer
      BY DEF TypeOK
    <3>. QED  BY <3>1 DEF Answer
  <2>. QED  BY <2>1 DEF EndOfStream
<1>3. /\ left[a] \in BOOLEAN /\ embedded[a] \in BOOLEAN /\ draft[a].blank \in BOOLEAN
      /\ evs \in Seq(Event) /\ Append(evs, "saved") \in Seq(Event)
      /\ Append(evs, "session_error") \in Seq(Event)
  <2>1. left[a] \in BOOLEAN /\ embedded[a] \in BOOLEAN /\ draft[a] \in Answer
    BY DEF TypeOK
  <2>2. draft[a].blank \in BOOLEAN
    BY <2>1 DEF Answer
  <2>3. evs \in Seq(Event)
    BY EventSeqs
  <2>. QED  BY <2>1, <2>2, <2>3, EventSeqs
<1>4. \/ Goto(a, "done") /\ UNCHANGED events
      \/ Goto(a, "done") /\ Send(a, Append(evs, "session_error"))
      \/ Goto(a, "done") /\ Send(a, Append(evs, "saved"))
      \/ Goto(a, "persist") /\ Send(a, evs)
  BY <1>3 DEF EndOfStream
<1>5. pc' \in [Asks -> PcValue]
  BY <1>1, <1>4, GotoTyped
<1>6. events' \in [Asks -> Seq(Event)]
  BY <1>3, <1>4, SendTyped DEF TypeOK
<1>. QED  BY <1>2, <1>5, <1>6

LEMMA RankedTyped ==
  ASSUME NEW rows \in SUBSET CacheRow, NEW top \in Ranked(rows)
  PROVE  /\ top \in Seq(CacheRow)
         /\ \A n \in DOMAIN top : top[n] \in rows
<1>1. PICK n \in 0 .. 3 : top \in [1 .. n -> rows]
  BY DEF Ranked
<1>. QED  BY <1>1, IsASeq

LEMMA AnswerTyped ==
  ASSUME TypeOK, NEW ask, TurnsOf(ask) # {}
  PROVE  /\ AnswerOf(ask) \in Answer
         /\ \E turn \in messages : turn.ask = ask /\ AnswerOf(ask) = turn.answer
BY DEF TypeOK, TurnsOf, AnswerOf, Turn

LEMMA CommitTyped ==
  ASSUME TypeOK, NEW a \in Asks, session[a] \in Sessions, Commit(a)
  PROVE  messages' \subseteq Turn /\ questionCache' \subseteq CacheRow /\ stored' \subseteq Asks
BY ConstantsTyped DEF TypeOK, Commit, Turn, CacheRow

-----------------------------------------------------------------------------
(* Each kind of step keeps the types.  An ask in its stream has a session.  *)

HasSession ==
  \A a \in Asks : pc[a] \in InStream \cup {"done"} =>
    session[a] \in Sessions /\ sessions[session[a]] # "unused"

LEMMA SessionTyped ==
  ASSUME TypeOK, HasSession, NEW a \in Asks, pc[a] = "persist"
  PROVE  session[a] \in Sessions
BY DEF HasSession, InStream

LEMMA TypeInit == Init => TypeOK
<1>. SUFFICES ASSUME Init PROVE TypeOK
  OBVIOUS
<1>1. <<>> \in Seq(Event) /\ <<>> \in Seq(CacheRow)
  OBVIOUS
<1>2. 0 \in Version /\ "idle" \in PcValue
  BY AskAssumption DEF Version, PcValue
<1>3. /\ pc \in [Asks -> PcValue] /\ req \in [Asks -> Request]
      /\ draft \in [Asks -> Answer] /\ label \in [Asks -> Tones]
      /\ session \in [Asks -> Sessions \cup {NoSession}]
  BY <1>2, ConstantsTyped, AskAssumption DEF Init
<1>4. events \in [Asks -> Seq(Event)] /\ found \in [Asks -> Seq(CacheRow)]
  BY <1>1 DEF Init
<1>5. /\ embedded \in [Asks -> BOOLEAN] /\ left \in [Asks -> BOOLEAN]
      /\ how \in [Asks -> {"none", "replayed", "rewritten", "generated"}]
      /\ sessions \in [Sessions -> {"unused", "live", "deleted"}]
  BY DEF Init
<1>6. /\ post \in [live : BOOLEAN, version : Version]
      /\ embVersion \in Version /\ replacing \in BOOLEAN
      /\ undeleted \in BOOLEAN /\ foreign \in {"public", "hidden"}
  BY <1>2 DEF Init
<1>7. /\ faults \in [FaultKinds -> Nat]
      /\ messages \subseteq Turn /\ questionCache \subseteq CacheRow
      /\ stored \subseteq Asks /\ overlapped \subseteq Asks /\ readable \subseteq Asks
  BY AskAssumption DEF Init
<1>. QED  BY <1>3, <1>4, <1>5, <1>6, <1>7 DEF TypeOK

LEMMA TypeStart ==
  ASSUME TypeOK, NEW a \in Asks,
         Ask(a) \/ ResolveSession(a) \/ RefuseSession(a) \/ Disconnect(a)
  PROVE  TypeOK'
<1>1. {"session", "prepare", "refused"} \subseteq PcValue
  BY DEF PcValue, Waiting, InStream
<1>2. pc' \in [Asks -> PcValue]
  BY <1>1, GotoTyped DEF TypeOK, Ask, ResolveSession, RefuseSession, Disconnect
<1>3. CASE Ask(a)
  BY <1>2, <1>3 DEF TypeOK, Ask, dbVars, blogVars
<1>4. CASE ResolveSession(a)
  BY <1>2, <1>4 DEF TypeOK, ResolveSession, blogVars, history
<1>5. CASE RefuseSession(a)
  BY <1>2, <1>5 DEF TypeOK, RefuseSession, dbVars, blogVars, history
<1>6. CASE Disconnect(a)
  BY <1>2, <1>6, SpendTyped DEF TypeOK, Disconnect, FaultKinds, dbVars, blogVars, history
<1>. QED  BY <1>3, <1>4, <1>5, <1>6

LEMMA TypeCache ==
  ASSUME TypeOK, NEW a \in Asks, CacheStep(a) \/ PrepareShort(a)
  PROVE  TypeOK'
<1>1. {"lookup", "hydrate", "rewrite", "retrieve"} \subseteq PcValue
  BY DEF PcValue, Waiting, InStream
<1>2. CASE Prepare(a)
  BY <1>1, <1>2, GotoTyped DEF TypeOK, Prepare, dbVars, blogVars, history
<1>3. CASE PrepareShort(a)
  BY <1>1, <1>3, GotoTyped, SpendTyped
  DEF TypeOK, PrepareShort, FaultKinds, dbVars, blogVars, history
<1>4. CASE FindSimilar(a)
  <2>1. PICK rows \in Ranked({row \in questionCache : row.target = req[a].target}) :
          /\ found' = [found EXCEPT ![a] = rows]
          /\ Goto(a, IF rows = <<>> THEN "retrieve" ELSE "hydrate")
    BY <1>4 DEF FindSimilar
  <2>2. rows \in Seq(CacheRow)
    BY RankedTyped DEF TypeOK
  <2>3. pc' \in [Asks -> PcValue]
    BY <2>1, <1>1, GotoTyped
  <2>. QED  BY <1>4, <2>1, <2>2, <2>3 DEF TypeOK, FindSimilar, dbVars, blogVars, history
<1>5. CASE HydrateMatch(a)
  <2>1. PICK n \in Hydrated(a) : Replay(a, AnswerOf(found[a][n].ask), found[a][n].tone, "replayed")
    BY <1>5 DEF HydrateMatch
  <2>2. AnswerOf(found[a][n].ask) \in Answer /\ found[a][n].tone \in Tones
    <3>1. found[a] \in Seq(CacheRow) /\ n \in DOMAIN found[a]
      BY DEF TypeOK, Hydrated
    <3>2. found[a][n] \in CacheRow
      BY <3>1
    <3>. QED  BY <3>2, AnswerTyped DEF Hydrated, CacheRow
  <2>3. /\ draft' \in [Asks -> Answer] /\ label' \in [Asks -> Tones]
        /\ how' \in [Asks -> {"none", "replayed", "rewritten", "generated"}]
        /\ events' \in [Asks -> Seq(Event)] /\ pc' \in [Asks -> PcValue]
    BY <2>1, <2>2, ReplayTyped
  <2>4. found' \in [Asks -> Seq(CacheRow)]
    BY <1>5 DEF HydrateMatch, TypeOK
  <2>. QED  BY <1>5, <2>3, <2>4 DEF TypeOK, HydrateMatch, dbVars, blogVars, history
<1>6. CASE HydrateOther(a)
  <2>1. found' \in [Asks -> Seq(CacheRow)]
    BY <1>6 DEF HydrateOther, TypeOK
  <2>2. draft' \in [Asks -> Answer] /\ pc' \in [Asks -> PcValue]
    <3>1. CASE Goto(a, "retrieve") /\ UNCHANGED draft
      BY <3>1, <1>1, GotoTyped DEF TypeOK
    <3>2. CASE \E n \in Hydrated(a) :
                 /\ Goto(a, "rewrite")
                 /\ draft' = [draft EXCEPT ![a] = AnswerOf(found[a][n].ask)]
      <4>1. PICK n \in Hydrated(a) :
              /\ Goto(a, "rewrite")
              /\ draft' = [draft EXCEPT ![a] = AnswerOf(found[a][n].ask)]
        BY <3>2
      <4>2. AnswerOf(found[a][n].ask) \in Answer
        BY AnswerTyped DEF Hydrated
      <4>. QED  BY <4>1, <4>2, <1>1, GotoTyped DEF TypeOK
    <3>. QED  BY <1>6, <3>1, <3>2 DEF HydrateOther
  <2>. QED  BY <1>6, <2>1, <2>2 DEF TypeOK, HydrateOther, dbVars, blogVars, history
<1>7. CASE Rewrite(a)
  <2>1. draft[a] \in Answer /\ req[a].tone \in Tones
    BY ConstantsTyped DEF TypeOK
  <2>2. /\ [draft[a] EXCEPT !.tone = req[a].tone] \in Answer
        /\ [draft[a] EXCEPT !.tone = req[a].tone, !.whole = FALSE] \in Answer
    BY <2>1 DEF Answer
  <2>3. /\ draft' \in [Asks -> Answer] /\ label' \in [Asks -> Tones]
        /\ how' \in [Asks -> {"none", "replayed", "rewritten", "generated"}]
        /\ events' \in [Asks -> Seq(Event)] /\ pc' \in [Asks -> PcValue]
    BY <1>7, <2>1, <2>2, ReplayTyped DEF Rewrite
  <2>4. faults' \in [FaultKinds -> Nat]
    BY <1>7, SpendTyped DEF Rewrite, FaultKinds, TypeOK
  <2>. QED  BY <1>7, <2>3, <2>4 DEF TypeOK, Rewrite, dbVars, blogVars, history
<1>8. CASE RewriteFails(a)
  BY <1>1, <1>8, GotoTyped DEF TypeOK, RewriteFails, dbVars, blogVars, history
<1>. QED  BY <1>2, <1>3, <1>4, <1>5, <1>6, <1>7, <1>8 DEF CacheStep

LEMMA TypeRetrieval ==
  ASSUME TypeOK, NEW a \in Asks, RetrievalStep(a) \/ StreamError(a)
  PROVE  TypeOK'
<1>1. {"hybrid", "semantic"} \subseteq PcValue
  BY DEF PcValue, Waiting, InStream
<1>2. post.version \in Version /\ embVersion \in Version
  BY DEF TypeOK
<1>10. MaxEdits \in Version
  BY AskAssumption DEF Version
<1>3. CASE RefusePost(a)
  BY <1>3, GiveUpTyped DEF TypeOK, RefusePost, dbVars, blogVars, history
<1>4. CASE StreamError(a)
  BY <1>4, GiveUpTyped, SpendTyped DEF TypeOK, StreamError, FaultKinds, dbVars, blogVars, history
<1>5. CASE ReadPost(a)
  BY <1>5, <1>2, <1>10, GenerateTyped DEF TypeOK, ReadPost, dbVars, blogVars, history
<1>6. CASE SearchChunks(a)
  BY <1>6, <1>2, GenerateTyped DEF TypeOK, SearchChunks, dbVars, blogVars, history
<1>7. CASE SearchPlanned(a)
  BY <1>7, <1>2, GenerateTyped DEF TypeOK, SearchPlanned, dbVars, blogVars, history
<1>8. CASE Plan(a)
  BY <1>8, <1>1, GotoTyped DEF TypeOK, Plan, dbVars, blogVars, history
<1>9. CASE HybridEmpty(a)
  BY <1>9, <1>1, GotoTyped DEF TypeOK, HybridEmpty, dbVars, blogVars, history
<1>. QED  BY <1>3, <1>4, <1>5, <1>6, <1>7, <1>8, <1>9 DEF RetrievalStep

LEMMA TypeOutcome ==
  ASSUME TypeOK, HasSession, NEW a \in Asks,
         OutcomeStep(a) \/ PersistUnacknowledged(a) \/ LlmCutOff(a)
  PROVE  TypeOK'
<1>1. {"hung", "done"} \subseteq PcValue
  BY DEF PcValue, Waiting, InStream
<1>2. CASE LlmText(a)
  <2>1. draft' \in [Asks -> Answer]
    <3>1. [draft[a] EXCEPT !.blank = FALSE] \in Answer /\ draft \in [Asks -> Answer]
      <4>1. draft \in [Asks -> Answer] /\ draft[a] \in Answer
        BY DEF TypeOK
      <4>. QED  BY <4>1 DEF Answer
    <3>. QED  BY <1>2, <3>1 DEF LlmText
  <2>2. events' \in [Asks -> Seq(Event)]
    BY <1>2, SendTyped, EventSeqs DEF LlmText
  <2>. QED  BY <1>2, <2>1, <2>2 DEF TypeOK, LlmText, dbVars, blogVars, history
<1>3. CASE LlmEnd(a)
  BY <1>3, EndOfStreamTyped DEF TypeOK, LlmEnd, dbVars, blogVars, history
<1>4. CASE LlmFails(a)
  BY <1>4, EndOfStreamTyped, SpendTyped DEF TypeOK, LlmFails, FaultKinds, dbVars, blogVars, history
<1>5. CASE LlmCutOff(a)
  BY <1>5, <1>1, GotoTyped, SpendTyped DEF TypeOK, LlmCutOff, FaultKinds, dbVars, blogVars, history
<1>6. CASE Persist(a)
  <2>1. events' \in [Asks -> Seq(Event)] /\ pc' \in [Asks -> PcValue]
    BY <1>6, <1>1, SendTyped, EventSeqs, GotoTyped DEF Persist
  <2>2. messages' \subseteq Turn /\ questionCache' \subseteq CacheRow /\ stored' \subseteq Asks
    BY <1>6, SessionTyped, CommitTyped DEF Persist
  <2>. QED  BY <1>6, <2>1, <2>2 DEF TypeOK, Persist, blogVars
<1>7. CASE PersistFails(a)
  <2>1. events' \in [Asks -> Seq(Event)] /\ pc' \in [Asks -> PcValue]
    BY <1>7, <1>1, SendTyped, EventSeqs, GotoTyped DEF PersistFails
  <2>2. faults' \in [FaultKinds -> Nat]
    BY <1>7, SpendTyped DEF PersistFails, FaultKinds, TypeOK
  <2>. QED  BY <1>7, <2>1, <2>2 DEF TypeOK, PersistFails, dbVars, blogVars, history
<1>8. CASE PersistUnacknowledged(a)
  <2>1. events' \in [Asks -> Seq(Event)] /\ pc' \in [Asks -> PcValue]
    BY <1>8, <1>1, SendTyped, EventSeqs, GotoTyped DEF PersistUnacknowledged
  <2>2. messages' \subseteq Turn /\ questionCache' \subseteq CacheRow /\ stored' \subseteq Asks
    BY <1>8, SessionTyped, CommitTyped DEF PersistUnacknowledged
  <2>3. faults' \in [FaultKinds -> Nat]
    BY <1>8, SpendTyped DEF PersistUnacknowledged, FaultKinds, TypeOK
  <2>. QED  BY <1>8, <2>1, <2>2, <2>3 DEF TypeOK, PersistUnacknowledged, blogVars
<1>. QED  BY <1>2, <1>3, <1>4, <1>5, <1>6, <1>7, <1>8 DEF OutcomeStep

LEMMA TypeEnvironment ==
  ASSUME TypeOK, Environment
  PROVE  TypeOK'
<1>1. CASE \E s \in Sessions : DeleteSession(s)
  BY <1>1 DEF TypeOK, DeleteSession, askVars, blogVars, history
<1>2. CASE EditPost
  <2>1. post \in [live : BOOLEAN, version : Version] /\ post.version < MaxEdits
    BY <1>2 DEF EditPost, TypeOK
  <2>2. post.version \in Version
    BY <2>1
  <2>3. post.version + 1 \in Version
    BY <2>1, <2>2, AskAssumption DEF Version
  <2>4. post' \in [live : BOOLEAN, version : Version]
    BY <1>2, <2>1, <2>3 DEF EditPost
  <2>. QED  BY <1>2, <2>4 DEF TypeOK, EditPost, askVars, dbVars, history
<1>3. CASE DeletePost
  BY <1>3 DEF TypeOK, DeletePost, askVars, dbVars, history
<1>4. CASE WorkerStores \/ EndpointStores
  BY <1>4 DEF TypeOK, WorkerStores, EndpointStores, StoreEmbeddings, askVars, dbVars, history
<1>5. CASE WorkerInvalidates \/ WorkerSkips
  BY <1>5 DEF TypeOK, WorkerInvalidates, WorkerSkips, askVars, dbVars, history
<1>7. CASE HideForeign \/ PublishForeign
  BY <1>7 DEF TypeOK, HideForeign, PublishForeign, askVars, dbVars, history
<1>6. CASE Crash
  BY <1>6, SpendTyped DEF TypeOK, Crash, FaultKinds, PcValue, dbVars, blogVars, history
<1>. QED  BY <1>1, <1>2, <1>3, <1>4, <1>5, <1>6, <1>7 DEF Environment

LEMMA TypeNext ==
  ASSUME TypeOK, HasSession, [Next]_vars
  PROVE  TypeOK'
<1>1. CASE \E a \in Asks : Ask(a) \/ Step(a) \/ Fault(a)
  <2>1. PICK a \in Asks : Ask(a) \/ Step(a) \/ Fault(a)
    BY <1>1
  <2>2. \/ Ask(a) \/ ResolveSession(a) \/ RefuseSession(a) \/ Disconnect(a)
        \/ CacheStep(a) \/ PrepareShort(a) \/ RetrievalStep(a) \/ StreamError(a)
        \/ OutcomeStep(a) \/ PersistUnacknowledged(a) \/ LlmCutOff(a)
    BY <2>1 DEF Step, Fault
  <2>. QED  BY <2>2, TypeStart, TypeCache, TypeRetrieval, TypeOutcome
<1>2. CASE Environment
  BY <1>2, TypeEnvironment
<1>3. CASE UNCHANGED vars
  BY <1>3 DEF TypeOK, vars, askVars, dbVars, blogVars, history
<1>. QED  BY <1>1, <1>2, <1>3 DEF Next

-----------------------------------------------------------------------------
(***************************************************************************)
(* What a step of one ask does, point by point: the other asks are left    *)
(* alone, and the ask itself moves in one of twelve ways.  The invariants  *)
(* below are proved from these.                                            *)
(***************************************************************************)

Same(b) ==
  /\ pc'[b] = pc[b] /\ req'[b] = req[b] /\ session'[b] = session[b]
  /\ found'[b] = found[b] /\ draft'[b] = draft[b] /\ label'[b] = label[b]
  /\ how'[b] = how[b] /\ left'[b] = left[b] /\ events'[b] = events[b]

Alone(a) == \A b \in Asks : b # a => Same(b)

KeepsRequest(a) == req'[a] = req[a] /\ session'[a] = session[a]
KeepsAnswer(a) == draft'[a] = draft[a] /\ label'[a] = label[a] /\ how'[a] = how[a]
Hears(a, evs) ==
  /\ left'[a] = left[a]
  /\ events'[a] = IF left[a] THEN events[a] ELSE events[a] \o evs
HearsNothing(a) == left'[a] = left[a] /\ events'[a] = events[a]

\* The history, the blog and the ghosts of the invariants are as before.
WorldStays ==
  /\ sessions' = sessions /\ messages' = messages /\ questionCache' = questionCache
  /\ post' = post /\ foreign' = foreign /\ embVersion' = embVersion
  /\ replacing' = replacing /\ undeleted' = undeleted
  /\ stored' = stored /\ overlapped' = overlapped /\ readable' = readable

\* Ask
Enters(a) ==
  /\ pc[a] = "idle" /\ pc'[a] = "session" /\ session'[a] = session[a]
  /\ KeepsAnswer(a) /\ HearsNothing(a) /\ found'[a] = found[a]
  /\ sessions' = sessions /\ messages' = messages /\ questionCache' = questionCache
  /\ post' = post /\ foreign' = foreign /\ embVersion' = embVersion
  /\ replacing' = replacing /\ undeleted' = undeleted
  /\ stored' = stored /\ overlapped' = overlapped
  /\ readable' \in {readable, readable \cup {a}}
  /\ CanRead(req'[a].target) => a \in readable'

\* ResolveSession
Opens(a) ==
  /\ pc[a] = "session" /\ pc'[a] = "prepare" /\ req'[a] = req[a]
  /\ KeepsAnswer(a) /\ HearsNothing(a) /\ found'[a] = found[a]
  /\ session'[a] \in Sessions /\ sessions'[session'[a]] = "live"
  /\ \A s \in Sessions : sessions'[s] = sessions[s] \/ (sessions[s] = "unused" /\ sessions'[s] = "live")
  /\ messages' = messages /\ questionCache' = questionCache
  /\ post' = post /\ foreign' = foreign /\ embVersion' = embVersion
  /\ replacing' = replacing /\ undeleted' = undeleted
  /\ stored' = stored /\ overlapped' = overlapped /\ readable' = readable

\* RefuseSession, Prepare, PrepareShort, RewriteFails, Plan, HybridEmpty,
\* LlmCutOff, Disconnect, and HydrateOther when nothing is left of the rows.
Drifts(a) ==
  /\ KeepsRequest(a) /\ KeepsAnswer(a) /\ events'[a] = events[a]
  /\ WorldStays
  /\ pc'[a] # "done" /\ pc[a] # "done"
  /\ \/ pc'[a] = pc[a] /\ found'[a] = found[a]
     \/ /\ pc[a] = "hydrate" /\ pc'[a] = "retrieve" /\ found'[a] = <<>>
     \/ /\ found'[a] = found[a]
        /\ \/ pc[a] = "session" /\ pc'[a] = "refused"
           \/ pc[a] = "prepare" /\ pc'[a] \in {"lookup", "retrieve"}
           \/ pc[a] = "rewrite" /\ pc'[a] = "retrieve"
           \/ pc[a] = "retrieve" /\ pc'[a] \in {"hybrid", "semantic"} /\ req[a].target = "none"
           \/ pc[a] = "hybrid" /\ pc'[a] = "semantic"
           \/ pc[a] \in {"stream", "rewrite"} /\ pc'[a] = "hung"

\* FindSimilar
Finds(a) ==
  /\ KeepsRequest(a) /\ KeepsAnswer(a) /\ HearsNothing(a) /\ WorldStays
  /\ pc[a] = "lookup"
  /\ \A n \in DOMAIN found'[a] :
       /\ pc'[a] = "hydrate"
       /\ found'[a][n] \in questionCache /\ found'[a][n].target = req[a].target
  /\ pc'[a] \in {"hydrate", "retrieve"}

\* HydrateOther when a row is to be rewritten.
Picks(a) ==
  /\ KeepsRequest(a) /\ HearsNothing(a) /\ WorldStays
  /\ pc[a] = "hydrate" /\ pc'[a] = "rewrite" /\ found'[a] = <<>>
  /\ label'[a] = label[a] /\ how'[a] = how[a]
  /\ \E n \in DOMAIN found[a] :
       TurnsOf(found[a][n].ask) # {} /\ draft'[a] = AnswerOf(found[a][n].ask)

\* HydrateMatch
Replays(a) ==
  /\ KeepsRequest(a) /\ Hears(a, <<"answer">>) /\ WorldStays
  /\ pc[a] = "hydrate" /\ pc'[a] = "persist" /\ found'[a] = <<>>
  /\ label'[a] = req[a].tone /\ how'[a] = "replayed"
  /\ \E n \in DOMAIN found[a] :
       /\ TurnsOf(found[a][n].ask) # {} /\ draft'[a] = AnswerOf(found[a][n].ask)
       /\ found[a][n].tone = req[a].tone

\* Rewrite
Rewrites(a) ==
  /\ KeepsRequest(a) /\ Hears(a, <<"answer">>) /\ WorldStays
  /\ pc[a] = "rewrite" /\ pc'[a] = "persist" /\ found'[a] = found[a]
  /\ label'[a] = req[a].tone /\ how'[a] = "rewritten"
  /\ draft'[a].tone = req[a].tone /\ draft'[a].version = draft[a].version

\* ReadPost, SearchChunks, SearchPlanned
Generates(a) ==
  /\ KeepsRequest(a) /\ HearsNothing(a) /\ WorldStays
  /\ pc[a] \in {"retrieve", "hybrid", "semantic"} /\ pc'[a] = "stream"
  /\ found'[a] = found[a]
  /\ label'[a] = req[a].tone /\ how'[a] = "generated"
  /\ draft'[a].tone = req[a].tone
  /\ \/ CanRead(req[a].target) /\ draft'[a].version \in {post.version, MaxEdits}
     \/ (pc[a] = "retrieve" => req[a].target = "none") /\ draft'[a].version = embVersion

\* LlmText
Speaks(a) ==
  /\ KeepsRequest(a) /\ Hears(a, <<"answer">>) /\ WorldStays
  /\ pc[a] = "stream" /\ pc'[a] = "stream" /\ found'[a] = found[a]
  /\ label'[a] = label[a] /\ how'[a] = how[a]
  /\ draft'[a].tone = draft[a].tone /\ draft'[a].version = draft[a].version

\* LlmEnd, LlmFails
Ends(a) ==
  /\ KeepsRequest(a) /\ WorldStays
  /\ pc[a] = "stream" /\ found'[a] = found[a]
  /\ label'[a] = label[a] /\ how'[a] = how[a]
  /\ draft'[a].tone = draft[a].tone /\ draft'[a].version = draft[a].version
  /\ draft'[a].blank = draft[a].blank
  /\ \E evs \in {<<>>, <<"error">>} :
       \/ pc'[a] = "done" /\ left[a] /\ HearsNothing(a)
       \/ pc'[a] = "done" /\ Hears(a, Append(evs, "session_error"))
       \/ pc'[a] = "done" /\ draft[a].blank /\ Hears(a, Append(evs, "saved"))
       \/ pc'[a] = "persist" /\ Hears(a, evs)

\* RefusePost, StreamError, PersistFails
Quits(a) ==
  /\ KeepsRequest(a) /\ KeepsAnswer(a) /\ WorldStays
  /\ pc[a] \in InStream /\ pc'[a] = "done" /\ found'[a] = found[a]
  /\ \E evs \in {<<"error", "session_error">>, <<"session_error">>} : Hears(a, evs)

\* Persist, PersistUnacknowledged
Stores(a) ==
  /\ KeepsRequest(a) /\ KeepsAnswer(a) /\ Commit(a)
  /\ pc[a] = "persist" /\ pc'[a] = "done" /\ found'[a] = found[a]
  /\ Hears(a, <<"saved">>) \/ Hears(a, <<"session_error">>)
  /\ sessions' = sessions
  /\ post' = post /\ foreign' = foreign /\ embVersion' = embVersion
  /\ replacing' = replacing /\ undeleted' = undeleted
  /\ overlapped' = overlapped /\ readable' = readable

Moves(a) ==
  \/ Enters(a) \/ Opens(a) \/ Drifts(a) \/ Finds(a) \/ Picks(a) \/ Replays(a)
  \/ Rewrites(a) \/ Generates(a) \/ Speaks(a) \/ Ends(a) \/ Quits(a) \/ Stores(a)

LEMMA StartMoves ==
  ASSUME TypeOK, NEW a \in Asks,
         Ask(a) \/ ResolveSession(a) \/ RefuseSession(a) \/ Disconnect(a)
  PROVE  Alone(a) /\ Moves(a)
<1>1. CASE Ask(a)
  <2>1. Alone(a)
    BY <1>1 DEF TypeOK, Ask, Goto, Alone, Same
  <2>2. Enters(a)
    BY <1>1 DEF TypeOK, Ask, Goto, Enters, KeepsAnswer, HearsNothing, dbVars, blogVars
  <2>. QED  BY <2>1, <2>2 DEF Moves
<1>2. CASE ResolveSession(a)
  <2>1. Alone(a)
    BY <1>2 DEF TypeOK, ResolveSession, Goto, Alone, Same
  <2>2. Opens(a)
    BY <1>2 DEF TypeOK, ResolveSession, Goto, Opens, KeepsAnswer, HearsNothing,
                blogVars, history
  <2>. QED  BY <2>1, <2>2 DEF Moves
<1>3. CASE RefuseSession(a) \/ Disconnect(a)
  <2>1. Alone(a)
    BY <1>3 DEF TypeOK, RefuseSession, Disconnect, Goto, Alone, Same
  <2>2. Drifts(a)
    BY <1>3 DEF TypeOK, RefuseSession, Disconnect, Goto, Drifts, KeepsAnswer,
                KeepsRequest, WorldStays, InStream, dbVars, blogVars, history
  <2>. QED  BY <2>1, <2>2 DEF Moves
<1>. QED  BY <1>1, <1>2, <1>3

LEMMA CacheMoves ==
  ASSUME TypeOK, NEW a \in Asks, CacheStep(a) \/ PrepareShort(a)
  PROVE  Alone(a) /\ Moves(a)
<1>1. CASE Prepare(a) \/ PrepareShort(a) \/ RewriteFails(a)
  <2>1. Alone(a)
    BY <1>1 DEF TypeOK, Prepare, PrepareShort, RewriteFails, Goto, Alone, Same
  <2>2. Drifts(a)
    BY <1>1 DEF TypeOK, Prepare, PrepareShort, RewriteFails, Goto, Drifts, KeepsAnswer,
                KeepsRequest, WorldStays, dbVars, blogVars, history
  <2>. QED  BY <2>1, <2>2 DEF Moves
<1>2. CASE FindSimilar(a)
  <2>1. Alone(a)
    BY <1>2 DEF TypeOK, FindSimilar, Goto, Alone, Same
  <2>2. PICK rows \in Ranked({row \in questionCache : row.target = req[a].target}) :
          /\ found' = [found EXCEPT ![a] = rows]
          /\ Goto(a, IF rows = <<>> THEN "retrieve" ELSE "hydrate")
    BY <1>2 DEF FindSimilar
  <2>3. \A n \in DOMAIN rows : rows[n] \in questionCache /\ rows[n].target = req[a].target
    <3>1. {row \in questionCache : row.target = req[a].target} \subseteq CacheRow
      BY DEF TypeOK
    <3>. QED  BY <3>1, RankedTyped
  <2>4. found'[a] = rows /\ pc'[a] = IF rows = <<>> THEN "retrieve" ELSE "hydrate"
    BY <2>2 DEF TypeOK, Goto
  <2>5. rows = <<>> => DOMAIN rows = {}
    OBVIOUS
  <2>6. Finds(a)
    BY <1>2, <2>3, <2>4, <2>5
    DEF FindSimilar, Finds, KeepsAnswer, KeepsRequest, HearsNothing, WorldStays,
        dbVars, blogVars, history
  <2>. QED  BY <2>1, <2>6 DEF Moves
<1>3. CASE HydrateMatch(a)
  <2>1. Alone(a)
    BY <1>3 DEF TypeOK, HydrateMatch, Replay, Send, Goto, Alone, Same
  <2>2. PICK n \in Hydrated(a) :
          /\ Best(n, {m \in Hydrated(a) : found[a][m].tone = req[a].tone})
          /\ Replay(a, AnswerOf(found[a][n].ask), found[a][n].tone, "replayed")
    BY <1>3 DEF HydrateMatch
  <2>3. /\ n \in DOMAIN found[a] /\ TurnsOf(found[a][n].ask) # {}
        /\ found[a][n].tone = req[a].tone
    BY <2>2 DEF Hydrated, Best
  <2>4. Replays(a)
    BY <1>3, <2>2, <2>3
    DEF TypeOK, HydrateMatch, Replay, Send, Goto, Replays, KeepsRequest, Hears, WorldStays,
        dbVars, blogVars, history
  <2>. QED  BY <2>1, <2>4 DEF Moves
<1>4. CASE HydrateOther(a)
  <2>1. Alone(a)
    BY <1>4 DEF TypeOK, HydrateOther, Goto, Alone, Same
  <2>2. CASE Hydrated(a) = {} /\ Goto(a, "retrieve") /\ UNCHANGED draft
    <3>1. Drifts(a)
      BY <1>4, <2>2 DEF TypeOK, HydrateOther, Goto, Drifts, KeepsAnswer, KeepsRequest,
                        WorldStays, dbVars, blogVars, history
    <3>. QED  BY <2>1, <3>1 DEF Moves
  <2>3. CASE \E n \in Hydrated(a) :
               /\ Goto(a, "rewrite")
               /\ draft' = [draft EXCEPT ![a] = AnswerOf(found[a][n].ask)]
    <3>1. PICK n \in Hydrated(a) :
            /\ Goto(a, "rewrite")
            /\ draft' = [draft EXCEPT ![a] = AnswerOf(found[a][n].ask)]
      BY <2>3
    <3>2. n \in DOMAIN found[a] /\ TurnsOf(found[a][n].ask) # {}
      BY DEF Hydrated
    <3>3. Picks(a)
      BY <1>4, <3>1, <3>2 DEF TypeOK, HydrateOther, Goto, Picks, KeepsRequest,
                              HearsNothing, WorldStays, dbVars, blogVars, history
    <3>. QED  BY <2>1, <3>3 DEF Moves
  <2>. QED  BY <1>4, <2>2, <2>3 DEF HydrateOther
<1>5. CASE Rewrite(a)
  <2>1. Alone(a)
    BY <1>5 DEF TypeOK, Rewrite, Replay, Send, Goto, Alone, Same
  <2>2. draft[a] \in Answer /\ req[a].tone \in Tones
    BY ConstantsTyped DEF TypeOK
  <2>3. \A answer \in {[draft[a] EXCEPT !.tone = req[a].tone],
                       [draft[a] EXCEPT !.tone = req[a].tone, !.whole = FALSE]} :
          answer.tone = req[a].tone /\ answer.version = draft[a].version
    BY <2>2 DEF Answer
  <2>4. PICK answer \in {[draft[a] EXCEPT !.tone = req[a].tone],
                         [draft[a] EXCEPT !.tone = req[a].tone, !.whole = FALSE]} :
          Replay(a, answer, req[a].tone, "rewritten")
    BY <1>5 DEF Rewrite
  <2>5. draft'[a] = answer /\ label'[a] = req[a].tone /\ how'[a] = "rewritten"
        /\ Hears(a, <<"answer">>) /\ pc'[a] = "persist"
    BY <1>5, <2>4 DEF TypeOK, Rewrite, Replay, Send, Goto, Hears
  <2>6. Rewrites(a)
    BY <1>5, <2>3, <2>5 DEF Rewrite, Rewrites, KeepsRequest, WorldStays,
                            dbVars, blogVars, history
  <2>. QED  BY <2>1, <2>6 DEF Moves
<1>. QED  BY <1>1, <1>2, <1>3, <1>4, <1>5 DEF CacheStep

LEMMA RetrievalMoves ==
  ASSUME TypeOK, NEW a \in Asks, RetrievalStep(a) \/ StreamError(a)
  PROVE  Alone(a) /\ Moves(a)
<1>1. CASE RefusePost(a) \/ StreamError(a)
  <2>1. Alone(a)
    BY <1>1 DEF TypeOK, RefusePost, StreamError, GiveUp, Send, Goto, Alone, Same
  <2>2. Quits(a)
    BY <1>1 DEF TypeOK, RefusePost, StreamError, GiveUp, Send, Goto, Quits, InStream,
                KeepsRequest, KeepsAnswer, Hears, WorldStays, dbVars, blogVars, history
  <2>. QED  BY <2>1, <2>2 DEF Moves
<1>2. CASE ReadPost(a) \/ SearchChunks(a) \/ SearchPlanned(a)
  <2>1. PICK version \in Version :
          /\ Generate(a, version)
          /\ \/ CanRead(req[a].target) /\ version \in {post.version, MaxEdits}
             \/ (pc[a] = "retrieve" => req[a].target = "none") /\ version = embVersion
    BY <1>2, AskAssumption DEF TypeOK, Version, ReadPost, SearchChunks, SearchPlanned
  <2>2. Alone(a)
    BY <1>2, <2>1 DEF TypeOK, ReadPost, SearchChunks, SearchPlanned, Generate, Goto, Alone, Same
  <2>3. /\ draft'[a].tone = req[a].tone /\ draft'[a].version = version
        /\ label'[a] = req[a].tone /\ how'[a] = "generated" /\ pc'[a] = "stream"
    BY <2>1 DEF TypeOK, Generate, Goto
  <2>4. Generates(a)
    BY <1>2, <2>1, <2>3 DEF ReadPost, SearchChunks, SearchPlanned, Generates,
      KeepsRequest, HearsNothing, WorldStays, dbVars, blogVars, history
  <2>. QED  BY <2>2, <2>4 DEF Moves
<1>3. CASE Plan(a) \/ HybridEmpty(a)
  <2>1. Alone(a)
    BY <1>3 DEF TypeOK, Plan, HybridEmpty, Goto, Alone, Same
  <2>2. Drifts(a)
    BY <1>3 DEF TypeOK, Plan, HybridEmpty, Goto, Drifts, KeepsAnswer, KeepsRequest,
                WorldStays, dbVars, blogVars, history
  <2>. QED  BY <2>1, <2>2 DEF Moves
<1>. QED  BY <1>1, <1>2, <1>3 DEF RetrievalStep

LEMMA OutcomeMoves ==
  ASSUME TypeOK, NEW a \in Asks,
         OutcomeStep(a) \/ PersistUnacknowledged(a) \/ LlmCutOff(a)
  PROVE  Alone(a) /\ Moves(a)
<1>1. CASE LlmText(a)
  <2>1. Alone(a)
    BY <1>1 DEF TypeOK, LlmText, Send, Alone, Same
  <2>2. draft'[a].tone = draft[a].tone /\ draft'[a].version = draft[a].version
    BY <1>1 DEF TypeOK, LlmText, Answer
  <2>3. Speaks(a)
    BY <1>1, <2>2 DEF TypeOK, LlmText, Send, Speaks, KeepsRequest, Hears, WorldStays,
                      dbVars, blogVars, history
  <2>. QED  BY <2>1, <2>3 DEF Moves
<1>2. CASE LlmEnd(a) \/ LlmFails(a)
  <2>1. PICK evs \in {<<>>, <<"error">>}, whole \in BOOLEAN : EndOfStream(a, evs, whole)
    BY <1>2 DEF LlmEnd, LlmFails
  <2>2. left[a] \in BOOLEAN /\ embedded[a] \in BOOLEAN /\ draft[a] \in Answer
    BY DEF TypeOK
  <2>3. draft[a].blank \in BOOLEAN
    BY <2>2 DEF Answer
  <2>4. \/ left[a] /\ Goto(a, "done") /\ UNCHANGED events
        \/ Goto(a, "done") /\ Send(a, Append(evs, "session_error"))
        \/ draft[a].blank /\ Goto(a, "done") /\ Send(a, Append(evs, "saved"))
        \/ Goto(a, "persist") /\ Send(a, evs)
    BY <2>1, <2>2, <2>3 DEF EndOfStream
  <2>5. draft' = [draft EXCEPT ![a].whole = whole]
    BY <2>1 DEF EndOfStream
  <2>6. Alone(a)
    BY <1>2, <2>4, <2>5 DEF TypeOK, LlmEnd, LlmFails, Send, Goto, Alone, Same
  <2>7. /\ draft'[a].tone = draft[a].tone /\ draft'[a].version = draft[a].version
        /\ draft'[a].blank = draft[a].blank
    BY <2>5 DEF TypeOK, Answer
  <2>8. \/ pc'[a] = "done" /\ left[a] /\ HearsNothing(a)
        \/ pc'[a] = "done" /\ Hears(a, Append(evs, "session_error"))
        \/ pc'[a] = "done" /\ draft[a].blank /\ Hears(a, Append(evs, "saved"))
        \/ pc'[a] = "persist" /\ Hears(a, evs)
    BY <1>2, <2>4 DEF TypeOK, LlmEnd, LlmFails, Send, Goto, Hears, HearsNothing
  <2>9. Ends(a)
    BY <1>2, <2>7, <2>8 DEF LlmEnd, LlmFails, Ends, KeepsRequest, WorldStays,
                            dbVars, blogVars, history
  <2>. QED  BY <2>6, <2>9 DEF Moves
<1>3. CASE LlmCutOff(a)
  <2>1. Alone(a)
    BY <1>3 DEF TypeOK, LlmCutOff, Goto, Alone, Same
  <2>2. Drifts(a)
    BY <1>3 DEF TypeOK, LlmCutOff, Goto, Drifts, KeepsAnswer, KeepsRequest,
                WorldStays, dbVars, blogVars, history
  <2>. QED  BY <2>1, <2>2 DEF Moves
<1>4. CASE PersistFails(a)
  <2>1. Alone(a)
    BY <1>4 DEF TypeOK, PersistFails, Send, Goto, Alone, Same
  <2>2. Quits(a)
    BY <1>4 DEF TypeOK, PersistFails, Send, Goto, Quits, InStream, KeepsRequest,
                KeepsAnswer, Hears, WorldStays, dbVars, blogVars, history
  <2>. QED  BY <2>1, <2>2 DEF Moves
<1>5. CASE Persist(a) \/ PersistUnacknowledged(a)
  <2>1. Alone(a)
    BY <1>5 DEF TypeOK, Persist, PersistUnacknowledged, Send, Goto, Alone, Same
  <2>2. Stores(a)
    BY <1>5 DEF TypeOK, Persist, PersistUnacknowledged, Send, Goto, Stores, KeepsRequest,
                KeepsAnswer, Hears, blogVars
  <2>. QED  BY <2>1, <2>2 DEF Moves
<1>. QED  BY <1>1, <1>2, <1>3, <1>4, <1>5 DEF OutcomeStep

LEMMA AskMoves ==
  ASSUME TypeOK, NEW a \in Asks, Ask(a) \/ Step(a) \/ Fault(a)
  PROVE  Alone(a) /\ Moves(a)
<1>1. \/ Ask(a) \/ ResolveSession(a) \/ RefuseSession(a) \/ Disconnect(a)
      \/ CacheStep(a) \/ PrepareShort(a) \/ RetrievalStep(a) \/ StreamError(a)
      \/ OutcomeStep(a) \/ PersistUnacknowledged(a) \/ LlmCutOff(a)
  BY DEF Step, Fault
<1>. QED  BY <1>1, StartMoves, CacheMoves, RetrievalMoves, OutcomeMoves

-----------------------------------------------------------------------------
(* What the client of an ask has received after a step of it.              *)

LEMMA HeardSame ==
  ASSUME NEW b \in Asks, events'[b] = events[b]
  PROVE  /\ Got(b, "answer")' <=> Got(b, "answer")
         /\ Got(b, "saved")' <=> Got(b, "saved")
         /\ Outcomes(b)' = Outcomes(b)
BY DEF Got, Outcomes

\* The last event of these is the outcome, and the only one.
Final(evs) ==
  /\ Len(evs) > 0
  /\ \A n \in DOMAIN evs : evs[n] \in {"saved", "session_error"} <=> n = Len(evs)

Without(evs, these) == \A n \in DOMAIN evs : evs[n] \notin these

LEMMA HeardMore ==
  ASSUME TypeOK, NEW a \in Asks, NEW evs \in Seq(Event), Hears(a, evs)
  PROVE  /\ Got(a, "answer")' => Got(a, "answer") \/ ~Without(evs, {"answer"})
         /\ Got(a, "saved")' => Got(a, "saved") \/ ~Without(evs, {"saved"})
         /\ Outcomes(a) = {} /\ Without(evs, {"saved", "session_error"}) => Outcomes(a)' = {}
         /\ ~left[a] /\ Outcomes(a) = {} /\ Final(evs) => Outcomes(a)' = {Len(events'[a])}
<1>1. CASE left[a]
  BY <1>1, HeardSame DEF Hears
<1>2. CASE ~left[a]
  <2>1. events[a] \in Seq(Event) /\ events'[a] = events[a] \o evs
    BY <1>2 DEF TypeOK, Hears
  <2>2. /\ Len(events'[a]) = Len(events[a]) + Len(evs)
        /\ \A n \in 1 .. Len(events[a]) + Len(evs) :
             events'[a][n] = IF n <= Len(events[a]) THEN events[a][n]
                                                    ELSE evs[n - Len(events[a])]
        /\ DOMAIN events'[a] = 1 .. Len(events[a]) + Len(evs)
        /\ DOMAIN events[a] = 1 .. Len(events[a]) /\ DOMAIN evs = 1 .. Len(evs)
        /\ Len(events[a]) \in Nat /\ Len(evs) \in Nat
    BY <2>1
  <2>3. \A n \in DOMAIN events'[a] :
          \/ n \in DOMAIN events[a] /\ events'[a][n] = events[a][n]
          \/ /\ n \notin DOMAIN events[a] /\ n - Len(events[a]) \in DOMAIN evs
             /\ events'[a][n] = evs[n - Len(events[a])]
    <3>1. ASSUME NEW n \in DOMAIN events'[a], n <= Len(events[a])
          PROVE  n \in DOMAIN events[a] /\ events'[a][n] = events[a][n]
      BY <2>2, <3>1
    <3>2. ASSUME NEW n \in DOMAIN events'[a], ~(n <= Len(events[a]))
          PROVE  /\ n \notin DOMAIN events[a] /\ n - Len(events[a]) \in DOMAIN evs
                 /\ events'[a][n] = evs[n - Len(events[a])]
      <4>1. n \in 1 .. Len(events[a]) + Len(evs)
        BY <2>2
      <4>2. n - Len(events[a]) \in 1 .. Len(evs) /\ n \notin 1 .. Len(events[a])
        BY <2>2, <3>2, <4>1
      <4>. QED  BY <2>2, <3>2, <4>1, <4>2
    <3>. QED  BY <3>1, <3>2
  <2>4. /\ Got(a, "answer")' => Got(a, "answer") \/ ~Without(evs, {"answer"})
        /\ Got(a, "saved")' => Got(a, "saved") \/ ~Without(evs, {"saved"})
    BY <2>3 DEF Got, Without
  <2>5. Outcomes(a) = {} /\ Without(evs, {"saved", "session_error"}) => Outcomes(a)' = {}
    BY <2>3 DEF Outcomes, Without
  <2>6. ASSUME Outcomes(a) = {}, Final(evs)
        PROVE  Outcomes(a)' = {Len(events'[a])}
    <3>1. \A n \in DOMAIN events'[a] :
            events'[a][n] \in {"saved", "session_error"} <=> n = Len(events'[a])
      BY <2>2, <2>3, <2>6 DEF Outcomes, Final
    <3>2. Len(events'[a]) \in DOMAIN events'[a]
      BY <2>2, <2>6 DEF Final
    <3>. QED  BY <3>1, <3>2 DEF Outcomes
  <2>. QED  BY <2>4, <2>5, <2>6
<1>. QED  BY <1>1, <1>2 DEF TypeOK

\* The sequences that are sent.
LEMMA EventKinds ==
  /\ \A e \in {"saved", "session_error"} : Final(<<e>>) /\ Without(<<e>>, {"answer"})
  /\ Final(<<"error", "session_error">>) /\ Without(<<"error", "session_error">>, {"answer"})
  /\ \A e \in {"saved", "session_error"}, evs \in {<<>>, <<"error">>} :
       Final(Append(evs, e)) /\ Without(Append(evs, e), {"answer"})
  /\ Without(<<"answer">>, {"saved", "session_error"}) /\ Without(<<"answer">>, {"saved"})
  /\ \A evs \in {<<>>, <<"error">>} :
       /\ Without(evs, {"saved", "session_error"}) /\ Without(evs, {"answer"})
       /\ Without(evs, {"saved"}) /\ Without(Append(evs, "session_error"), {"saved"})
  /\ Without(<<"session_error">>, {"saved"}) /\ Without(<<"error", "session_error">>, {"saved"})
<1>1. ASSUME NEW evs \in {<<>>, <<"error">>}, NEW e \in {"saved", "session_error"}
      PROVE  /\ Final(Append(evs, e)) /\ Without(Append(evs, e), {"answer"})
             /\ e = "session_error" => Without(Append(evs, e), {"saved"})
  <2>1. CASE evs = <<>>
    BY <2>1 DEF Final, Without
  <2>2. CASE evs = <<"error">>
    BY <2>2 DEF Final, Without
  <2>. QED  BY <2>1, <2>2
<1>2. \A e \in {"saved", "session_error"} : Final(<<e>>) /\ Without(<<e>>, {"answer"})
  BY DEF Final, Without
<1>3. /\ Final(<<"error", "session_error">>) /\ Without(<<"error", "session_error">>, {"answer"})
      /\ Without(<<"session_error">>, {"saved"}) /\ Without(<<"error", "session_error">>, {"saved"})
  BY DEF Final, Without
<1>4. /\ Without(<<"answer">>, {"saved", "session_error"}) /\ Without(<<"answer">>, {"saved"})
      /\ \A evs \in {<<>>, <<"error">>} :
           /\ Without(evs, {"saved", "session_error"}) /\ Without(evs, {"answer"})
           /\ Without(evs, {"saved"})
  BY DEF Without
<1>. QED  BY <1>1, <1>2, <1>3, <1>4

\* Which steps send an answer, which say that it was saved.
LEMMA MoveHeard ==
  ASSUME TypeOK, NEW a \in Asks, Moves(a)
  PROVE  /\ Got(a, "answer")' => Got(a, "answer") \/ Replays(a) \/ Rewrites(a) \/ Speaks(a)
         /\ Got(a, "saved")' => \/ Got(a, "saved") \/ Stores(a)
                                \/ Ends(a) /\ draft[a].blank
<1>1. CASE Enters(a) \/ Opens(a) \/ Drifts(a) \/ Finds(a) \/ Picks(a) \/ Generates(a)
  BY <1>1, HeardSame DEF Enters, Opens, Drifts, Finds, Picks, Generates, HearsNothing
<1>2. CASE Replays(a) \/ Rewrites(a) \/ Speaks(a)
  <2>1. Hears(a, <<"answer">>)
    BY <1>2 DEF Replays, Rewrites, Speaks
  <2>. QED  BY <1>2, <2>1, HeardMore, EventSeqs, EventKinds
<1>3. CASE Ends(a)
  <2>1. PICK evs \in {<<>>, <<"error">>} :
          \/ HearsNothing(a)
          \/ Hears(a, Append(evs, "session_error"))
          \/ draft[a].blank /\ Hears(a, Append(evs, "saved"))
          \/ Hears(a, evs)
    BY <1>3 DEF Ends
  <2>2. evs \in Seq(Event) /\ Append(evs, "session_error") \in Seq(Event)
        /\ Append(evs, "saved") \in Seq(Event)
    BY EventSeqs
  <2>3. CASE HearsNothing(a)
    BY <2>3, HeardSame DEF HearsNothing
  <2>4. CASE Hears(a, Append(evs, "session_error"))
    BY <2>2, <2>4, HeardMore, EventKinds
  <2>5. CASE draft[a].blank /\ Hears(a, Append(evs, "saved"))
    BY <1>3, <2>2, <2>5, HeardMore, EventKinds
  <2>6. CASE Hears(a, evs)
    BY <2>2, <2>6, HeardMore, EventKinds
  <2>. QED  BY <2>1, <2>3, <2>4, <2>5, <2>6
<1>4. CASE Quits(a)
  <2>1. PICK evs \in {<<"error", "session_error">>, <<"session_error">>} : Hears(a, evs)
    BY <1>4 DEF Quits
  <2>. QED  BY <2>1, HeardMore, EventSeqs, EventKinds
<1>5. CASE Stores(a)
  <2>1. PICK e \in {"saved", "session_error"} : Hears(a, <<e>>)
    BY <1>5 DEF Stores
  <2>. QED  BY <1>5, <2>1, HeardMore, EventSeqs, EventKinds
<1>. QED  BY <1>1, <1>2, <1>3, <1>4, <1>5 DEF Moves

-----------------------------------------------------------------------------
(* An ask in its stream has its session.                                   *)

LEMMA SessionNext ==
  ASSUME TypeOK, HasSession, [Next]_vars
  PROVE  HasSession'
<1>1. ASSUME NEW a \in Asks, Ask(a) \/ Step(a) \/ Fault(a)
      PROVE  HasSession'
  <2>1. Alone(a) /\ Moves(a)
    BY <1>1, AskMoves
  <2>2. \A s \in Sessions : sessions'[s] = sessions[s] \/ sessions'[s] = "live"
    BY <2>1 DEF Moves, Enters, Opens, Drifts, Finds, Picks, Replays, Rewrites, Generates,
                Speaks, Ends, Quits, Stores, WorldStays
  <2>3. \A b \in Asks : b # a => pc'[b] = pc[b] /\ session'[b] = session[b]
    BY <2>1 DEF Alone, Same
  <2>4. pc'[a] \in InStream \cup {"done"} =>
          \/ pc[a] \in InStream /\ session'[a] = session[a]
          \/ session'[a] \in Sessions /\ sessions'[session'[a]] = "live"
    <3>1. CASE Enters(a) \/ Opens(a) \/ Drifts(a) \/ Finds(a) \/ Picks(a) \/ Replays(a)
      BY <3>1 DEF Enters, Opens, Drifts, Finds, Picks, Replays, KeepsRequest, InStream, WorldStays
    <3>2. CASE Rewrites(a) \/ Generates(a) \/ Speaks(a) \/ Ends(a) \/ Quits(a) \/ Stores(a)
      BY <3>2 DEF Rewrites, Generates, Speaks, Ends, Quits, Stores, KeepsRequest, InStream
    <3>. QED  BY <2>1, <3>1, <3>2 DEF Moves
  <2>. QED  BY <2>2, <2>3, <2>4 DEF HasSession
<1>2. CASE \E s \in Sessions : DeleteSession(s)
  BY <1>2 DEF HasSession, TypeOK, DeleteSession, askVars
<1>3. CASE \/ EditPost \/ DeletePost \/ HideForeign \/ PublishForeign
         \/ WorkerStores \/ EndpointStores \/ WorkerInvalidates \/ WorkerSkips
         \/ UNCHANGED vars
  BY <1>3 DEF HasSession, EditPost, DeletePost, HideForeign, PublishForeign, StoreEmbeddings,
              WorkerStores, EndpointStores, WorkerInvalidates, WorkerSkips, vars, askVars, dbVars
<1>4. CASE Crash
  BY <1>4 DEF HasSession, Crash, dbVars, InStream
<1>. QED  BY <1>1, <1>2, <1>3, <1>4 DEF Next, Environment

-----------------------------------------------------------------------------
(* The outcome.                                                            *)

LEMMA OutcomeNext ==
  ASSUME TypeOK, OneOutcome, [Next]_vars
  PROVE  OneOutcome'
<1>1. ASSUME NEW a \in Asks, Ask(a) \/ Step(a) \/ Fault(a)
      PROVE  OneOutcome'
  <2>1. Alone(a) /\ Moves(a)
    BY <1>1, AskMoves
  <2>2. \A b \in Asks : b # a =>
          pc'[b] = pc[b] /\ left'[b] = left[b] /\ events'[b] = events[b]
    BY <2>1 DEF Alone, Same
  <2>3. ASSUME NEW b \in Asks, b # a
        PROVE  /\ pc'[b] # "done" => Outcomes(b)' = {}
               /\ pc'[b] = "done" /\ ~left'[b] => Outcomes(b)' = {Len(events'[b])}
    BY <2>2, <2>3, HeardSame DEF OneOutcome
  <2>4. /\ pc'[a] # "done" => Outcomes(a)' = {}
        /\ pc'[a] = "done" /\ ~left'[a] => Outcomes(a)' = {Len(events'[a])}
    <3>1. CASE Enters(a) \/ Opens(a) \/ Drifts(a) \/ Finds(a) \/ Picks(a) \/ Generates(a)
      BY <3>1, HeardSame DEF Enters, Opens, Drifts, Finds, Picks, Generates, HearsNothing, OneOutcome
    <3>2. CASE Replays(a) \/ Rewrites(a) \/ Speaks(a)
      <4>1. Hears(a, <<"answer">>) /\ pc[a] # "done" /\ pc'[a] # "done"
        BY <3>2 DEF Replays, Rewrites, Speaks
      <4>. QED  BY <4>1, HeardMore, EventSeqs, EventKinds DEF OneOutcome
    <3>3. CASE Ends(a)
      <4>1. PICK evs \in {<<>>, <<"error">>} :
              \/ pc'[a] = "done" /\ left[a] /\ HearsNothing(a)
              \/ pc'[a] = "done" /\ Hears(a, Append(evs, "session_error"))
              \/ pc'[a] = "done" /\ Hears(a, Append(evs, "saved"))
              \/ pc'[a] = "persist" /\ Hears(a, evs)
        BY <3>3 DEF Ends
      <4>2. Outcomes(a) = {}
        BY <3>3 DEF Ends, OneOutcome
      <4>3. evs \in Seq(Event) /\ Append(evs, "session_error") \in Seq(Event)
            /\ Append(evs, "saved") \in Seq(Event)
        BY EventSeqs
      <4>4. CASE pc'[a] = "done" /\ left[a] /\ HearsNothing(a)
        BY <4>4 DEF HearsNothing
      <4>5. CASE pc'[a] = "persist" /\ Hears(a, evs)
        BY <4>2, <4>3, <4>5, HeardMore, EventKinds
      <4>6. ASSUME NEW e \in {"saved", "session_error"}, pc'[a] = "done", Hears(a, Append(evs, e))
            PROVE  ~left'[a] => Outcomes(a)' = {Len(events'[a])}
        <5>1. Final(Append(evs, e)) /\ Append(evs, e) \in Seq(Event)
          BY <4>3, EventKinds
        <5>2. ~left'[a] => ~left[a]
          BY <4>6 DEF Hears
        <5>. QED  BY <4>2, <4>6, <5>1, <5>2, HeardMore
      <4>. QED  BY <4>1, <4>4, <4>5, <4>6
    <3>4. CASE Quits(a) \/ Stores(a)
      <4>1. PICK evs \in {<<"error", "session_error">>, <<"session_error">>, <<"saved">>} :
              Hears(a, evs)
        BY <3>4 DEF Quits, Stores
      <4>2. evs \in Seq(Event) /\ Final(evs)
        BY EventSeqs, EventKinds
      <4>3. pc'[a] = "done" /\ Outcomes(a) = {}
        BY <3>4 DEF Quits, Stores, OneOutcome, InStream
      <4>4. ~left'[a] => ~left[a]
        BY <4>1 DEF Hears
      <4>. QED  BY <4>1, <4>2, <4>3, <4>4, HeardMore
    <3>. QED  BY <2>1, <3>1, <3>2, <3>3, <3>4 DEF Moves
  <2>. QED  BY <2>3, <2>4 DEF OneOutcome
<1>2. CASE UNCHANGED askVars
  BY <1>2, HeardSame DEF OneOutcome, askVars
<1>3. CASE Crash
  <2>1. \A b \in Asks : /\ events'[b] = events[b] /\ left'[b] = left[b]
                        /\ pc'[b] = "done" <=> pc[b] = "done"
    BY <1>3 DEF Crash, Waiting, InStream
  <2>2. \A b \in Asks : Outcomes(b)' = Outcomes(b)
    BY <2>1, HeardSame
  <2>. QED  BY <2>1, <2>2 DEF OneOutcome
<1>. QED  BY <1>1, <1>2, <1>3 DEF Next, Environment, DeleteSession, EditPost, DeletePost,
                                  HideForeign, PublishForeign, StoreEmbeddings, WorkerStores,
                                  EndpointStores, WorkerInvalidates, WorkerSkips, vars

-----------------------------------------------------------------------------
(* The history and the cache.                                              *)

\* The history holds the answers of asks that are over, as they were left; the
\* cache points into it; a deleted session takes both along.
Archived ==
  /\ \A a \in stored :
       /\ pc[a] = "done"
       /\ sessions[session[a]] = "live" => TurnsOf(a) # {}
  /\ \A turn \in messages :
       /\ turn.ask \in stored
       /\ turn.session = session[turn.ask] /\ turn.answer = draft[turn.ask]
  /\ \A row \in questionCache :
       /\ row.ask \in stored /\ TurnsOf(row.ask) # {}
       /\ row.tone = draft[row.ask].tone /\ row.target = req[row.ask].target

\* The rows an ask found describe asks that are over, whatever became of them
\* since, and only an ask about to hydrate them acts on them.
FoundIsOver ==
  \A a \in Asks : \A n \in DOMAIN found[a] :
    /\ pc[a] \in {"hydrate", "done", "dropped"}
    /\ LET row == found[a][n] IN
         /\ row.ask \in stored
         /\ row.tone = draft[row.ask].tone
         /\ row.target = req[row.ask].target /\ row.target = req[a].target

\* From the first text on the tone is settled, and the label with it.
ToneSettled ==
  /\ \A a \in Asks : pc[a] \in {"stream", "persist"} =>
       draft[a].tone = req[a].tone /\ label[a] = req[a].tone
  /\ \A a \in Asks : Got(a, "answer") =>
       /\ pc[a] \in {"stream", "hung", "persist", "done", "dropped"}
       /\ draft[a].tone = req[a].tone

\* What is read back from the history is the answer as it was left.
LEMMA AnswerIsDraft ==
  ASSUME TypeOK, Archived, NEW ask, TurnsOf(ask) # {}
  PROVE  ask \in stored /\ AnswerOf(ask) = draft[ask]
BY AnswerTyped DEF Archived

\* An ask that moves is not over: whatever is stored stays as it is.
LEMMA StoredSame ==
  ASSUME TypeOK, Archived, NEW a \in Asks, Alone(a), Moves(a)
  PROVE  /\ pc[a] # "done" /\ a \notin stored
         /\ \A b \in stored : b \in Asks /\ Same(b)
         /\ stored' = stored \/ Stores(a)
<1>1. pc[a] # "done"
  <2>1. CASE Enters(a) \/ Opens(a) \/ Drifts(a) \/ Finds(a) \/ Picks(a) \/ Replays(a)
    BY <2>1 DEF Enters, Opens, Drifts, Finds, Picks, Replays
  <2>2. CASE Rewrites(a) \/ Generates(a) \/ Speaks(a) \/ Ends(a) \/ Quits(a) \/ Stores(a)
    BY <2>2 DEF Rewrites, Generates, Speaks, Ends, Quits, Stores, InStream
  <2>. QED  BY <2>1, <2>2 DEF Moves
<1>2. stored' = stored \/ Stores(a)
  BY DEF Moves, Enters, Opens, Drifts, Finds, Picks, Replays, Rewrites, Generates, Speaks,
         Ends, Quits, WorldStays
<1>. QED  BY <1>1, <1>2 DEF Archived, Alone, TypeOK

LEMMA ArchivedNext ==
  ASSUME TypeOK, HasSession, Archived, ToneSettled, [Next]_vars
  PROVE  Archived'
<1>1. ASSUME NEW a \in Asks, Ask(a) \/ Step(a) \/ Fault(a)
      PROVE  Archived'
  <2>1. Alone(a) /\ Moves(a)
    BY <1>1, AskMoves
  <2>2. /\ pc[a] # "done" /\ a \notin stored
        /\ \A b \in stored : /\ b \in Asks /\ pc'[b] = pc[b] /\ req'[b] = req[b]
                             /\ session'[b] = session[b] /\ draft'[b] = draft[b]
    BY <2>1, StoredSame DEF Same
  <2>3. \A b \in stored : pc[b] = "done" /\ session[b] \in Sessions
                          /\ sessions[session[b]] # "unused"
    BY <2>2 DEF Archived, HasSession
  <2>4. CASE Stores(a)
    <3>1. /\ pc'[a] = "done" /\ sessions' = sessions /\ session'[a] = session[a]
          /\ draft'[a] = draft[a] /\ label'[a] = label[a] /\ req'[a] = req[a]
          /\ messages' = messages \cup
               {[ask |-> a, session |-> session[a], answer |-> draft[a]]}
          /\ questionCache' = questionCache \cup
               {[ask |-> a, tone |-> label[a], target |-> req[a].target]}
          /\ stored' = stored \cup {a}
      BY <2>4 DEF Stores, KeepsRequest, KeepsAnswer, Commit
    <3>2. [ask |-> a, session |-> session[a], answer |-> draft[a]] \in TurnsOf(a)'
      BY <3>1 DEF TurnsOf
    <3>3. \A ask : TurnsOf(ask) # {} => TurnsOf(ask)' # {}
      BY <3>1 DEF TurnsOf
    <3>4. label[a] = draft[a].tone
      BY <2>4 DEF ToneSettled, Stores
    <3>. QED  BY <2>2, <2>3, <3>1, <3>2, <3>3, <3>4 DEF Archived
  <2>5. CASE ~Stores(a)
    <3>1. messages' = messages /\ questionCache' = questionCache /\ stored' = stored
      BY <2>1, <2>5 DEF Moves, Enters, Opens, Drifts, Finds, Picks, Replays, Rewrites,
                        Generates, Speaks, Ends, Quits, WorldStays
    <3>2. \A t \in Sessions : sessions'[t] = "live" => sessions[t] \in {"live", "unused"}
      BY <2>1, <2>5 DEF Moves, Enters, Opens, Drifts, Finds, Picks, Replays, Rewrites,
                        Generates, Speaks, Ends, Quits, WorldStays
    <3>3. \A ask : TurnsOf(ask)' = TurnsOf(ask)
      BY <3>1 DEF TurnsOf
    <3>. QED  BY <2>2, <2>3, <3>1, <3>2, <3>3 DEF Archived
  <2>. QED  BY <2>4, <2>5
<1>2. ASSUME NEW s \in Sessions, DeleteSession(s)
      PROVE  Archived'
  <2>1. /\ sessions' = [sessions EXCEPT ![s] = "deleted"]
        /\ messages' = {turn \in messages : turn.session # s}
        /\ questionCache' = {row \in questionCache :
                               \A turn \in TurnsOf(row.ask) : turn.session # s}
        /\ pc' = pc /\ session' = session /\ draft' = draft /\ req' = req /\ stored' = stored
    BY <1>2 DEF DeleteSession, askVars, history
  <2>2. \A ask : TurnsOf(ask) # {} /\ (\A turn \in TurnsOf(ask) : turn.session # s)
                   => TurnsOf(ask)' # {}
    BY <2>1 DEF TurnsOf
  <2>3. \A ask \in stored : \A turn \in TurnsOf(ask) : turn.session = session[ask]
    BY DEF Archived, TurnsOf
  <2>4. \A ask \in stored : sessions'[session[ask]] = "live" =>
          session[ask] # s /\ sessions[session[ask]] = "live"
    BY <2>1 DEF TypeOK, HasSession, Archived
  <2>. QED  BY <2>1, <2>2, <2>3, <2>4 DEF Archived
<1>3. CASE \/ EditPost \/ DeletePost \/ HideForeign \/ PublishForeign
         \/ WorkerStores \/ EndpointStores \/ WorkerSkips \/ UNCHANGED vars
  BY <1>3 DEF Archived, TurnsOf, EditPost, DeletePost, HideForeign, PublishForeign,
              StoreEmbeddings, WorkerStores, EndpointStores, WorkerSkips, vars, askVars,
              dbVars, history
<1>4. CASE WorkerInvalidates
  BY <1>4 DEF Archived, TurnsOf, WorkerInvalidates, askVars
<1>5. CASE Crash
  BY <1>5 DEF Archived, TurnsOf, TypeOK, Crash, Waiting, InStream, dbVars, history
<1>. QED  BY <1>1, <1>2, <1>3, <1>4, <1>5 DEF Next, Environment

LEMMA FoundNext ==
  ASSUME TypeOK, Archived, FoundIsOver, [Next]_vars
  PROVE  FoundIsOver'
<1>1. ASSUME NEW a \in Asks, Ask(a) \/ Step(a) \/ Fault(a)
      PROVE  FoundIsOver'
  <2>1. Alone(a) /\ Moves(a)
    BY <1>1, AskMoves
  <2>2. /\ \A b \in stored : b \in Asks /\ draft'[b] = draft[b] /\ req'[b] = req[b]
        /\ stored \subseteq stored'
    BY <2>1, StoredSame DEF Same, Stores, Commit
  <2>3. \A b \in Asks : b # a => pc'[b] = pc[b] /\ found'[b] = found[b] /\ req'[b] = req[b]
    BY <2>1 DEF Alone, Same
  <2>4. \/ DOMAIN found'[a] = {}
        \/ found'[a] = found[a] /\ req'[a] = req[a] /\ pc'[a] \in {"hydrate", "done", "dropped"}
        \/ Finds(a)
    <3>. DOMAIN <<>> = {}
      OBVIOUS
    <3>1. CASE Replays(a) \/ Picks(a)
      BY <3>1 DEF Replays, Picks
    <3>2. CASE pc[a] # "hydrate" /\ found'[a] = found[a]
      <4>1. pc[a] # "done"
        BY <2>1, StoredSame
      <4>2. pc[a] \in {"hydrate", "done", "dropped"} \/ DOMAIN found[a] = {}
        BY DEF FoundIsOver
      <4>3. pc[a] = "dropped" => pc'[a] = pc[a] /\ req'[a] = req[a]
        BY <2>1 DEF Moves, Enters, Opens, Drifts, Finds, Picks, Replays, Rewrites, Generates,
                    Speaks, Ends, Quits, Stores, KeepsRequest, InStream
      <4>. QED  BY <3>2, <4>1, <4>2, <4>3
    <3>3. CASE pc[a] = "hydrate"
      BY <3>1, <3>3, <2>1 DEF Moves, Enters, Opens, Drifts, Finds, Rewrites,
         Generates, Speaks, Ends, Quits, Stores, KeepsRequest
    <3>4. found'[a] = found[a] \/ Replays(a) \/ Picks(a) \/ Finds(a) \/ pc[a] = "hydrate"
      BY <2>1 DEF Moves, Enters, Opens, Drifts, Rewrites, Generates, Speaks, Ends, Quits, Stores
    <3>. QED  BY <3>1, <3>2, <3>3, <3>4
  <2>5. CASE Finds(a)
    <3>1. \A n \in DOMAIN found'[a] :
            /\ pc'[a] = "hydrate" /\ found'[a][n] \in questionCache
            /\ found'[a][n].target = req'[a].target
      BY <2>5 DEF Finds, KeepsRequest
    <3>. QED  BY <2>2, <2>3, <3>1 DEF FoundIsOver, Archived
  <2>. QED  BY <2>2, <2>3, <2>4, <2>5 DEF FoundIsOver
<1>2. CASE UNCHANGED askVars /\ stored' = stored
  BY <1>2 DEF FoundIsOver, askVars
<1>3. CASE Crash
  BY <1>3 DEF FoundIsOver, Crash, TypeOK, history
<1>. QED  BY <1>1, <1>2, <1>3 DEF Next, Environment, DeleteSession, EditPost, DeletePost,
                                  HideForeign, PublishForeign, StoreEmbeddings, WorkerStores,
                                  EndpointStores, WorkerInvalidates, WorkerSkips, vars, history

-----------------------------------------------------------------------------
(* The tone.                                                               *)

LEMMA ToneNext ==
  ASSUME TypeOK, Archived, FoundIsOver, ToneSettled, [Next]_vars
  PROVE  ToneSettled'
<1>1. ASSUME NEW a \in Asks, Ask(a) \/ Step(a) \/ Fault(a)
      PROVE  ToneSettled'
  <2>1. Alone(a) /\ Moves(a)
    BY <1>1, AskMoves
  <2>2. ASSUME NEW b \in Asks, b # a
        PROVE  /\ pc'[b] = pc[b] /\ req'[b] = req[b] /\ draft'[b] = draft[b]
               /\ label'[b] = label[b] /\ (Got(b, "answer")' <=> Got(b, "answer"))
    BY <2>1, <2>2, HeardSame DEF Alone, Same
  <2>3. /\ pc'[a] \in {"stream", "persist"} =>
             draft'[a].tone = req'[a].tone /\ label'[a] = req'[a].tone
        /\ Got(a, "answer")' =>
             /\ pc'[a] \in {"stream", "hung", "persist", "done", "dropped"}
             /\ draft'[a].tone = req'[a].tone
    <3>1. CASE Enters(a) \/ Opens(a) \/ Finds(a) \/ Picks(a) \/ Drifts(a)
      <4>1. Got(a, "answer")' => Got(a, "answer")
        BY <3>1, HeardSame DEF Enters, Opens, Finds, Picks, Drifts, HearsNothing
      <4>. QED  BY <3>1, <4>1 DEF ToneSettled, Enters, Opens, Finds, Picks, Drifts,
                                  KeepsAnswer, KeepsRequest
    <3>2. CASE Replays(a)
      <4>1. PICK n \in DOMAIN found[a] :
              /\ TurnsOf(found[a][n].ask) # {} /\ draft'[a] = AnswerOf(found[a][n].ask)
              /\ found[a][n].tone = req[a].tone
        BY <3>2 DEF Replays
      <4>2. draft'[a].tone = req[a].tone
        BY <4>1, AnswerIsDraft DEF FoundIsOver
      <4>. QED  BY <3>2, <4>2 DEF Replays, KeepsRequest
    <3>3. CASE Rewrites(a)
      BY <3>3 DEF Rewrites, KeepsRequest
    <3>4. CASE Generates(a)
      BY <3>4 DEF Generates, KeepsRequest
    <3>5. CASE Speaks(a)
      BY <3>5 DEF Speaks, KeepsRequest, ToneSettled
    <3>6. CASE Ends(a) \/ Quits(a) \/ Stores(a)
      <4>1. Got(a, "answer")' => Got(a, "answer")
        BY <3>6, <2>1, MoveHeard DEF Ends, Quits, Stores, Replays, Rewrites, Speaks, InStream
      <4>. QED  BY <3>6, <4>1 DEF ToneSettled, Ends, Quits, Stores, KeepsAnswer, KeepsRequest
    <3>. QED  BY <2>1, <3>1, <3>2, <3>3, <3>4, <3>5, <3>6 DEF Moves
  <2>. QED  BY <2>2, <2>3 DEF ToneSettled
<1>2. CASE UNCHANGED askVars
  BY <1>2, HeardSame DEF ToneSettled, askVars
<1>3. CASE Crash
  <2>1. \A b \in Asks : /\ pc'[b] \in {pc[b], "dropped"} /\ req'[b] = req[b]
                        /\ draft'[b] = draft[b] /\ label'[b] = label[b]
    BY <1>3 DEF Crash
  <2>2. \A b \in Asks : Got(b, "answer")' <=> Got(b, "answer")
    BY <1>3, HeardSame DEF Crash
  <2>. QED  BY <2>1, <2>2 DEF ToneSettled
<1>. QED  BY <1>1, <1>2, <1>3 DEF Next, Environment, DeleteSession, EditPost, DeletePost,
                                  HideForeign, PublishForeign, StoreEmbeddings, WorkerStores,
                                  EndpointStores, WorkerInvalidates, WorkerSkips, vars

-----------------------------------------------------------------------------
(* What is said to be saved.                                               *)

SavedIsCommitted ==
  \A a \in Asks : Got(a, "saved") /\ ~draft[a].blank => a \in stored

LEMMA SavedNext ==
  ASSUME TypeOK, Archived, OneOutcome, SavedIsCommitted, [Next]_vars
  PROVE  SavedIsCommitted'
<1>1. ASSUME NEW a \in Asks, Ask(a) \/ Step(a) \/ Fault(a)
      PROVE  SavedIsCommitted'
  <2>1. Alone(a) /\ Moves(a)
    BY <1>1, AskMoves
  <2>2. \A b \in Asks : b # a =>
          draft'[b] = draft[b] /\ (Got(b, "saved")' <=> Got(b, "saved"))
    BY <2>1, HeardSame DEF Alone, Same
  <2>3. stored \subseteq stored' /\ (Stores(a) => a \in stored')
    BY <2>1, StoredSame DEF Stores, Commit
  <2>4. ~Got(a, "saved")
    <3>1. Outcomes(a) = {}
      BY <2>1, StoredSame DEF OneOutcome
    <3>. QED  BY <3>1 DEF Outcomes, Got
  <2>5. Got(a, "saved")' /\ ~draft'[a].blank => a \in stored'
    BY <2>1, <2>3, <2>4, MoveHeard DEF Ends
  <2>. QED  BY <2>2, <2>3, <2>5 DEF SavedIsCommitted
<1>2. CASE events' = events /\ draft' = draft /\ stored' = stored
  BY <1>2, HeardSame DEF SavedIsCommitted
<1>. QED  BY <1>1, <1>2 DEF Next, Environment, DeleteSession, EditPost, DeletePost,
                      HideForeign, PublishForeign, StoreEmbeddings, WorkerStores,
                      EndpointStores, WorkerInvalidates, WorkerSkips, Crash, vars, askVars, history

-----------------------------------------------------------------------------
(* The guard of the post.                                                  *)

\* An answer about this target was made and stored while it could be read.
Rooted(target) ==
  \E b \in readable \cap stored : how[b] = "generated" /\ req[b].target = target

\* What is past the check of the post was allowed there; what came out of the
\* cache goes back to an ask that was.
PastTheGuard ==
  /\ \A a \in Asks :
       /\ pc[a] \in {"hybrid", "semantic"} => req[a].target = "none"
       /\ pc[a] \in Waiting /\ CanRead(req[a].target) => a \in readable
       /\ how[a] = "generated" => a \in readable /\ pc[a] \notin {"idle", "session"}
       /\ pc[a] = "stream" => how[a] = "generated"
       /\ pc[a] = "rewrite" => Rooted(req[a].target)
       /\ pc[a] = "persist" => how[a] = "generated" \/ Rooted(req[a].target)
       /\ Got(a, "answer") => how[a] = "generated" \/ Rooted(req[a].target)
       /\ DOMAIN found[a] # {} => Rooted(req[a].target)
  /\ \A row \in questionCache : Rooted(row.target)

LEMMA GuardNext ==
  ASSUME TypeOK, Archived, FoundIsOver, ToneSettled, PastTheGuard, [Next]_vars
  PROVE  PastTheGuard'
<1>1. ASSUME NEW a \in Asks, Ask(a) \/ Step(a) \/ Fault(a)
      PROVE  PastTheGuard'
  <2>1. Alone(a) /\ Moves(a)
    BY <1>1, AskMoves
  <2>2. /\ readable' \subseteq readable \cup {a} /\ readable \subseteq readable'
        /\ post' = post /\ foreign' = foreign
    BY <2>1 DEF Moves, Enters, Opens, Drifts, Finds, Picks, Replays, Rewrites, Generates,
                Speaks, Ends, Quits, Stores, WorldStays
  <2>3. ASSUME NEW b \in Asks, b # a
        PROVE  /\ pc'[b] = pc[b] /\ req'[b] = req[b] /\ how'[b] = how[b] /\ found'[b] = found[b]
               /\ (Got(b, "answer")' <=> Got(b, "answer"))
               /\ (b \in readable' <=> b \in readable)
    BY <2>1, <2>2, <2>3, HeardSame DEF Alone, Same
  <2>4. \A target : CanRead(target)' <=> CanRead(target)
    BY <2>2 DEF CanRead
  <2>5. /\ a \notin stored /\ stored \subseteq stored'
        /\ \A b \in stored : b \in Asks /\ b # a
    BY <2>1, StoredSame DEF Stores, Commit
  <2>6. \A target : Rooted(target) => Rooted(target)'
    BY <2>2, <2>3, <2>5 DEF Rooted
  <2>7. /\ pc'[a] \in {"hybrid", "semantic"} => req'[a].target = "none"
        /\ pc'[a] \in Waiting /\ CanRead(req'[a].target) => a \in readable'
    <3>1. CASE Enters(a)
      BY <3>1 DEF Enters
    <3>2. CASE ~Enters(a)
      <4>1. req'[a] = req[a] /\ readable' = readable
        BY <2>1, <3>2 DEF Moves, Opens, Drifts, Finds, Picks, Replays, Rewrites, Generates,
                          Speaks, Ends, Quits, Stores, KeepsRequest, WorldStays
      <4>2. pc'[a] \in Waiting => pc[a] \in Waiting
        BY <2>1, <3>2 DEF Moves, Opens, Drifts, Finds, Picks, Replays, Rewrites, Generates,
                          Speaks, Ends, Quits, Stores, Waiting, InStream
      <4>3. pc'[a] \in {"hybrid", "semantic"} =>
              pc[a] \in {"hybrid", "semantic"} \/ req[a].target = "none"
        BY <2>1, <3>2 DEF Moves, Opens, Drifts, Finds, Picks, Replays, Rewrites, Generates,
                          Speaks, Ends, Quits, Stores
      <4>. QED  BY <4>1, <4>2, <4>3 DEF PastTheGuard
    <3>. QED  BY <3>1, <3>2
  <2>8. CASE Generates(a)
    <3>1. /\ pc'[a] = "stream" /\ how'[a] = "generated" /\ req'[a] = req[a]
          /\ found'[a] = found[a] /\ questionCache' = questionCache
      BY <2>8 DEF Generates, KeepsRequest, WorldStays
    <3>2. CanRead(req[a].target) /\ pc[a] \in Waiting
      BY <2>8 DEF Generates, PastTheGuard, CanRead, Waiting, InStream
    <3>3. a \in readable'
      BY <2>2, <3>2 DEF PastTheGuard
    <3>. QED  BY <2>3, <2>4, <2>6, <2>7, <3>1, <3>3 DEF PastTheGuard
  <2>9. CASE Picks(a) \/ Replays(a) \/ Rewrites(a)
    <3>1. Rooted(req[a].target)
      BY <2>9 DEF Picks, Replays, Rewrites, PastTheGuard
    <3>2. /\ req'[a] = req[a] /\ pc'[a] \in {"rewrite", "persist"} /\ questionCache' = questionCache
          /\ how'[a] = "generated" => how[a] = "generated"
      BY <2>9 DEF Picks, Replays, Rewrites, KeepsRequest, WorldStays
    <3>3. Rooted(req[a].target)'
      BY <2>6, <3>1, <3>2
    <3>. QED  BY <2>2, <2>3, <2>4, <2>6, <2>7, <3>2, <3>3 DEF PastTheGuard
  <2>10. CASE Finds(a)
    <3>1. /\ req'[a] = req[a] /\ how'[a] = how[a] /\ questionCache' = questionCache
          /\ pc'[a] \in {"hydrate", "retrieve"}
          /\ \A n \in DOMAIN found'[a] :
               found'[a][n] \in questionCache /\ found'[a][n].target = req[a].target
      BY <2>10 DEF Finds, KeepsRequest, KeepsAnswer, WorldStays
    <3>2. Got(a, "answer")' => Got(a, "answer")
      BY <2>1, <2>10, MoveHeard DEF Finds, Replays, Rewrites, Speaks
    <3>3. DOMAIN found'[a] # {} => Rooted(req[a].target)
      BY <3>1 DEF PastTheGuard
    <3>. QED  BY <2>2, <2>3, <2>4, <2>6, <2>7, <3>1, <3>2, <3>3 DEF PastTheGuard
  <2>11. CASE Stores(a)
    <3>1. /\ req'[a] = req[a] /\ how'[a] = how[a] /\ found'[a] = found[a]
          /\ pc[a] = "persist" /\ pc'[a] = "done" /\ stored' = stored \cup {a}
          /\ questionCache' = questionCache \cup
               {[ask |-> a, tone |-> label[a], target |-> req[a].target]}
      BY <2>11 DEF Stores, KeepsRequest, KeepsAnswer, Commit
    <3>2. Got(a, "answer")' => Got(a, "answer")
      BY <2>1, <2>11, MoveHeard DEF Stores, Replays, Rewrites, Speaks
    <3>3. Rooted(req[a].target)'
      <4>1. CASE how[a] = "generated"
        BY <2>2, <3>1, <4>1 DEF PastTheGuard, Rooted
      <4>2. CASE how[a] # "generated"
        BY <2>6, <3>1, <4>2 DEF PastTheGuard
      <4>. QED  BY <4>1, <4>2
    <3>4. \A row \in questionCache' : Rooted(row.target)'
      BY <2>6, <3>1, <3>3 DEF PastTheGuard
    <3>. QED  BY <2>2, <2>3, <2>4, <2>6, <2>7, <3>1, <3>2, <3>4 DEF PastTheGuard
  <2>12. CASE Speaks(a)
    <3>1. /\ req'[a] = req[a] /\ how'[a] = how[a] /\ found'[a] = found[a]
          /\ pc[a] = "stream" /\ pc'[a] = "stream" /\ questionCache' = questionCache
      BY <2>12 DEF Speaks, KeepsRequest, WorldStays
    <3>. QED  BY <2>2, <2>3, <2>4, <2>6, <2>7, <3>1 DEF PastTheGuard
  <2>13. CASE Enters(a) \/ Opens(a) \/ Drifts(a) \/ Ends(a) \/ Quits(a)
    <3>1. /\ how'[a] = how[a] /\ found'[a] \in {found[a], <<>>} /\ questionCache' = questionCache
          /\ pc'[a] \in {"stream", "rewrite", "persist", "idle", "session"} =>
               \/ pc'[a] = pc[a]
               \/ pc[a] = "stream" /\ pc'[a] = "persist"
               \/ Enters(a)
      BY <2>13 DEF Enters, Opens, Drifts, Ends, Quits, KeepsAnswer, WorldStays
    <3>2. DOMAIN <<>> = {}
      OBVIOUS
    <3>3. Got(a, "answer")' => Got(a, "answer")
      <4>1. CASE Enters(a) \/ Opens(a) \/ Drifts(a)
        BY <4>1, HeardSame DEF Enters, Opens, Drifts, HearsNothing
      <4>2. CASE Ends(a) \/ Quits(a)
        BY <2>1, <4>2, MoveHeard DEF Ends, Quits, Replays, Rewrites, Speaks
      <4>. QED  BY <2>13, <4>1, <4>2
    <3>4. CASE Enters(a)
      <4>1. ~Got(a, "answer") /\ how[a] # "generated" /\ DOMAIN found[a] = {} /\ pc'[a] = "session"
        BY <3>4 DEF Enters, ToneSettled, FoundIsOver, PastTheGuard
      <4>. QED  BY <2>2, <2>3, <2>4, <2>6, <2>7, <3>1, <3>2, <3>3, <4>1 DEF PastTheGuard
    <3>5. CASE ~Enters(a)
      <4>1. req'[a] = req[a]
        BY <2>13, <3>5 DEF Opens, Drifts, Ends, Quits, KeepsRequest
      <4>. QED  BY <2>2, <2>3, <2>4, <2>6, <2>7, <3>1, <3>2, <3>3, <3>5, <4>1 DEF PastTheGuard
    <3>. QED  BY <3>4, <3>5
  <2>. QED  BY <2>1, <2>8, <2>9, <2>10, <2>11, <2>12, <2>13 DEF Moves
<1>2. ASSUME /\ pc' = pc /\ req' = req /\ how' = how /\ found' = found /\ events' = events
             /\ stored' = stored /\ readable \subseteq readable'
             /\ questionCache' \subseteq questionCache
             /\ \A a \in Asks : pc[a] \in Waiting /\ CanRead(req[a].target)' =>
                  CanRead(req[a].target) \/ a \in readable'
      PROVE  PastTheGuard'
  <2>1. \A target : Rooted(target) => Rooted(target)'
    BY <1>2 DEF Rooted
  <2>2. \A a \in Asks : Got(a, "answer")' <=> Got(a, "answer")
    BY <1>2, HeardSame
  <2>. QED  BY <1>2, <2>1, <2>2 DEF PastTheGuard
<1>3. CASE (\E s \in Sessions : DeleteSession(s)) \/ UNCHANGED vars
  <2>1. UNCHANGED askVars /\ UNCHANGED blogVars /\ UNCHANGED history
        /\ questionCache' \subseteq questionCache
    BY <1>3 DEF DeleteSession, vars, dbVars
  <2>. QED  BY <1>2, <2>1 DEF CanRead, askVars, blogVars, history
<1>4. CASE EditPost \/ DeletePost \/ HideForeign
  <2>1. UNCHANGED askVars /\ UNCHANGED dbVars /\ UNCHANGED history
        /\ \A target : CanRead(target)' => CanRead(target)
    BY <1>4 DEF EditPost, DeletePost, HideForeign, CanRead, TypeOK
  <2>. QED  BY <1>2, <2>1 DEF askVars, dbVars, history
<1>5. CASE PublishForeign
  <2>1. UNCHANGED askVars /\ UNCHANGED dbVars /\ stored' = stored
        /\ readable' = readable \cup {a \in Asks : pc[a] \in Waiting /\ req[a].target = "foreign"}
        /\ \A target : CanRead(target)' => CanRead(target) \/ target = "foreign"
    BY <1>5 DEF PublishForeign, CanRead
  <2>. QED  BY <1>2, <2>1 DEF askVars, dbVars
<1>6. CASE WorkerStores \/ EndpointStores \/ WorkerInvalidates \/ WorkerSkips
  <2>1. UNCHANGED askVars /\ stored' = stored /\ readable' = readable
        /\ post' = post /\ foreign' = foreign /\ questionCache' \subseteq questionCache
    BY <1>6 DEF WorkerStores, EndpointStores, StoreEmbeddings, WorkerInvalidates, WorkerSkips,
                dbVars, history
  <2>. QED  BY <1>2, <2>1 DEF CanRead, askVars
<1>7. CASE Crash
  <2>1. /\ \A b \in Asks : pc'[b] \in {pc[b], "dropped"}
        /\ req' = req /\ how' = how /\ found' = found /\ events' = events
        /\ questionCache' = questionCache /\ post' = post /\ foreign' = foreign
        /\ stored' = stored /\ readable' = readable
    BY <1>7 DEF Crash, dbVars, blogVars, history
  <2>2. \A target : (Rooted(target) <=> Rooted(target)') /\ (CanRead(target)' <=> CanRead(target))
    BY <2>1 DEF Rooted, CanRead
  <2>3. \A b \in Asks : Got(b, "answer")' <=> Got(b, "answer")
    BY <2>1, HeardSame
  <2>4. "dropped" \notin Waiting
    BY DEF Waiting, InStream
  <2>. QED  BY <2>1, <2>2, <2>3, <2>4 DEF PastTheGuard
<1>. QED  BY <1>1, <1>3, <1>4, <1>5, <1>6, <1>7 DEF Next, Environment

-----------------------------------------------------------------------------
(* Answers older than the embeddings.                                      *)

\* The versions that asks in flight at an invalidation have brought back.
BroughtBack == {draft[a].version : a \in overlapped \cap stored}

\* Of an old answer on its way to the client of this ask.
Excused(a, version) ==
  version < embVersion => a \in overlapped \/ version \in BroughtBack

\* Once the cache was emptied every old answer, in it or on its way there, was
\* brought back, or is carried by an ask in flight at the last invalidation.
OldIsExplained ==
  /\ embVersion <= post.version
  /\ ~undeleted =>
       /\ \A row \in questionCache : draft[row.ask].version < embVersion =>
            draft[row.ask].version \in BroughtBack
       /\ \A a \in Asks : pc[a] \in {"rewrite", "stream", "persist"} =>
            Excused(a, draft[a].version)
       /\ \A a \in Asks : pc[a] = "hydrate" =>
            \A n \in DOMAIN found[a] : Excused(a, draft[found[a][n].ask].version)

LEMMA OldNext ==
  ASSUME TypeOK, Archived, FoundIsOver, OldIsExplained, [Next]_vars
  PROVE  OldIsExplained'
<1>1. ASSUME NEW a \in Asks, Ask(a) \/ Step(a) \/ Fault(a)
      PROVE  OldIsExplained'
  <2>1. Alone(a) /\ Moves(a)
    BY <1>1, AskMoves
  <2>2. /\ post' = post /\ embVersion' = embVersion
        /\ undeleted' = undeleted /\ overlapped' = overlapped
    BY <2>1 DEF Moves, Enters, Opens, Drifts, Finds, Picks, Replays, Rewrites, Generates,
                Speaks, Ends, Quits, Stores, WorldStays
  <2>3. /\ stored \subseteq stored'
        /\ \A b \in stored : b \in Asks /\ draft'[b] = draft[b]
    BY <2>1, StoredSame DEF Same, Stores, Commit
  <2>4. \A b \in Asks : b # a => pc'[b] = pc[b] /\ found'[b] = found[b] /\ draft'[b] = draft[b]
    BY <2>1 DEF Alone, Same
  <2>5. BroughtBack \subseteq BroughtBack'
    BY <2>2, <2>3 DEF BroughtBack
  <2>7. CASE undeleted
    BY <2>2, <2>7 DEF OldIsExplained
  <2>8. CASE ~undeleted
    <3>1. pc'[a] \in {"rewrite", "stream", "persist"} => Excused(a, draft'[a].version)
      <4>1. CASE Enters(a) \/ Opens(a) \/ Finds(a) \/ Drifts(a) \/ Quits(a) \/ Stores(a)
        BY <2>8, <4>1 DEF Enters, Opens, Finds, Drifts, Quits, Stores, KeepsAnswer, OldIsExplained
      <4>2. CASE Picks(a) \/ Replays(a)
        <5>1. PICK n \in DOMAIN found[a] :
                TurnsOf(found[a][n].ask) # {} /\ draft'[a] = AnswerOf(found[a][n].ask)
          BY <4>2 DEF Picks, Replays
        <5>2. draft'[a] = draft[found[a][n].ask] /\ pc[a] = "hydrate"
          BY <4>2, <5>1, AnswerIsDraft DEF Picks, Replays
        <5>. QED  BY <2>8, <5>2 DEF OldIsExplained
      <4>3. CASE Rewrites(a) \/ Speaks(a) \/ Ends(a)
        BY <2>8, <4>3 DEF Rewrites, Speaks, Ends, OldIsExplained
      <4>4. CASE Generates(a)
        <5>1. draft'[a].version \in {post.version, embVersion, MaxEdits}
          BY <4>4 DEF Generates
        <5>2. /\ embVersion \in Nat /\ post.version \in Nat /\ MaxEdits \in Nat
              /\ embVersion <= MaxEdits
          BY AskAssumption DEF TypeOK, Version
        <5>. QED  BY <5>1, <5>2 DEF OldIsExplained, Excused
      <4>. QED  BY <2>1, <4>1, <4>2, <4>3, <4>4 DEF Moves
    <3>2. pc'[a] = "hydrate" =>
            \A n \in DOMAIN found'[a] : Excused(a, draft[found'[a][n].ask].version)
      <4>1. CASE Finds(a)
        BY <2>8, <4>1 DEF Finds, OldIsExplained, Excused
      <4>2. CASE ~Finds(a)
        <5>1. pc'[a] = "hydrate" => pc[a] = "hydrate" /\ found'[a] = found[a]
          BY <2>1, <4>2 DEF Moves, Enters, Opens, Drifts, Picks, Replays, Rewrites, Generates,
                            Speaks, Ends, Quits, Stores
        <5>. QED  BY <2>8, <5>1 DEF OldIsExplained
      <4>. QED  BY <4>1, <4>2
    <3>3. \A b \in Asks : pc'[b] = "hydrate" =>
            \A n \in DOMAIN found'[b] : found'[b][n].ask \in stored
      <4>1. \A n \in DOMAIN found'[a] : found'[a][n].ask \in stored
        <5>1. CASE Finds(a)
          BY <5>1 DEF Finds, Archived
        <5>2. CASE ~Finds(a)
          <6>1. found'[a] = found[a] \/ found'[a] = <<>>
            BY <2>1, <5>2 DEF Moves, Enters, Opens, Drifts, Picks, Replays, Rewrites,
               Generates, Speaks, Ends, Quits, Stores
          <6>2. DOMAIN <<>> = {}
            OBVIOUS
          <6>. QED  BY <6>1, <6>2 DEF FoundIsOver
        <5>. QED  BY <5>1, <5>2
      <4>. QED  BY <2>4, <4>1 DEF FoundIsOver
    <3>4. \A row \in questionCache' : draft'[row.ask].version < embVersion =>
            draft'[row.ask].version \in BroughtBack'
      <4>1. \A row \in questionCache : row.ask \in stored
        BY DEF Archived
      <4>2. CASE Stores(a)
        <5>1. /\ draft'[a] = draft[a] /\ pc[a] = "persist" /\ stored' = stored \cup {a}
              /\ \A row \in questionCache' : row \in questionCache \/ row.ask = a
          BY <4>2 DEF Stores, KeepsAnswer, Commit
        <5>2. draft[a].version < embVersion => draft[a].version \in BroughtBack'
          <6>1. Excused(a, draft[a].version)
            BY <2>8, <5>1 DEF OldIsExplained
          <6>2. a \in overlapped => draft'[a].version \in BroughtBack'
            BY <2>2, <5>1 DEF BroughtBack
          <6>. QED  BY <2>5, <5>1, <6>1, <6>2 DEF Excused
        <5>. QED  BY <2>3, <2>5, <2>8, <4>1, <5>1, <5>2 DEF OldIsExplained
      <4>3. CASE ~Stores(a)
        <5>1. questionCache' = questionCache
          BY <2>1, <4>3 DEF Moves, Enters, Opens, Drifts, Finds, Picks, Replays, Rewrites,
                            Generates, Speaks, Ends, Quits, WorldStays
        <5>. QED  BY <2>3, <2>5, <2>8, <4>1, <5>1 DEF OldIsExplained
      <4>. QED  BY <4>2, <4>3
    <3>5. \A b \in Asks : pc'[b] \in {"rewrite", "stream", "persist"} =>
            Excused(b, draft[b].version)'
      BY <2>2, <2>4, <2>5, <2>8, <3>1 DEF OldIsExplained, Excused
    <3>6. \A b \in Asks : pc'[b] = "hydrate" => \A n \in DOMAIN found'[b] :
            Excused(b, draft[found[b][n].ask].version)'
      BY <2>2, <2>3, <2>4, <2>5, <2>8, <3>2, <3>3 DEF OldIsExplained, Excused
    <3>. QED  BY <2>2, <2>8, <3>4, <3>5, <3>6 DEF OldIsExplained
  <2>. QED  BY <2>7, <2>8
<1>2. CASE (\E s \in Sessions : DeleteSession(s)) \/ UNCHANGED vars
  <2>1. /\ questionCache' \subseteq questionCache /\ UNCHANGED askVars /\ UNCHANGED blogVars
        /\ UNCHANGED history
    BY <1>2 DEF DeleteSession, vars, dbVars
  <2>2. BroughtBack' = BroughtBack
    BY <2>1 DEF BroughtBack, askVars, history
  <2>. QED  BY <2>1, <2>2 DEF OldIsExplained, Excused, askVars, blogVars, history
<1>3. CASE EditPost \/ DeletePost \/ HideForeign \/ PublishForeign \/ WorkerSkips
  <2>1. /\ UNCHANGED askVars /\ UNCHANGED dbVars /\ embVersion' = embVersion
        /\ undeleted' = undeleted /\ stored' = stored /\ overlapped' = overlapped
        /\ post'.version \in {post.version, post.version + 1}
    BY <1>3 DEF EditPost, DeletePost, HideForeign, PublishForeign, WorkerSkips, TypeOK, history
  <2>2. BroughtBack' = BroughtBack
    BY <2>1 DEF BroughtBack, askVars
  <2>3. embVersion <= post'.version
    BY <2>1 DEF OldIsExplained, TypeOK, Version
  <2>. QED  BY <2>1, <2>2, <2>3 DEF OldIsExplained, Excused, askVars, dbVars
<1>4. CASE WorkerStores \/ EndpointStores
  BY <1>4 DEF WorkerStores, EndpointStores, StoreEmbeddings, OldIsExplained, TypeOK, Version
<1>5. CASE WorkerInvalidates
  <2>1. \A b \in Asks : pc[b] \in {"rewrite", "stream", "persist", "hydrate"} => b \in overlapped'
    BY <1>5 DEF WorkerInvalidates, Waiting, InStream
  <2>. QED  BY <1>5, <2>1 DEF WorkerInvalidates, OldIsExplained, Excused, askVars
<1>6. CASE Crash
  <2>1. \A b \in Asks : pc'[b] \in {pc[b], "dropped"}
    BY <1>6 DEF Crash
  <2>2. BroughtBack' = BroughtBack
    BY <1>6 DEF BroughtBack, Crash, history
  <2>. QED  BY <1>6, <2>1, <2>2 DEF OldIsExplained, Excused, Crash, dbVars, blogVars, history
<1>. QED  BY <1>1, <1>2, <1>3, <1>4, <1>5, <1>6 DEF Next, Environment

-----------------------------------------------------------------------------
(* The theorems.                                                           *)

AskInv ==
  /\ TypeOK /\ HasSession /\ OneOutcome
  /\ Archived /\ FoundIsOver /\ ToneSettled /\ SavedIsCommitted /\ PastTheGuard
  /\ OldIsExplained

LEMMA AskInit == Init => AskInv
<1>. SUFFICES ASSUME Init PROVE AskInv
  OBVIOUS
<1>1. TypeOK
  BY TypeInit
<1>2. HasSession /\ Archived /\ FoundIsOver
  <2>1. \A a \in Asks : DOMAIN found[a] = {}
    BY DEF Init
  <2>. QED  BY <2>1 DEF Init, HasSession, InStream, Archived, FoundIsOver
<1>3. OneOutcome /\ ToneSettled /\ SavedIsCommitted /\ PastTheGuard
  <2>1. \A a \in Asks : DOMAIN events[a] = {}
    BY DEF Init
  <2>. QED  BY <2>1 DEF Init, OneOutcome, ToneSettled, SavedIsCommitted, PastTheGuard,
                        Got, Outcomes, Waiting, InStream
<1>4. OldIsExplained
  BY DEF Init, OldIsExplained
<1>. QED  BY <1>1, <1>2, <1>3, <1>4 DEF AskInv

LEMMA AskInvariant == Spec => []AskInv
<1>1. AskInv /\ [Next]_vars => AskInv'
  BY TypeNext, SessionNext, OutcomeNext, ArchivedNext, FoundNext, ToneNext, SavedNext,
     GuardNext, OldNext DEF AskInv
<1>. QED  BY AskInit, <1>1, PTL DEF Spec

\* The variables of the ask pipeline keep their types.
THEOREM TypeCorrect == Spec => []TypeOK
<1>1. AskInv => TypeOK
  BY DEF AskInv
<1>. QED  BY AskInvariant, <1>1, PTL

\* A client that stays is told what became of the conversation exactly once, as
\* the last event of its stream, whatever fails and however the asks interleave.
THEOREM OutcomeOnce == Spec => []OneOutcome
<1>1. AskInv => OneOutcome
  BY DEF AskInv
<1>. QED  BY AskInvariant, <1>1, PTL

\* A client told that its answer was saved has it in the history, for as long as
\* the session is not deleted.
THEOREM SavedStays == Spec => []SavedIsStored
<1>1. AskInv => SavedIsStored
  BY DEF AskInv, SavedIsStored, SavedIsCommitted, Archived
<1>. QED  BY AskInvariant, <1>1, PTL

\* Answers and cache rows carry the tone they are labelled with, and the client
\* gets the tone it asked for, on every path to an answer.
THEOREM ToneKept == Spec => []ToneFaithful
<1>1. AskInv => ToneFaithful
  <2>. SUFFICES ASSUME AskInv PROVE ToneFaithful
    OBVIOUS
  <2>1. \A row \in questionCache : AnswerOf(row.ask).tone = row.tone
    BY AnswerIsDraft DEF AskInv, Archived
  <2>. QED  BY <2>1 DEF AskInv, ToneFaithful, ToneSettled
<1>. QED  BY AskInvariant, <1>1, PTL

\* A question about a post that is deleted, or hidden in another blog, is answered
\* out of the cache or not at all, and what the cache holds about a post goes back
\* to an ask of a time at which it could be read.
THEOREM GuardHolds == Spec => []PostGuarded
<1>1. AskInv => PostGuarded
  BY DEF AskInv, PostGuarded, PastTheGuard, Rooted
<1>. QED  BY AskInvariant, <1>1, PTL

\* Once the cache was emptied after the last embeddings were stored, an answer in
\* it older than they are is the doing of an ask that was in flight when it was.
THEOREM StaleExplained == Spec => []StaleNeedsOverlap
<1>1. AskInv => StaleNeedsOverlap
  <2>. SUFFICES ASSUME AskInv, ~undeleted, NEW row \in questionCache,
                       AnswerOf(row.ask).version < embVersion
                PROVE  \E a \in overlapped \cap stored :
                         draft[a].version = AnswerOf(row.ask).version
    BY DEF StaleNeedsOverlap
  <2>1. AnswerOf(row.ask) = draft[row.ask]
    BY AnswerIsDraft DEF AskInv, Archived
  <2>2. draft[row.ask].version \in BroughtBack
    BY <2>1 DEF AskInv, OldIsExplained
  <2>. QED  BY <2>1, <2>2 DEF BroughtBack
<1>. QED  BY AskInvariant, <1>1, PTL
=============================================================================
