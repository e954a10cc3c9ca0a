----------------------- MODULE EmbeddingWorker_proofs -----------------------
(***************************************************************************)
(* Proofs about EmbeddingWorker, for any number of workers, posts, jobs    *)
(* and faults: type correctness, conservation of jobs and the retry count; *)
(* that it implements JobLifecycle; and what a single worker process       *)
(* guarantees for the embeddings and the cached answers.                   *)
(***************************************************************************)
EXTENDS EmbeddingWorker, SequenceTheorems, FiniteSetTheorems, TLAPS

-----------------------------------------------------------------------------
(* Lemmas about the payload lists.                                         *)

\* LPUSH adds exactly the id of the new payload to a list.
LEMMA IdsAppend ==
  ASSUME NEW s \in Seq(Payload), NEW e \in Payload
  PROVE  /\ Append(s, e) \in Seq(Payload)
         /\ IdsOf(Append(s, e)) = IdsOf(s) \cup {e.id}
         /\ Distinct(s) /\ e.id \notin IdsOf(s) => Distinct(Append(s, e))
<1>1. /\ Append(s, e) \in Seq(Payload)
      /\ DOMAIN Append(s, e) = 1 .. Len(s) + 1
      /\ \A n \in 1 .. Len(s) : Append(s, e)[n] = s[n]
      /\ Append(s, e)[Len(s) + 1] = e
      /\ DOMAIN s = 1 .. Len(s) /\ Len(s) \in Nat
  BY AppendProperties
<1>2. IdsOf(Append(s, e)) = IdsOf(s) \cup {e.id}
  BY <1>1 DEF IdsOf
<1>3. ASSUME Distinct(s), e.id \notin IdsOf(s)
      PROVE  Distinct(Append(s, e))
  BY <1>1, <1>3 DEF Distinct, IdsOf
<1>. QED  BY <1>1, <1>2, <1>3

\* BRPOP removes exactly the id of the payload it returns.
LEMMA IdsTail ==
  ASSUME NEW s \in Seq(Payload), s # <<>>
  PROVE  /\ Head(s) \in Payload
         /\ Tail(s) \in Seq(Payload)
         /\ 1 \in DOMAIN s /\ s[1] = Head(s)
         /\ \A n \in DOMAIN Tail(s) : n + 1 \in DOMAIN s /\ Tail(s)[n] = s[n + 1]
         /\ IdsOf(s) = IdsOf(Tail(s)) \cup {Head(s).id}
         /\ Distinct(s) => /\ Head(s).id \notin IdsOf(Tail(s))
                           /\ Distinct(Tail(s))
<1>1. /\ Head(s) \in Payload /\ Tail(s) \in Seq(Payload)
      /\ Head(s) = s[1] /\ Len(s) \in Nat \ {0}
      /\ DOMAIN s = 1 .. Len(s) /\ DOMAIN Tail(s) = 1 .. Len(s) - 1
      /\ \A n \in 1 .. Len(s) - 1 : Tail(s)[n] = s[n + 1]
  BY HeadTailProperties, LenProperties
<1>2. IdsOf(s) = IdsOf(Tail(s)) \cup {Head(s).id}
  <2>1. \A n \in 1 .. Len(s) : n = 1 \/ (n - 1 \in 1 .. Len(s) - 1 /\ s[n] = Tail(s)[n - 1])
    BY <1>1
  <2>2. ASSUME NEW n \in 1 .. Len(s)
        PROVE  s[n].id \in IdsOf(Tail(s)) \cup {Head(s).id}
    BY <1>1, <2>1 DEF IdsOf
  <2>3. IdsOf(s) \subseteq IdsOf(Tail(s)) \cup {Head(s).id}
    BY <1>1, <2>2 DEF IdsOf
  <2>4. /\ Head(s).id \in IdsOf(s)
        /\ \A n \in 1 .. Len(s) - 1 : n + 1 \in 1 .. Len(s)
    BY <1>1 DEF IdsOf
  <2>5. IdsOf(Tail(s)) \subseteq IdsOf(s)
    <3>1. ASSUME NEW n \in 1 .. Len(s) - 1
          PROVE  Tail(s)[n].id \in IdsOf(s)
      BY <1>1, <2>4 DEF IdsOf
    <3>. QED  BY <1>1, <3>1 DEF IdsOf
  <2>. QED  BY <2>3, <2>4, <2>5
<1>3. ASSUME Distinct(s)
      PROVE  Head(s).id \notin IdsOf(Tail(s)) /\ Distinct(Tail(s))
  BY SMTT(20), <1>1, <1>3 DEF Distinct, IdsOf
<1>. QED  BY <1>1, <1>2, <1>3
\* A job is run at least once; after a run, MaxRetries and MaxRuns decide alike.
LEMMA RunsAllowed ==
  /\ MaxRuns \in Nat \ {0}
  /\ \A n \in Nat \ {0} : n < MaxRetries <=> n < MaxRuns
BY WorkerAssumption DEF MaxRuns
-----------------------------------------------------------------------------
(* Type correctness.                                                       *)

LEMMA NoJobTyped == NoJob \in Payload /\ NoRow \in Row
BY WorkerAssumption DEF NoJob, NoRow, Payload, Row, Version

LEMMA PushTyped ==
  ASSUME TypeOK, NEW json \in BOOLEAN, NEW p \in Posts \cup {NoPost, Null},
         NEW t \in BOOLEAN, NEW c \in BOOLEAN, Push(json, p, t, c)
  PROVE  /\ pushed < MaxJobs
         /\ pushed' = pushed + 1
         /\ pushed' \in 0 .. MaxJobs
         /\ \E e \in Payload : /\ e.id = pushed + 1
                             /\ e.attempt = 0
                             /\ queue' = Append(queue, e)
         /\ queue' \in Seq(Payload)
<1>. DEFINE e == [id |-> pushed + 1, json |-> json, post |-> p,
                  title |-> t, content |-> c, attempt |-> 0]
<1>1. pushed + 1 \in 1 .. MaxJobs /\ pushed' = pushed + 1 /\ pushed < MaxJobs
  BY WorkerAssumption DEF TypeOK, Push
<1>2. e \in Payload /\ e.id = pushed + 1 /\ e.attempt = 0
  BY <1>1 DEF Payload
<1>3. queue' = Append(queue, e)
  BY DEF Push
<1>4. queue' \in Seq(Payload)
  BY <1>2, <1>3, AppendProperties DEF TypeOK
<1>5. \E x \in Payload : x.id = pushed + 1 /\ x.attempt = 0 /\ queue' = Append(queue, x)
  BY <1>2, <1>3
<1>6. pushed' \in 0 .. MaxJobs
  BY <1>1
<1>. QED  BY <1>1, <1>4, <1>5, <1>6

LEMMA ThrowTyped ==
  ASSUME TypeOK, NEW w \in Workers, NEW j \in Payload, Throw(w, j)
  PROVE  /\ job' \in [Workers -> Payload]
         /\ snap' \in [Workers -> Row]
         /\ pc' \in [Workers -> PcValue]
<1>1. [j EXCEPT !.attempt = j.attempt + 1] \in Payload
  BY DEF Payload
<1>. QED  BY <1>1, NoJobTyped DEF TypeOK, Throw, Goto, PcValue, Holding, InJob

LEMMA FinishTyped ==
  ASSUME TypeOK, NEW w \in Workers, NEW id \in 1 .. MaxJobs, Finish(w, id)
  PROVE  /\ job' \in [Workers -> Payload]
         /\ snap' \in [Workers -> Row]
         /\ pc' \in [Workers -> PcValue]
         /\ done' \subseteq 1 .. MaxJobs
BY NoJobTyped DEF TypeOK, Finish, Release, Goto, LoopTop, PcValue, Holding, InJob

LEMMA ContinueTyped ==
  ASSUME TypeOK, NEW w \in Workers, NEW post \in Row,
         NEW label \in InJob \cup {"return"}, Continue(w, post, label)
  PROVE  /\ job' \in [Workers -> Payload]
         /\ snap' \in [Workers -> Row]
         /\ pc' \in [Workers -> PcValue]
         /\ done' \subseteq 1 .. MaxJobs
<1>1. job[w].id \in 1 .. MaxJobs
  BY DEF TypeOK, Payload
<1>2. CASE label = "return"
  BY <1>1, <1>2, FinishTyped DEF Continue
<1>3. CASE label # "return"
  BY <1>3 DEF Continue, TypeOK, Goto, PcValue, Holding
<1>. QED  BY <1>2, <1>3

LEMMA AfterTitleTyped ==
  ASSUME NEW w \in Workers, NEW post \in Row, NEW stored \in BOOLEAN, TypeOK
  PROVE  AfterTitle(w, post, stored) \in InJob \cup {"return"}
BY DEF AfterTitle, InJob, TypeOK, Payload, Row

\* What a repeated LPUSH adds is what the worker holds, under a new number.
LEMMA CopyTyped ==
  ASSUME TypeOK, NEW w \in Workers, pc[w] \in {"backoff", "lpushFailed"}, AddCopy(w)
  PROVE  /\ pushed' = pushed + 1 /\ pushed + 1 \in 1 .. MaxJobs /\ pushed' \in 0 .. MaxJobs
         /\ tries' = [tries EXCEPT ![pushed + 1] = tries[job[w].id]]
         /\ tries' \in [1 .. MaxJobs -> Nat]
         /\ copyOf' = [copyOf EXCEPT ![pushed + 1] = copyOf[job[w].id]]
         /\ copyOf' \in [1 .. MaxJobs -> 1 .. MaxJobs]
         /\ queue' \in Seq(Payload) /\ failed' \in Seq(Payload)
         /\ \E e \in Payload :
              /\ e.id = pushed + 1 /\ e.json = job[w].json /\ e.post = job[w].post
              /\ e.attempt = job[w].attempt
              /\ \/ pc[w] = "backoff" /\ queue' = Append(queue, e) /\ failed' = failed
                 \/ pc[w] = "lpushFailed" /\ failed' = Append(failed, e) /\ queue' = queue
<1>. DEFINE e == [job[w] EXCEPT !.id = pushed + 1]
<1>1. pushed' = pushed + 1 /\ pushed + 1 \in 1 .. MaxJobs /\ pushed' \in 0 .. MaxJobs
  BY WorkerAssumption DEF AddCopy, TypeOK
<1>2. job[w] \in Payload /\ job[w].id \in 1 .. MaxJobs
  BY DEF TypeOK, Payload
<1>3. e \in Payload /\ e.id = pushed + 1 /\ e.json = job[w].json /\ e.post = job[w].post
      /\ e.attempt = job[w].attempt
  BY <1>1, <1>2 DEF Payload
<1>4. \/ pc[w] = "backoff" /\ queue' = Append(queue, e) /\ failed' = failed
      \/ pc[w] = "lpushFailed" /\ failed' = Append(failed, e) /\ queue' = queue
  BY DEF AddCopy
<1>. HIDE DEF e
<1>5. queue' \in Seq(Payload) /\ failed' \in Seq(Payload)
  <2>1. queue \in Seq(Payload) /\ failed \in Seq(Payload)
    BY DEF TypeOK
  <2>2. Append(queue, e) \in Seq(Payload) /\ Append(failed, e) \in Seq(Payload)
    BY <1>3, <2>1, AppendProperties
  <2>. QED  BY <1>4, <2>1, <2>2
<1>6. /\ tries' = [tries EXCEPT ![pushed + 1] = tries[job[w].id]]
      /\ copyOf' = [copyOf EXCEPT ![pushed + 1] = copyOf[job[w].id]]
  BY DEF AddCopy
<1>7. tries' \in [1 .. MaxJobs -> Nat] /\ copyOf' \in [1 .. MaxJobs -> 1 .. MaxJobs]
  BY <1>2, <1>6 DEF TypeOK
<1>8. \E x \in Payload :
        /\ x.id = pushed + 1 /\ x.json = job[w].json /\ x.post = job[w].post
        /\ x.attempt = job[w].attempt
        /\ \/ pc[w] = "backoff" /\ queue' = Append(queue, x) /\ failed' = failed
           \/ pc[w] = "lpushFailed" /\ failed' = Append(failed, x) /\ queue' = queue
  BY <1>3, <1>4
<1>. QED  BY <1>1, <1>5, <1>6, <1>7, <1>8

LEMMA SpendTyped ==
  ASSUME TypeOK, NEW k \in FaultKinds, Spend(k)
  PROVE  faults' \in [FaultKinds -> Nat]
BY DEF TypeOK, Spend

LEMMA TypeInit == Init => TypeOK
BY NoJobTyped, WorkerAssumption
   DEF Init, TypeOK, PcValue, Version

LEMMA TypeStep == TypeOK /\ HeldJobs /\ [Next]_vars => TypeOK'
<1>. SUFFICES ASSUME TypeOK, HeldJobs, [Next]_vars PROVE TypeOK'
  OBVIOUS
<1>. USE WorkerAssumption
<1>1. ASSUME NEW p \in Posts, SavePost(p) PROVE TypeOK'
  <2>1. PICK t \in {row[p].title, 0, edits + 1}, c \in {row[p].content, 0, edits + 1} :
          /\ row' = [row EXCEPT ![p] = [state |-> "live", title |-> t, content |-> c]]
          /\ Push(TRUE, p, t # row[p].title, c # row[p].content)
    BY <1>1 DEF SavePost
  <2>2. edits' \in 0 .. MaxEdits /\ t \in Version /\ c \in Version
    <3>1. row[p].title \in Version /\ row[p].content \in Version /\ edits \in 0 .. MaxEdits
      BY DEF TypeOK, Row
    <3>2. edits < MaxEdits /\ edits' = edits + 1
      BY <1>1 DEF SavePost
    <3>. QED  BY <3>1, <3>2 DEF Version
  <2>3. row' \in [Posts -> Row]
    BY <2>1, <2>2 DEF TypeOK, Row
  <2>4. queue' \in Seq(Payload) /\ pushed' \in 0 .. MaxJobs
    BY <2>1, PushTyped
  <2>. QED  BY <1>1, <2>2, <2>3, <2>4
            DEF SavePost, TypeOK, workerVars, history
<1>2. ASSUME NEW p \in Posts, DeletePost(p) PROVE TypeOK'
  <2>1. queue' \in Seq(Payload) /\ pushed' \in 0 .. MaxJobs
    BY <1>2, PushTyped DEF DeletePost
  <2>2. edits' \in 0 .. MaxEdits
    BY <1>2 DEF DeletePost, TypeOK
  <2>3. [NoRow EXCEPT !.state = "deleted"] \in Row /\ 0 \in Version
    BY DEF NoRow, Row, Version
  <2>4. row' \in [Posts -> Row] /\ titleEmb' \in [Posts -> Version]
        /\ chunks' \in [Posts -> Version]
    BY <1>2, <2>3 DEF DeletePost, TypeOK
  <2>. QED  BY <1>2, <2>1, <2>2, <2>4 DEF DeletePost, TypeOK, workerVars, history
<1>3. ASSUME PushUnusable PROVE TypeOK'
  <2>1. queue' \in Seq(Payload) /\ pushed' \in 0 .. MaxJobs /\ pushed' = pushed + 1
    BY <1>3, PushTyped DEF PushUnusable
  <2>2. nulls' \subseteq 1 .. MaxJobs
    <3>1. nulls' = nulls \/ nulls' = nulls \cup {pushed + 1}
      BY <1>3 DEF PushUnusable
    <3>2. nulls \subseteq 1 .. MaxJobs /\ pushed \in 0 .. MaxJobs
      BY DEF TypeOK
    <3>3. pushed + 1 \in 1 .. MaxJobs
      BY <2>1, <3>2
    <3>. QED  BY <3>1, <3>2, <3>3
  <2>. QED  BY <1>3, <2>1, <2>2 DEF PushUnusable, TypeOK, workerVars, dbVars
<1>4. ASSUME AskNext PROVE TypeOK'
  <2>1. ASSUME NEW p \in Posts, AskReads(p) PROVE TypeOK'
    <3>1. titleEmb[p] \in Version /\ chunks[p] \in Version
      BY DEF TypeOK
    <3>2. [post |-> p, title |-> titleEmb[p], content |-> chunks[p], overlapped |-> FALSE]
            \in Answer
      BY <3>1 DEF Answer
    <3>3. asking' \subseteq Answer
      BY <2>1, <3>2 DEF AskReads, TypeOK
    <3>4. answered' \in 0 .. MaxAnswers
      BY <2>1 DEF AskReads, TypeOK
    <3>5. UNCHANGED <<queue, failed, pc, job, snap, stopping, row, titleEmb, chunks,
                      answerCache, pushed, edits, faults, tries, done, lost, copyOf, nulls>>
      BY <2>1 DEF AskReads, redisVars, workerVars, history
    <3>. QED  BY <3>3, <3>4, <3>5 DEF TypeOK
  <2>2. ASSUME NEW a \in asking, AskCaches(a) PROVE TypeOK'
    BY <2>2 DEF AskCaches, TypeOK, redisVars, workerVars, boundVars, history
  <2>. QED  BY <1>4, <2>1, <2>2 DEF AskNext
<1>5. ASSUME NEW w \in Workers, Take(w) PROVE TypeOK'
  <2>1. ASSUME Pop(w)
        PROVE  /\ queue' \in Seq(Payload)
               /\ Head(queue) \in Payload
               /\ Head(queue).id \in 1 .. MaxJobs
    BY <2>1, IdsTail DEF Pop, TypeOK, Payload
  <2>2. ASSUME NEW i \in 1 .. MaxJobs, Attempted(i)
        PROVE  tries' \in [1 .. MaxJobs -> Nat]
    <3>1. tries \in [1 .. MaxJobs -> Nat]
      BY DEF TypeOK
    <3>2. tries[i] + 1 \in Nat
      BY <3>1
    <3>. QED  BY <2>2, <3>1, <3>2 DEF Attempted
  <2>3. CASE TakeMalformed(w)
    BY <2>1, <2>3 DEF TakeMalformed, TypeOK, Goto, PcValue, Holding, dbVars,
                      boundVars, history
  <2>4. CASE TakeInvalid(w)
    BY <2>1, <2>2, <2>4, ThrowTyped DEF TakeInvalid, TypeOK, dbVars, boundVars
  <2>5. CASE TakeUntargeted(w)
    BY <2>1, <2>2, <2>5, FinishTyped DEF TakeUntargeted, TypeOK, dbVars, boundVars
  <2>6. CASE TakeJob(w)
    BY <2>1, <2>2, <2>6 DEF TakeJob, TypeOK, Goto, PcValue, Holding, InJob,
                            dbVars, boundVars
  <2>7. CASE TakeNull(w)
    BY <2>1, <2>7 DEF TakeNull, TypeOK, Goto, PcValue, dbVars, boundVars
  <2>. QED  BY <1>5, <2>3, <2>4, <2>5, <2>6, <2>7 DEF Take
<1>6. ASSUME NEW w \in Workers, Process(w) PROVE TypeOK'
  <2>1. /\ job[w] \in Payload /\ job[w].id \in 1 .. MaxJobs
        /\ snap[w] \in Row
        /\ pc[w] \in InJob => job[w].post \in Posts /\ row[job[w].post] \in Row
    BY DEF TypeOK, Payload, HeldJobs
  <2>2. CASE FindPost(w)
    <3>1. row[job[w].post] \in Row
      BY <2>1, <2>2 DEF FindPost, InJob
    <3>2. PICK label \in InJob \cup {"return"} : Continue(w, row[job[w].post], label)
      BY <2>2, <3>1, AfterTitleTyped DEF FindPost, InJob
    <3>. QED  BY <2>2, <3>1, <3>2, ContinueTyped
              DEF FindPost, TypeOK, redisVars, dbVars, boundVars
  <2>3. CASE StoreTitle(w)
    <3>1. PICK label \in InJob \cup {"return"} : Continue(w, snap[w], label)
      BY <2>1, <2>3, AfterTitleTyped DEF StoreTitle
    <3>2. titleEmb' \in [Posts -> Version]
      BY <2>1, <2>3 DEF StoreTitle, TypeOK, Row
    <3>. QED  BY <2>1, <2>3, <3>1, <3>2, ContinueTyped
              DEF StoreTitle, TypeOK, redisVars, boundVars
  <2>4. CASE StoreContent(w)
    <3>1. chunks' \in [Posts -> Version]
      BY <2>1, <2>4 DEF StoreContent, TypeOK, Row
    <3>. QED  BY <2>4, <3>1 DEF StoreContent, TypeOK, Goto, PcValue, Holding, InJob,
                                redisVars, boundVars, history
  <2>5. CASE InvalidateCache(w)
    <3>1. asking' \subseteq Answer
      <4>1. asking \subseteq Answer /\ asking' = {[a EXCEPT !.overlapped = TRUE] : a \in asking}
        BY <2>5 DEF InvalidateCache, TypeOK
      <4>. QED  BY <4>1 DEF Answer
    <3>. QED  BY <2>1, <2>5, <3>1, FinishTyped
              DEF InvalidateCache, TypeOK, redisVars, boundVars
  <2>6. CASE JobError(w)
    <3>1. faults' \in [FaultKinds -> Nat]
      BY <2>6, SpendTyped DEF JobError, TypeOK, FaultKinds
    <3>. QED  BY <2>1, <2>6, <3>1, ThrowTyped
              DEF JobError, TypeOK, redisVars, dbVars, boundVars, history
  <2>. QED  BY <1>6, <2>2, <2>3, <2>4, <2>5, <2>6 DEF Process
<1>7. ASSUME NEW w \in Workers, NEW id \in 1 .. MaxJobs, Lose(id)
      PROVE  lost' \subseteq 1 .. MaxJobs
  BY <1>7 DEF Lose, TypeOK
<1>8. ASSUME NEW w \in Workers, Release(w)
      PROVE  job' \in [Workers -> Payload] /\ snap' \in [Workers -> Row]
  BY <1>8, NoJobTyped DEF Release, TypeOK
<1>9. ASSUME NEW w \in Workers, NEW label \in PcValue, Goto(w, label)
      PROVE  pc' \in [Workers -> PcValue]
  BY <1>9 DEF Goto, TypeOK
<1>10. ASSUME NEW w \in Workers
       PROVE  /\ job[w] \in Payload /\ job[w].id \in 1 .. MaxJobs
              /\ LoopTop(w) \in PcValue
              /\ {"brpop", "exited", "pause"} \subseteq PcValue
  BY DEF TypeOK, Payload, LoopTop, PcValue
<1>11. ASSUME NEW w \in Workers, RedisRejects(w)
       PROVE  faults' \in [FaultKinds -> Nat]
  BY <1>11, SpendTyped DEF RedisRejects, FaultKinds, TypeOK
<1>12. ASSUME NEW w \in Workers, Settle(w) PROVE TypeOK'
  <2>1. CASE Requeue(w)
    <3>1. queue' \in Seq(Payload)
      BY <1>10, <2>1, AppendProperties DEF Requeue, TypeOK
    <3>. QED  BY <2>1, <3>1, <1>8, <1>9, <1>10
              DEF Requeue, TypeOK, dbVars, boundVars, history
  <2>2. CASE RequeueFails(w)
    BY <2>2, <1>7, <1>8, <1>9, <1>10, <1>11
    DEF RequeueFails, TypeOK, redisVars, dbVars, boundVars
  <2>3. CASE Resume(w)
    BY <2>3, <1>9, <1>10 DEF Resume, TypeOK, redisVars, dbVars, boundVars, history
  <2>4. CASE PushFailed(w)
    <3>1. failed' \in Seq(Payload)
      BY <1>10, <2>4, AppendProperties DEF PushFailed, TypeOK
    <3>. QED  BY <2>4, <3>1, <1>8, <1>9, <1>10
              DEF PushFailed, TypeOK, dbVars, boundVars, history
  <2>5. CASE PushFailedSwallowed(w)
    BY <2>5, <1>7, <1>8, <1>9, <1>10, <1>11
    DEF PushFailedSwallowed, TypeOK, redisVars, dbVars, boundVars
  <2>. QED  BY <1>12, <2>1, <2>2, <2>3, <2>4, <2>5 DEF Settle
<1>13. ASSUME NEW w \in Workers, Restart(w) \/ Fault(w) PROVE TypeOK'
  <2>1. CASE Restart(w)
    BY <2>1, <1>9, <1>10 DEF Restart, TypeOK, redisVars, dbVars, boundVars, history
  <2>2. CASE InvalidateFails(w)
    BY <2>2, <1>10, FinishTyped, SpendTyped
    DEF InvalidateFails, TypeOK, FaultKinds, redisVars, dbVars, boundVars
  <2>3. CASE ReplyLost(w)
    <3>1. queue' \in Seq(Payload) /\ Head(queue).id \in 1 .. MaxJobs
      BY <2>3, IdsTail DEF ReplyLost, Pop, TypeOK, Payload
    <3>. QED  BY <2>3, <3>1, <1>7, <1>9, <1>10, SpendTyped
              DEF ReplyLost, TypeOK, FaultKinds, dbVars, boundVars
  <2>4. CASE Signal(w)
    BY <2>4, <1>9, <1>10, SpendTyped
    DEF Signal, TypeOK, FaultKinds, redisVars, dbVars, boundVars, history
  <2>5. CASE Exit(w)
    BY <2>5, <1>7, <1>8, <1>9, <1>10, SpendTyped
    DEF Exit, TypeOK, FaultKinds, redisVars, dbVars, boundVars
  <2>6. CASE ReplyUnread(w)
    BY <2>6, CopyTyped, SpendTyped DEF ReplyUnread, TypeOK, FaultKinds, workerVars, dbVars
  <2>. QED  BY <1>13, <2>1, <2>2, <2>3, <2>4, <2>5, <2>6 DEF Fault
<1>14. CASE UNCHANGED vars
  BY <1>14 DEF TypeOK, vars, redisVars, workerVars, dbVars, boundVars, history
<1>. QED  BY <1>1, <1>2, <1>3, <1>4, <1>5, <1>6, <1>12, <1>13, <1>14
          DEF Next, WorkerNext, BackendNext, Step
-----------------------------------------------------------------------------
(* Conservation of jobs.  First, how one worker's step changes what is held. *)

\* Worker w moves to label and holds j (or NoJob) from now on.
Moves(w, label, j) ==
  /\ pc' = [pc EXCEPT ![w] = label]
  /\ job' = [job EXCEPT ![w] = j]

LEMMA HoldStart ==
  ASSUME TypeOK, HeldDistinct, NEW w \in Workers, NEW label \in Holding, NEW j,
         pc[w] \notin Holding, Moves(w, label, j), j.id \notin HeldIds
  PROVE  HeldIds' = HeldIds \cup {j.id} /\ HeldDistinct'
<1>1. HeldIds' = HeldIds \cup {j.id}
  BY DEF TypeOK, HeldIds, Moves
<1>2. HeldDistinct'
  BY DEF TypeOK, HeldIds, HeldDistinct, Moves
<1>. QED  BY <1>1, <1>2

LEMMA HoldKeep ==
  ASSUME TypeOK, HeldDistinct, NEW w \in Workers, NEW label \in Holding, NEW j,
         pc[w] \in Holding, Moves(w, label, j), j.id = job[w].id
  PROVE  HeldIds' = HeldIds /\ HeldDistinct'
<1>1. HeldIds' = HeldIds
  BY DEF TypeOK, HeldIds, Moves
<1>2. HeldDistinct'
  BY DEF TypeOK, HeldDistinct, Moves
<1>. QED  BY <1>1, <1>2

LEMMA HoldEnd ==
  ASSUME TypeOK, HeldDistinct, NEW w \in Workers, NEW label, NEW j,
         label \notin Holding, pc[w] \in Holding, Moves(w, label, j)
  PROVE  HeldIds' = HeldIds \ {job[w].id} /\ job[w].id \in HeldIds /\ HeldDistinct'
<1>1. HeldIds' = HeldIds \ {job[w].id}
  BY DEF TypeOK, HeldIds, HeldDistinct, Moves
<1>2. job[w].id \in HeldIds
  BY DEF HeldIds
<1>3. HeldDistinct'
  BY DEF TypeOK, HeldDistinct, Moves
<1>. QED  BY <1>1, <1>2, <1>3

LEMMA HoldNone ==
  ASSUME TypeOK, HeldDistinct, NEW w \in Workers, NEW label, NEW j,
         label \notin Holding, pc[w] \notin Holding, Moves(w, label, j)
  PROVE  HeldIds' = HeldIds /\ HeldDistinct'
<1>1. HeldIds' = HeldIds
  BY DEF TypeOK, HeldIds, Moves
<1>2. HeldDistinct'
  BY DEF TypeOK, HeldDistinct, Moves
<1>. QED  BY <1>1, <1>2

(* The five ways in which a step moves a payload. *)

\* The producer adds a new payload to the queue.
LEMMA ConservePush ==
  ASSUME TypeOK, EachPlaced, NEW e \in Payload, e.id = pushed + 1,
         queue' = Append(queue, e), pushed' = pushed + 1,
         UNCHANGED <<pc, job, failed, done, lost>>
  PROVE  EachPlaced'
<1>1. pushed \in Nat /\ 1 .. pushed + 1 = 1 .. pushed \cup {e.id} /\ e.id \notin 1 .. pushed
  BY DEF TypeOK
<1>2. HeldIds' = HeldIds /\ HeldDistinct' /\ IdsOf(failed)' = IdsOf(failed) /\ Distinct(failed)'
  BY DEF HeldIds, HeldDistinct, EachPlaced, NothingDuplicated, IdsOf, Distinct
<1>3. IdsOf(queue)' = IdsOf(queue) \cup {e.id} /\ Distinct(queue)'
  BY <1>1, IdsAppend DEF TypeOK, EachPlaced, NothingForgotten, NothingDuplicated, Outstanding
<1>. QED  BY <1>1, <1>2, <1>3
          DEF EachPlaced, NothingForgotten, NothingDuplicated, Outstanding

\* A repeated LPUSH adds a new element to the failed queue.
LEMMA ConserveFailedTwice ==
  ASSUME TypeOK, EachPlaced, NEW e \in Payload, e.id = pushed + 1,
         failed' = Append(failed, e), pushed' = pushed + 1,
         UNCHANGED <<pc, job, queue, done, lost>>
  PROVE  EachPlaced'
<1>1. pushed \in Nat /\ 1 .. pushed + 1 = 1 .. pushed \cup {e.id} /\ e.id \notin 1 .. pushed
  BY DEF TypeOK
<1>2. HeldIds' = HeldIds /\ HeldDistinct' /\ IdsOf(queue)' = IdsOf(queue) /\ Distinct(queue)'
  BY DEF HeldIds, HeldDistinct, EachPlaced, NothingDuplicated, IdsOf, Distinct
<1>3. IdsOf(failed)' = IdsOf(failed) \cup {e.id} /\ Distinct(failed)'
  BY <1>1, IdsAppend DEF TypeOK, EachPlaced, NothingForgotten, NothingDuplicated, Outstanding
<1>. QED  BY <1>1, <1>2, <1>3
          DEF EachPlaced, NothingForgotten, NothingDuplicated, Outstanding

\* A worker takes the head of the queue and keeps it.
LEMMA ConserveTake ==
  ASSUME TypeOK, EachPlaced, NEW w \in Workers, Pop(w), NEW label \in Holding,
         NEW j \in Payload, j.id = Head(queue).id, Moves(w, label, j),
         UNCHANGED <<pushed, failed, done, lost>>
  PROVE  EachPlaced'
<1>1. /\ IdsOf(queue) = IdsOf(queue)' \cup {j.id} /\ j.id \notin IdsOf(queue)'
      /\ Distinct(queue)'
  BY IdsTail DEF TypeOK, EachPlaced, NothingDuplicated, Pop
<1>2. pc[w] \notin Holding
  BY DEF Pop, Holding, InJob
<1>3. HeldIds' = HeldIds \cup {j.id} /\ HeldDistinct'
  BY <1>1, <1>2, HoldStart DEF EachPlaced, NothingDuplicated
<1>4. IdsOf(failed)' = IdsOf(failed) /\ Distinct(failed)'
  BY DEF EachPlaced, NothingDuplicated, IdsOf, Distinct
<1>. QED  BY <1>1, <1>3, <1>4
          DEF EachPlaced, NothingForgotten, NothingDuplicated, Outstanding

\* A worker takes the head of the queue and is through with it at once.
LEMMA ConserveDrop ==
  ASSUME TypeOK, EachPlaced, NEW w \in Workers, Pop(w), NEW label,
         label \notin Holding, NEW j, Moves(w, label, j), UNCHANGED <<pushed, failed>>,
         \/ done' = done \cup {Head(queue).id} /\ lost' = lost
         \/ lost' = lost \cup {Head(queue).id} /\ done' = done
  PROVE  EachPlaced'
<1>. DEFINE i == Head(queue).id
<1>1. /\ IdsOf(queue) = IdsOf(queue)' \cup {i} /\ i \notin IdsOf(queue)'
      /\ Distinct(queue)'
  BY IdsTail DEF TypeOK, EachPlaced, NothingDuplicated, Pop
<1>2. pc[w] \notin Holding
  BY DEF Pop, Holding, InJob
<1>3. HeldIds' = HeldIds /\ HeldDistinct'
  BY <1>2, HoldNone DEF EachPlaced, NothingDuplicated
<1>4. IdsOf(failed)' = IdsOf(failed) /\ Distinct(failed)'
  BY DEF EachPlaced, NothingDuplicated, IdsOf, Distinct
<1>. QED  BY <1>1, <1>3, <1>4
          DEF EachPlaced, NothingForgotten, NothingDuplicated, Outstanding

\* What the workers hold, the lists and the history are as before.
LEMMA ConserveSame ==
  ASSUME TypeOK, EachPlaced, HeldIds' = HeldIds, HeldDistinct',
         UNCHANGED <<queue, pushed, failed, done, lost>>
  PROVE  EachPlaced'
BY DEF EachPlaced, NothingForgotten, NothingDuplicated, Outstanding, IdsOf, Distinct

\* A worker gives up the payload it holds: back to the queue, to the failed
\* queue, done or lost.
LEMMA ConserveSettle ==
  ASSUME TypeOK, EachPlaced, NEW w \in Workers, pc[w] \in Holding,
         NEW label, label \notin Holding, NEW j, Moves(w, label, j), pushed' = pushed,
         \/ queue' = Append(queue, job[w]) /\ UNCHANGED <<failed, done, lost>>
         \/ failed' = Append(failed, job[w]) /\ UNCHANGED <<queue, done, lost>>
         \/ done' = done \cup {job[w].id} /\ UNCHANGED <<queue, failed, lost>>
         \/ lost' = lost \cup {job[w].id} /\ UNCHANGED <<queue, failed, done>>
  PROVE  EachPlaced'
<1>. DEFINE i == job[w].id
<1>1. HeldIds' = HeldIds \ {i} /\ i \in HeldIds /\ HeldDistinct'
  BY HoldEnd DEF EachPlaced, NothingDuplicated
<1>2. /\ job[w] \in Payload
      /\ i \notin IdsOf(queue) /\ i \notin IdsOf(failed) /\ i \notin done /\ i \notin lost
      /\ Distinct(queue) /\ Distinct(failed)
  BY <1>1 DEF TypeOK, EachPlaced, NothingDuplicated, Outstanding
<1>3. /\ queue' = queue => IdsOf(queue)' = IdsOf(queue) /\ Distinct(queue)'
      /\ failed' = failed => IdsOf(failed)' = IdsOf(failed) /\ Distinct(failed)'
  BY <1>2 DEF IdsOf, Distinct
<1>4. CASE queue' = Append(queue, job[w]) /\ UNCHANGED <<failed, done, lost>>
  <2>1. IdsOf(queue)' = IdsOf(queue) \cup {i} /\ Distinct(queue)'
    BY <1>2, <1>4, IdsAppend DEF TypeOK
  <2>. QED  BY <1>1, <1>2, <1>3, <1>4, <2>1
            DEF EachPlaced, NothingForgotten, NothingDuplicated, Outstanding
<1>5. CASE failed' = Append(failed, job[w]) /\ UNCHANGED <<queue, done, lost>>
  <2>1. IdsOf(failed)' = IdsOf(failed) \cup {i} /\ Distinct(failed)'
    BY <1>2, <1>5, IdsAppend DEF TypeOK
  <2>. QED  BY <1>1, <1>2, <1>3, <1>5, <2>1
            DEF EachPlaced, NothingForgotten, NothingDuplicated, Outstanding
<1>6. CASE done' = done \cup {i} /\ UNCHANGED <<queue, failed, lost>>
  BY <1>1, <1>2, <1>3, <1>6
  DEF EachPlaced, NothingForgotten, NothingDuplicated, Outstanding
<1>7. CASE lost' = lost \cup {i} /\ UNCHANGED <<queue, failed, done>>
  BY <1>1, <1>2, <1>3, <1>7
  DEF EachPlaced, NothingForgotten, NothingDuplicated, Outstanding
<1>. QED  BY <1>4, <1>5, <1>6, <1>7
LEMMA ContinueMoves ==
  ASSUME TypeOK, EachPlaced, NEW w \in Workers, pc[w] \in InJob, NEW post,
         NEW label \in InJob \cup {"return"}, Continue(w, post, label),
         UNCHANGED <<queue, pushed, failed, lost>>
  PROVE  EachPlaced'
<1>1. pc[w] \in Holding /\ LoopTop(w) \notin Holding /\ InJob \subseteq Holding
  BY DEF Holding, LoopTop, InJob
<1>2. CASE label = "return"
  <2>1. Moves(w, LoopTop(w), NoJob) /\ done' = done \cup {job[w].id}
    BY <1>2 DEF Continue, Finish, Release, Goto, Moves
  <2>. QED  BY <1>1, <2>1, ConserveSettle
<1>3. CASE label # "return"
  <2>1. Moves(w, label, job[w]) /\ done' = done
    BY <1>3 DEF Continue, Goto, Moves, TypeOK
  <2>2. HeldIds' = HeldIds /\ HeldDistinct'
    BY <1>1, <1>3, <2>1, HoldKeep DEF EachPlaced, NothingDuplicated
  <2>. QED  BY <2>1, <2>2, ConserveSame
<1>. QED  BY <1>2, <1>3

LEMMA ThrowMoves ==
  ASSUME TypeOK, NEW w \in Workers, NEW j \in Payload, Throw(w, j)
  PROVE  \E label \in {"backoff", "lpushFailed"}, k \in Payload :
            /\ Moves(w, label, k)
            /\ k.id = j.id /\ k.json = j.json /\ k.attempt = j.attempt + 1
            /\ k.post = j.post
            /\ label = IF k.attempt < MaxRuns THEN "backoff" ELSE "lpushFailed"
<1>. DEFINE next == [j EXCEPT !.attempt = j.attempt + 1]
            goal == IF next.attempt < MaxRuns THEN "backoff" ELSE "lpushFailed"
<1>1. next \in Payload /\ next.id = j.id /\ next.json = j.json
      /\ next.attempt = j.attempt + 1 /\ next.post = j.post
  BY DEF Payload
<1>2. goal \in {"backoff", "lpushFailed"}
  OBVIOUS
<1>3. Moves(w, goal, next)
  <2>1. next.attempt \in Nat \ {0}
    BY <1>1 DEF Payload
  <2>2. next.attempt < MaxRetries <=> next.attempt < MaxRuns
    BY <2>1, RunsAllowed
  <2>. QED  BY <1>1, <2>2 DEF Throw, Goto, Moves
<1>. USE <1>1, <1>2, <1>3
<1>. WITNESS goal \in {"backoff", "lpushFailed"}, next \in Payload
<1>. QED  OBVIOUS

LEMMA ConservationInit == Init => EachPlaced
<1>. SUFFICES ASSUME Init PROVE EachPlaced
  OBVIOUS
<1>1. IdsOf(queue) = {} /\ IdsOf(failed) = {} /\ Distinct(queue) /\ Distinct(failed)
  BY DEF Init, IdsOf, Distinct
<1>2. HeldIds = {} /\ HeldDistinct
  BY DEF Init, HeldIds, HeldDistinct, Holding, InJob
<1>. QED  BY <1>1, <1>2 DEF Init, EachPlaced, NothingForgotten, NothingDuplicated,
                           Outstanding

LEMMA ConservationStep ==
  TypeOK /\ EachPlaced /\ [Next]_vars => EachPlaced'
<1>. SUFFICES ASSUME TypeOK, EachPlaced, [Next]_vars PROVE EachPlaced'
  OBVIOUS
<1>1. ASSUME BackendNext PROVE EachPlaced'
  <2>1. UNCHANGED <<pc, job, failed, done, lost>>
    BY <1>1 DEF BackendNext, SavePost, DeletePost, PushUnusable, workerVars, history
  <2>2. \E json \in BOOLEAN, p \in Posts \cup {NoPost, Null}, t \in BOOLEAN, c \in BOOLEAN :
          Push(json, p, t, c)
    BY <1>1 DEF BackendNext, SavePost, DeletePost, PushUnusable
  <2>3. PICK e \in Payload : e.id = pushed + 1 /\ queue' = Append(queue, e)
    BY <2>2, PushTyped
  <2>4. pushed' = pushed + 1
    BY <2>2 DEF Push
  <2>. QED  BY <2>1, <2>3, <2>4, ConservePush
<1>2. ASSUME NEW w \in Workers, Take(w) PROVE EachPlaced'
  <2>1. Pop(w)
    BY <1>2 DEF Take, TakeMalformed, TakeNull, TakeInvalid, TakeUntargeted, TakeJob
  <2>2. Head(queue) \in Payload
    BY <2>1, IdsTail DEF Pop, TypeOK
  <2>3. UNCHANGED <<pushed, failed>> /\ (lost' = lost \/ TakeNull(w))
    BY <1>2 DEF Take, TakeMalformed, TakeNull, TakeInvalid, TakeUntargeted, TakeJob,
                boundVars, history
  <2>4. CASE TakeMalformed(w)
    BY <2>1, <2>2, <2>3, <2>4, ConserveTake
    DEF TakeMalformed, Goto, Moves, Holding, history
  <2>5. CASE TakeInvalid(w)
    <3>0. Throw(w, Head(queue))
      BY <2>5 DEF TakeInvalid
    <3>1. PICK label \in {"backoff", "lpushFailed"}, k \in Payload :
            Moves(w, label, k) /\ k.id = Head(queue).id
      BY <2>2, <3>0, ThrowMoves
    <3>. QED  BY <2>1, <2>3, <2>5, <3>1, ConserveTake DEF TakeInvalid, Holding
  <2>6. CASE TakeUntargeted(w)
    <3>1. Moves(w, LoopTop(w), NoJob) /\ done' = done \cup {Head(queue).id}
      BY <2>6 DEF TakeUntargeted, Finish, Release, Goto, Moves
    <3>2. lost' = lost
      BY <2>6 DEF TakeUntargeted
    <3>. QED  BY <2>1, <2>3, <3>1, <3>2, ConserveDrop DEF LoopTop, Holding, InJob
  <2>7. CASE TakeJob(w)
    BY <2>1, <2>2, <2>3, <2>7, ConserveTake DEF TakeJob, Goto, Moves, Holding, InJob
  <2>8. CASE TakeNull(w)
    <3>1. Moves(w, "pause", job[w]) /\ lost' = lost \cup {Head(queue).id} /\ done' = done
      BY <2>8 DEF TakeNull, Goto, Moves, TypeOK
    <3>. QED  BY <2>1, <2>3, <3>1, ConserveDrop DEF Holding, InJob
  <2>. QED  BY <1>2, <2>4, <2>5, <2>6, <2>7, <2>8 DEF Take
<1>3. ASSUME NEW w \in Workers, Process(w) PROVE EachPlaced'
  <2>1. pc[w] \in InJob /\ job[w] \in Payload /\ InJob \subseteq Holding
        /\ LoopTop(w) \notin Holding /\ snap[w] \in Row
    BY <1>3 DEF Process, FindPost, StoreTitle, StoreContent, InvalidateCache, JobError,
                InJob, Holding, LoopTop, TypeOK
  <2>2. UNCHANGED <<queue, pushed, failed, lost>>
    BY <1>3 DEF Process, FindPost, StoreTitle, StoreContent, InvalidateCache, JobError,
                redisVars, boundVars, history
  <2>3. \A post, stored : AfterTitle(w, post, stored) \in InJob \cup {"return"}
    BY <2>1 DEF AfterTitle, InJob, TypeOK, Payload
  <2>4. CASE FindPost(w)
    BY <2>1, <2>2, <2>3, <2>4, ContinueMoves DEF FindPost, InJob
  <2>5. CASE StoreTitle(w)
    BY <2>1, <2>2, <2>3, <2>5, ContinueMoves DEF StoreTitle
  <2>6. CASE StoreContent(w)
    <3>1. Moves(w, "invalidate", job[w]) /\ done' = done
      BY <2>6 DEF StoreContent, Goto, Moves, TypeOK, history
    <3>2. HeldIds' = HeldIds /\ HeldDistinct'
      BY <2>1, <3>1, HoldKeep DEF EachPlaced, NothingDuplicated, InJob
    <3>. QED  BY <2>2, <3>1, <3>2, ConserveSame
  <2>7. CASE InvalidateCache(w)
    <3>1. Moves(w, LoopTop(w), NoJob) /\ done' = done \cup {job[w].id}
      BY <2>7 DEF InvalidateCache, Finish, Release, Goto, Moves
    <3>. QED  BY <2>1, <2>2, <3>1, ConserveSettle
  <2>8. CASE JobError(w)
    <3>1. PICK label \in {"backoff", "lpushFailed"}, k \in Payload :
            Moves(w, label, k) /\ k.id = job[w].id
      BY <2>1, <2>8, ThrowMoves DEF JobError, Payload
    <3>2. HeldIds' = HeldIds /\ HeldDistinct'
      BY <2>1, <3>1, HoldKeep DEF EachPlaced, NothingDuplicated, Holding
    <3>. QED  BY <2>2, <2>8, <3>2, ConserveSame DEF JobError, history
  <2>. QED  BY <1>3, <2>4, <2>5, <2>6, <2>7, <2>8 DEF Process
<1>4. ASSUME NEW w \in Workers,
             Requeue(w) \/ RequeueFails(w) \/ PushFailed(w) \/ PushFailedSwallowed(w)
      PROVE  EachPlaced'
  <2>1. PICK label \in {"brpop", "pause", "exited"} : Moves(w, label, NoJob)
    BY <1>4 DEF Requeue, RequeueFails, PushFailed, PushFailedSwallowed, Release, Goto,
                Moves, LoopTop
  <2>2. pc[w] \in Holding /\ label \notin Holding
    BY <1>4 DEF Requeue, RequeueFails, PushFailed, PushFailedSwallowed, Holding, InJob
  <2>3. pushed' = pushed
    BY <1>4 DEF Requeue, RequeueFails, PushFailed, PushFailedSwallowed, boundVars
  <2>4. \/ queue' = Append(queue, job[w]) /\ UNCHANGED <<failed, done, lost>>
        \/ failed' = Append(failed, job[w]) /\ UNCHANGED <<queue, done, lost>>
        \/ lost' = lost \cup {job[w].id} /\ UNCHANGED <<queue, failed, done>>
    BY <1>4 DEF Requeue, RequeueFails, PushFailed, PushFailedSwallowed, Lose,
                redisVars, history
  <2>. QED  BY <2>1, <2>2, <2>3, <2>4, ConserveSettle
<1>5. ASSUME NEW w \in Workers, InvalidateFails(w) PROVE EachPlaced'
  <2>1. Moves(w, LoopTop(w), NoJob) /\ done' = done \cup {job[w].id}
    BY <1>5 DEF InvalidateFails, Finish, Release, Goto, Moves
  <2>2. pc[w] \in Holding /\ LoopTop(w) \notin Holding
    BY <1>5 DEF InvalidateFails, LoopTop, Holding, InJob
  <2>. QED  BY <1>5, <2>1, <2>2, ConserveSettle DEF InvalidateFails, redisVars, boundVars
<1>6. ASSUME NEW w \in Workers, ReplyLost(w) PROVE EachPlaced'
  <2>1. (Moves(w, "brpop", job[w]) \/ Moves(w, "pause", job[w]))
        /\ Pop(w) /\ UNCHANGED <<pushed, failed, done>>
        /\ lost' = lost \cup {Head(queue).id}
    BY <1>6 DEF ReplyLost, Goto, Moves, Lose, TypeOK, boundVars
  <2>. QED  BY <2>1, ConserveDrop DEF Holding, InJob
<1>7. ASSUME NEW w \in Workers, Exit(w) PROVE EachPlaced'
  <2>1. Moves(w, "exited", NoJob) /\ "exited" \notin Holding
        /\ UNCHANGED <<queue, failed, pushed, done>>
    BY <1>7 DEF Exit, Release, Goto, Moves, Holding, InJob, redisVars, boundVars
  <2>2. CASE pc[w] \in Holding
    BY <1>7, <2>1, <2>2, ConserveSettle DEF Exit, Lose
  <2>3. CASE pc[w] \notin Holding
    BY <1>7, <2>1, <2>3, HoldNone, ConserveSame
    DEF Exit, EachPlaced, NothingDuplicated
  <2>. QED  BY <2>2, <2>3
<1>8. ASSUME NEW w \in Workers, Resume(w) \/ Signal(w) \/ Restart(w)
      PROVE  EachPlaced'
  <2>1. UNCHANGED <<queue, failed, pushed, done, lost, job>>
    BY <1>8 DEF Resume, Signal, Restart, redisVars, boundVars, history
  <2>2. CASE pc' = pc
    BY <2>1, <2>2, ConserveSame
    DEF HeldIds, HeldDistinct, EachPlaced, NothingDuplicated
  <2>3. CASE pc' # pc
    <3>1. PICK label \in {"brpop", "exited"} : Moves(w, label, job[w])
      BY <1>8, <2>1, <2>3 DEF Resume, Signal, Restart, Goto, Moves, LoopTop, TypeOK
    <3>2. pc[w] \notin Holding /\ label \notin Holding
      BY <1>8, <2>3 DEF Resume, Signal, Restart, Holding, InJob
    <3>. QED  BY <2>1, <3>1, <3>2, HoldNone, ConserveSame
              DEF EachPlaced, NothingDuplicated
  <2>. QED  BY <2>2, <2>3
<1>9. ASSUME AskNext \/ UNCHANGED vars
      PROVE  EachPlaced'
  <2>1. UNCHANGED <<queue, failed, pushed, done, lost, pc, job>>
    BY <1>9 DEF AskNext, AskReads, AskCaches, vars, redisVars, workerVars, boundVars, history
  <2>. QED  BY <2>1, ConserveSame
            DEF HeldIds, HeldDistinct, EachPlaced, NothingDuplicated
<1>10. ASSUME NEW w \in Workers, ReplyUnread(w) PROVE EachPlaced'
  <2>1. pc[w] \in {"backoff", "lpushFailed"} /\ AddCopy(w) /\ UNCHANGED <<pc, job, done, lost>>
    BY <1>10 DEF ReplyUnread, workerVars
  <2>. QED  BY <2>1, CopyTyped, ConservePush, ConserveFailedTwice
<1>. QED  BY <1>1, <1>2, <1>3, <1>4, <1>5, <1>6, <1>7, <1>8, <1>9, <1>10
          DEF Next, WorkerNext, Step, Fault, Settle
-----------------------------------------------------------------------------
(* The retry count.                                                        *)

\* What HeldJobs says of one worker.
HeldOK(w) ==
  /\ pc[w] \in InJob => /\ job[w].json /\ job[w].post \in Posts
                        /\ job[w].attempt < MaxRuns
                        /\ tries[job[w].id] = job[w].attempt + 1
  /\ pc[w] = "backoff" => /\ job[w].json
                          /\ job[w].attempt < MaxRuns
                          /\ tries[job[w].id] = job[w].attempt
  /\ pc[w] = "lpushFailed" => (job[w].json => tries[job[w].id] = MaxRuns)

LEMMA PayloadIds ==
  ASSUME NEW s \in Seq(Payload), NEW n \in DOMAIN s
  PROVE  s[n] \in Payload /\ s[n].id \in 1 .. MaxJobs
<1>1. s[n] \in Payload
  BY ElementOfSeq, LenProperties
<1>. QED  BY <1>1 DEF Payload

\* Taking a readable job counts one run of it, and of no other payload.
LEMMA RunCounted ==
  ASSUME TypeOK, EachPlaced, RetriesCounted, UnpushedUntried,
         NEW w \in Workers, Pop(w), Attempted(Head(queue).id),
         UNCHANGED <<failed, pushed>>
  PROVE  /\ RetriesCounted' /\ UnpushedUntried'
         /\ Head(queue) \in Payload
         /\ tries'[Head(queue).id] = Head(queue).attempt + 1
         /\ Head(queue).attempt < MaxRuns
         /\ \A v \in Workers : pc[v] \in Holding => tries'[job[v].id] = tries[job[v].id]
<1>. DEFINE i == Head(queue).id
<1>1. /\ queue # <<>> /\ queue \in Seq(Payload) /\ queue' = Tail(queue)
      /\ tries' = [tries EXCEPT ![i] = tries[i] + 1]
  BY DEF Pop, TypeOK, Attempted
<1>2. /\ Head(queue) \in Payload /\ i \in 1 .. MaxJobs
      /\ tries[i] = Head(queue).attempt /\ Head(queue).attempt < MaxRuns
      /\ Head(queue).attempt \in Nat
  <2>1. Head(queue) \in Payload /\ 1 \in DOMAIN queue /\ queue[1] = Head(queue)
    BY <1>1, IdsTail
  <2>. QED  BY <2>1 DEF RetriesCounted, Payload
<1>3. /\ i \in IdsOf(queue) /\ i \notin IdsOf(failed) /\ i \notin HeldIds
      /\ i \in 1 .. pushed
  BY <1>1, IdsTail DEF EachPlaced, NothingForgotten, NothingDuplicated, Outstanding
<1>4. ASSUME NEW n \in DOMAIN queue'
      PROVE  /\ queue'[n].attempt = tries'[queue'[n].id]
             /\ queue'[n].attempt < MaxRuns
  <2>1. i \notin IdsOf(Tail(queue)) /\ n \in DOMAIN Tail(queue)
        /\ n + 1 \in DOMAIN queue /\ queue'[n] = queue[n + 1]
    BY <1>1, <1>4, IdsTail DEF EachPlaced, NothingDuplicated
  <2>2. queue'[n].id # i
    BY <1>1, <2>1 DEF IdsOf
  <2>3. queue[n + 1].attempt = tries[queue[n + 1].id] /\ queue[n + 1].attempt < MaxRuns
    BY <2>1 DEF RetriesCounted
  <2>4. queue[n + 1].id \in 1 .. MaxJobs
    BY <2>1, PayloadIds DEF TypeOK
  <2>. QED  BY <1>1, <2>1, <2>2, <2>3, <2>4 DEF TypeOK
<1>5. ASSUME NEW n \in DOMAIN failed, failed[n].json
      PROVE  tries'[failed[n].id] = MaxRuns
  <2>1. failed[n].id # i /\ tries[failed[n].id] = MaxRuns
    BY <1>3, <1>5 DEF IdsOf, RetriesCounted
  <2>2. failed[n].id \in 1 .. MaxJobs
    BY <1>5, PayloadIds DEF TypeOK
  <2>. QED  BY <1>1, <2>1, <2>2 DEF TypeOK
<1>6. \A k \in 1 .. MaxJobs : tries'[k] <= MaxRuns
  BY <1>1, <1>2, RunsAllowed DEF TypeOK, RetriesCounted
<1>7. UnpushedUntried'
  BY <1>1, <1>3 DEF UnpushedUntried, TypeOK
<1>8. tries'[i] = Head(queue).attempt + 1
  BY <1>1, <1>2 DEF TypeOK
<1>9. ASSUME NEW v \in Workers, pc[v] \in Holding
      PROVE  tries'[job[v].id] = tries[job[v].id]
  BY <1>1, <1>3, <1>9 DEF HeldIds, TypeOK, Payload
<1>10. RetriesCounted'
  BY <1>4, <1>5, <1>6 DEF RetriesCounted
<1>. QED  BY <1>2, <1>7, <1>8, <1>9, <1>10

\* Workers other than the one that moves keep what they hold.
LEMMA OthersHold ==
  ASSUME TypeOK, HeldJobs, NEW w \in Workers, NEW label, NEW j, Moves(w, label, j),
         \A v \in Workers : pc[v] \in Holding => tries'[job[v].id] = tries[job[v].id],
         HeldOK(w)'
  PROVE  HeldJobs'
<1>1. ASSUME NEW v \in Workers, v # w
      PROVE  HeldOK(v)'
  BY <1>1 DEF HeldJobs, HeldOK, Moves, TypeOK, Holding
<1>2. \A v \in Workers : HeldOK(v)'
  BY <1>1
<1>. QED  BY <1>2, Zenon DEF HeldJobs, HeldOK

LEMMA RetriesInit == Init => RetriesCounted /\ HeldJobs /\ UnpushedUntried
BY RunsAllowed DEF Init, RetriesCounted, HeldJobs, UnpushedUntried, InJob
\* A step that runs nothing and leaves both lists alone.
LEMMA CountsSame ==
  ASSUME RetriesCounted, UnpushedUntried, UNCHANGED <<queue, failed, tries, pushed>>
  PROVE  RetriesCounted' /\ UnpushedUntried'
BY DEF RetriesCounted, UnpushedUntried

\* Where a failed run leaves the worker.
LEMMA ThrowHolds ==
  ASSUME TypeOK, NEW w \in Workers, NEW j \in Payload, Throw(w, j), j.json,
         j.attempt < MaxRuns, tries'[j.id] = j.attempt + 1
  PROVE  /\ HeldOK(w)'
         /\ \E label, k : Moves(w, label, k)
<1>1. PICK label \in {"backoff", "lpushFailed"}, k \in Payload :
        /\ Moves(w, label, k)
        /\ k.id = j.id /\ k.json = j.json /\ k.attempt = j.attempt + 1
        /\ k.post = j.post
        /\ label = IF k.attempt < MaxRuns THEN "backoff" ELSE "lpushFailed"
  BY ThrowMoves
<1>2. pc'[w] = label /\ job'[w] = k
  BY <1>1 DEF Moves, TypeOK
<1>3. j.attempt \in Nat /\ MaxRuns \in Nat /\ label \notin InJob
  BY <1>1, RunsAllowed DEF Payload, InJob
<1>4. k.id = j.id /\ k.attempt = j.attempt + 1 /\ tries'[k.id] = k.attempt
  BY <1>1
<1>5. job'[w].json
  BY <1>1, <1>2, Zenon
<1>6. ASSUME label = "backoff"
      PROVE  HeldOK(w)'
  <2>1. k.attempt < MaxRuns
    BY <1>1, <1>6
  <2>2. pc'[w] = "backoff" /\ job'[w].attempt < MaxRuns
        /\ tries'[job'[w].id] = job'[w].attempt
    BY <1>2, <1>4, <1>6, <2>1
  <2>3. pc'[w] \notin InJob /\ pc'[w] # "lpushFailed"
    BY <2>2 DEF InJob
  <2>. QED  BY <1>5, <2>2, <2>3, Zenon DEF HeldOK
<1>7. ASSUME label = "lpushFailed"
      PROVE  HeldOK(w)'
  <2>1. tries'[k.id] = MaxRuns
    BY <1>1, <1>3, <1>4, <1>7
  <2>2. pc'[w] = "lpushFailed" /\ tries'[job'[w].id] = MaxRuns
    BY <1>2, <1>7, <2>1
  <2>3. pc'[w] \notin InJob /\ pc'[w] # "backoff"
    BY <2>2 DEF InJob
  <2>. QED  BY <2>2, <2>3, Zenon DEF HeldOK
<1>8. HeldOK(w)'
  BY <1>1, <1>6, <1>7
<1>. QED  BY <1>1, <1>8

\* Where the rest of processJob leaves the worker.
LEMMA ContinueHolds ==
  ASSUME TypeOK, HeldJobs, NEW w \in Workers, pc[w] \in InJob, NEW post,
         NEW label \in InJob \cup {"return"}, Continue(w, post, label), tries' = tries
  PROVE  /\ HeldOK(w)'
         /\ \E to, k : Moves(w, to, k)
<1>1. CASE label = "return"
  <2>1. Moves(w, LoopTop(w), NoJob) /\ pc'[w] \in {"brpop", "exited"}
    BY <1>1 DEF Continue, Finish, Release, Goto, Moves, LoopTop, TypeOK
  <2>2. HeldOK(w)'
    BY <2>1 DEF HeldOK, InJob
  <2>. QED  BY <2>1, <2>2
<1>2. CASE label # "return"
  <2>1. Moves(w, label, job[w]) /\ pc'[w] = label /\ job'[w] = job[w]
    BY <1>2 DEF Continue, Goto, Moves, TypeOK
  <2>2. HeldOK(w)'
    BY <1>2, <2>1 DEF HeldOK, HeldJobs, InJob
  <2>. QED  BY <2>1, <2>2
<1>. QED  BY <1>1, <1>2

LEMMA RetriesStep ==
  IInv /\ [Next]_vars => (RetriesCounted /\ HeldJobs /\ UnpushedUntried)'
<1>. SUFFICES ASSUME TypeOK, EachPlaced, RetriesCounted, HeldJobs,
                     UnpushedUntried, [Next]_vars
              PROVE  RetriesCounted' /\ HeldJobs' /\ UnpushedUntried'
  BY DEF IInv
<1>1. ASSUME BackendNext
      PROVE  RetriesCounted' /\ HeldJobs' /\ UnpushedUntried'
  <2>1. UNCHANGED <<pc, job, failed, tries>>
    BY <1>1 DEF BackendNext, SavePost, DeletePost, PushUnusable, workerVars, history
  <2>2. \E json \in BOOLEAN, p \in Posts \cup {NoPost, Null}, t \in BOOLEAN, c \in BOOLEAN :
          Push(json, p, t, c)
    BY <1>1 DEF BackendNext, SavePost, DeletePost, PushUnusable
  <2>3. PICK e \in Payload :
          e.id = pushed + 1 /\ e.attempt = 0 /\ queue' = Append(queue, e)
    BY <2>2, PushTyped
  <2>4. pushed' = pushed + 1 /\ pushed \in Nat /\ e.id \in 1 .. MaxJobs
    BY <2>2, <2>3 DEF Push, TypeOK, Payload
  <2>5. tries[e.id] = 0
    BY <2>3, <2>4 DEF UnpushedUntried
  <2>6. ASSUME NEW n \in DOMAIN queue'
        PROVE  queue'[n].attempt = tries[queue'[n].id] /\ queue'[n].attempt < MaxRuns
    <3>1. CASE n \in DOMAIN queue
      BY <2>3, <3>1, AppendProperties DEF TypeOK, RetriesCounted
    <3>2. CASE n \notin DOMAIN queue
      <4>1. queue'[n] = e
        BY <2>3, <2>6, <3>2, AppendProperties, LenProperties DEF TypeOK
      <4>. QED  BY <2>3, <2>5, <4>1, RunsAllowed
    <3>. QED  BY <3>1, <3>2
  <2>7. RetriesCounted'
    BY <2>1, <2>6 DEF RetriesCounted
  <2>8. UnpushedUntried' /\ HeldJobs'
    BY <2>1, <2>4 DEF UnpushedUntried, HeldJobs
  <2>. QED  BY <2>7, <2>8
<1>2. ASSUME NEW w \in Workers, Take(w)
      PROVE  RetriesCounted' /\ HeldJobs' /\ UnpushedUntried'
  <2>1. Pop(w) /\ UNCHANGED <<failed, pushed>>
    BY <1>2 DEF Take, TakeMalformed, TakeNull, TakeInvalid, TakeUntargeted, TakeJob, boundVars
  <2>2. CASE TakeMalformed(w)
    <3>1. Moves(w, "lpushFailed", Head(queue)) /\ tries' = tries /\ queue' = Tail(queue)
          /\ pc'[w] = "lpushFailed" /\ job'[w] = Head(queue) /\ ~Head(queue).json
      BY <2>2 DEF TakeMalformed, Goto, Moves, Pop, TypeOK, history
    <3>2. HeldOK(w)'
      BY <3>1 DEF HeldOK, InJob
    <3>3. RetriesCounted'
      BY <2>1, <3>1, IdsTail DEF RetriesCounted, Pop, TypeOK
    <3>. QED  BY <2>1, <3>1, <3>2, <3>3, OthersHold DEF UnpushedUntried
  <2>3. CASE TakeInvalid(w)
    <3>1. Throw(w, Head(queue)) /\ Attempted(Head(queue).id) /\ Head(queue).json
      BY <2>3 DEF TakeInvalid
    <3>. QED  BY <2>1, <3>1, RunCounted, ThrowHolds, OthersHold
  <2>4. CASE TakeUntargeted(w)
    <3>1. Moves(w, LoopTop(w), NoJob) /\ Attempted(Head(queue).id)
          /\ pc'[w] \in {"brpop", "exited"}
      BY <2>4 DEF TakeUntargeted, Finish, Release, Goto, Moves, LoopTop, TypeOK
    <3>2. HeldOK(w)'
      BY <3>1 DEF HeldOK, InJob
    <3>. QED  BY <2>1, <3>1, <3>2, RunCounted, OthersHold
  <2>5. CASE TakeJob(w)
    <3>1. Moves(w, "find", Head(queue)) /\ Attempted(Head(queue).id)
          /\ pc'[w] = "find" /\ job'[w] = Head(queue)
          /\ Head(queue).json /\ Head(queue).post \in Posts
      BY <2>5 DEF TakeJob, Goto, Moves, TypeOK
    <3>2. HeldOK(w)'
      BY <2>1, <3>1, RunCounted DEF HeldOK, InJob, Payload
    <3>. QED  BY <2>1, <3>1, <3>2, RunCounted, OthersHold
  <2>6. CASE TakeNull(w)
    <3>1. Moves(w, "pause", job[w]) /\ tries' = tries /\ queue' = Tail(queue) /\ pc'[w] = "pause"
      BY <2>6 DEF TakeNull, Goto, Moves, Pop, TypeOK
    <3>2. HeldOK(w)'
      BY <3>1 DEF HeldOK, InJob
    <3>3. RetriesCounted'
      BY <2>1, <3>1, IdsTail DEF RetriesCounted, Pop, TypeOK
    <3>. QED  BY <2>1, <3>1, <3>2, <3>3, OthersHold DEF UnpushedUntried
  <2>. QED  BY <1>2, <2>2, <2>3, <2>4, <2>5, <2>6 DEF Take
<1>3. ASSUME NEW w \in Workers, Process(w) \/ InvalidateFails(w)
      PROVE  RetriesCounted' /\ HeldJobs' /\ UnpushedUntried'
  <2>1. pc[w] \in InJob /\ job[w] \in Payload
    BY <1>3 DEF Process, FindPost, StoreTitle, StoreContent, InvalidateCache, JobError,
                InvalidateFails, InJob, TypeOK
  <2>2. UNCHANGED <<queue, failed, tries, pushed>>
    BY <1>3 DEF Process, FindPost, StoreTitle, StoreContent, InvalidateCache, JobError,
                InvalidateFails, redisVars, boundVars, history
  <2>3. \A post, stored : AfterTitle(w, post, stored) \in InJob \cup {"return"}
    BY <2>1 DEF AfterTitle, InJob, TypeOK, Payload
  <2>4. HeldOK(w)' /\ \E to, k : Moves(w, to, k)
    <3>1. CASE FindPost(w)
      BY <2>1, <2>2, <2>3, <3>1, ContinueHolds DEF FindPost, InJob
    <3>2. CASE StoreTitle(w)
      BY <2>1, <2>2, <2>3, <3>2, ContinueHolds DEF StoreTitle
    <3>3. CASE StoreContent(w)
      <4>1. Moves(w, "invalidate", job[w]) /\ pc'[w] = "invalidate" /\ job'[w] = job[w]
        BY <3>3 DEF StoreContent, Goto, Moves, TypeOK
      <4>2. HeldOK(w)'
        BY <2>1, <2>2, <4>1 DEF HeldOK, HeldJobs, InJob
      <4>. QED  BY <4>1, <4>2
    <3>4. CASE InvalidateCache(w) \/ InvalidateFails(w)
      <4>1. Moves(w, LoopTop(w), NoJob) /\ pc'[w] \in {"brpop", "exited"}
        BY <3>4 DEF InvalidateCache, InvalidateFails, Finish, Release, Goto, Moves,
                    LoopTop, TypeOK
      <4>2. HeldOK(w)'
        BY <4>1 DEF HeldOK, InJob
      <4>. QED  BY <4>1, <4>2
    <3>5. CASE JobError(w)
      <4>1. Throw(w, job[w])
        BY <3>5 DEF JobError
      <4>2. job[w].json /\ job[w].attempt < MaxRuns
            /\ tries'[job[w].id] = job[w].attempt + 1
        BY <2>1, <2>2 DEF HeldJobs
      <4>. QED  BY <2>1, <4>1, <4>2, ThrowHolds
    <3>. QED  BY <1>3, <3>1, <3>2, <3>3, <3>4, <3>5 DEF Process
  <2>. QED  BY <2>2, <2>4, CountsSame, OthersHold
<1>4. ASSUME NEW w \in Workers, Settle(w) \/ Restart(w) \/ Signal(w) \/ Exit(w)
      PROVE  RetriesCounted' /\ HeldJobs' /\ UnpushedUntried'
  <2>1. tries' = tries /\ pushed' = pushed
    BY <1>4 DEF Settle, Requeue, RequeueFails, Resume, PushFailed, PushFailedSwallowed,
                Restart, Signal, Exit, boundVars, history
  <2>2. HeldJobs'
    <3>1. CASE Signal(w) /\ pc' = pc
      BY <2>1, <3>1 DEF Signal, HeldJobs
    <3>2. CASE ~(Signal(w) /\ pc' = pc)
      <4>1. PICK label, k : label \in {"brpop", "pause", "exited"} /\ Moves(w, label, k)
        BY <1>4, <3>2 DEF Settle, Requeue, RequeueFails, Resume, PushFailed,
           PushFailedSwallowed, Restart, Signal, Exit, Release, Goto, Moves, LoopTop, TypeOK
      <4>2. pc'[w] = label
        BY <4>1 DEF Moves, TypeOK
      <4>3. HeldOK(w)'
        BY <4>1, <4>2 DEF HeldOK, InJob
      <4>. QED  BY <2>1, <4>1, <4>3, OthersHold
    <3>. QED  BY <3>1, <3>2
  <2>3. RetriesCounted'
    <3>1. CASE Requeue(w)
      <4>1. /\ queue' = Append(queue, job[w]) /\ failed' = failed
            /\ job[w].attempt < MaxRuns /\ tries[job[w].id] = job[w].attempt
            /\ job[w] \in Payload
        BY <3>1 DEF Requeue, HeldJobs, TypeOK
      <4>2. ASSUME NEW n \in DOMAIN queue', n \notin DOMAIN queue
            PROVE  queue'[n] = job[w]
        BY <4>1, <4>2, AppendProperties, LenProperties DEF TypeOK
      <4>3. \A n \in DOMAIN queue : queue'[n] = queue[n]
        BY <4>1, AppendProperties DEF TypeOK
      <4>. QED  BY <2>1, <4>1, <4>2, <4>3 DEF RetriesCounted
    <3>2. CASE PushFailed(w)
      <4>1. /\ failed' = Append(failed, job[w]) /\ queue' = queue
            /\ job[w].json => tries[job[w].id] = MaxRuns
            /\ job[w] \in Payload
        BY <3>2 DEF PushFailed, HeldJobs, TypeOK
      <4>2. ASSUME NEW n \in DOMAIN failed', n \notin DOMAIN failed
            PROVE  failed'[n] = job[w]
        BY <4>1, <4>2, AppendProperties, LenProperties DEF TypeOK
      <4>3. \A n \in DOMAIN failed : failed'[n] = failed[n]
        BY <4>1, AppendProperties DEF TypeOK
      <4>. QED  BY <2>1, <4>1, <4>2, <4>3 DEF RetriesCounted
    <3>3. CASE ~Requeue(w) /\ ~PushFailed(w)
      <4>1. queue' = queue /\ failed' = failed
        BY <1>4, <3>3 DEF Settle, RequeueFails, Resume, PushFailedSwallowed, Restart,
                          Signal, Exit, redisVars
      <4>. QED  BY <2>1, <4>1, CountsSame
    <3>. QED  BY <3>1, <3>2, <3>3
  <2>. QED  BY <2>1, <2>2, <2>3 DEF UnpushedUntried
<1>5. ASSUME NEW w \in Workers, ReplyLost(w)
      PROVE  RetriesCounted' /\ HeldJobs' /\ UnpushedUntried'
  <2>1. PICK label \in {"brpop", "pause"} :
          Moves(w, label, job[w]) /\ Pop(w) /\ UNCHANGED <<failed, pushed, tries>>
          /\ pc'[w] = label
    BY <1>5 DEF ReplyLost, Goto, Moves, TypeOK, boundVars
  <2>2. HeldOK(w)'
    BY <2>1 DEF HeldOK, InJob
  <2>3. RetriesCounted'
    BY <2>1, IdsTail DEF RetriesCounted, Pop, TypeOK
  <2>. QED  BY <2>1, <2>2, <2>3, OthersHold DEF UnpushedUntried
<1>6. ASSUME AskNext \/ UNCHANGED vars
      PROVE  RetriesCounted' /\ HeldJobs' /\ UnpushedUntried'
  <2>1. UNCHANGED <<queue, failed, pushed, tries, pc, job>>
    BY <1>6 DEF AskNext, AskReads, AskCaches, vars, redisVars, workerVars, boundVars, history
  <2>. QED  BY <2>1, CountsSame DEF HeldJobs
<1>7. ASSUME NEW w \in Workers, ReplyUnread(w)
      PROVE  RetriesCounted' /\ HeldJobs' /\ UnpushedUntried'
  <2>. DEFINE k == pushed + 1  r == tries[job[w].id]
  <2>1. pc[w] \in {"backoff", "lpushFailed"} /\ AddCopy(w) /\ UNCHANGED <<pc, job>>
    BY <1>7 DEF ReplyUnread, workerVars
  <2>2. pushed' = k /\ k \in 1 .. MaxJobs /\ tries' = [tries EXCEPT ![k] = r]
    BY <2>1, CopyTyped
  <2>3. PICK e \in Payload :
          /\ e.id = k /\ e.json = job[w].json /\ e.attempt = job[w].attempt
          /\ \/ pc[w] = "backoff" /\ queue' = Append(queue, e) /\ failed' = failed
             \/ pc[w] = "lpushFailed" /\ failed' = Append(failed, e) /\ queue' = queue
    BY <2>1, CopyTyped
  <2>4. /\ r \in Nat /\ r <= MaxRuns
        /\ pc[w] = "backoff" => e.json /\ e.attempt = r /\ e.attempt < MaxRuns
        /\ pc[w] = "lpushFailed" /\ e.json => r = MaxRuns
    BY <2>3 DEF HeldJobs, RetriesCounted, TypeOK, Payload
  <2>5. \A i \in 1 .. MaxJobs : tries'[i] = IF i = k THEN r ELSE tries[i]
    BY <2>2 DEF TypeOK
  <2>6. k \notin IdsOf(queue) /\ k \notin IdsOf(failed) /\ k \notin HeldIds
    BY DEF EachPlaced, NothingForgotten, Outstanding, TypeOK
  <2>7. ASSUME NEW n \in DOMAIN queue'
        PROVE  queue'[n].attempt = tries'[queue'[n].id] /\ queue'[n].attempt < MaxRuns
    <3>1. CASE n \in DOMAIN queue /\ queue'[n] = queue[n]
      <4>1. queue[n].id \in 1 .. MaxJobs /\ queue[n].id # k
        BY <2>6, <3>1, PayloadIds DEF TypeOK, IdsOf
      <4>. QED  BY <2>5, <3>1, <4>1 DEF RetriesCounted
    <3>2. CASE queue'[n] = e /\ pc[w] = "backoff"
      BY <2>2, <2>3, <2>4, <2>5, <3>2
    <3>3. \/ n \in DOMAIN queue /\ queue'[n] = queue[n]
          \/ queue'[n] = e /\ pc[w] = "backoff"
      <4>1. CASE queue' = queue
        BY <4>1
      <4>2. CASE pc[w] = "backoff" /\ queue' = Append(queue, e)
        BY <4>2, AppendProperties, LenProperties DEF TypeOK
      <4>. QED  BY <2>3, <4>1, <4>2
    <3>. QED  BY <3>1, <3>2, <3>3
  <2>8. ASSUME NEW n \in DOMAIN failed', failed'[n].json
        PROVE  tries'[failed'[n].id] = MaxRuns
    <3>1. CASE n \in DOMAIN failed /\ failed'[n] = failed[n]
      <4>1. failed[n].id \in 1 .. MaxJobs /\ failed[n].id # k
        BY <2>6, <3>1, PayloadIds DEF TypeOK, IdsOf
      <4>. QED  BY <2>5, <2>8, <3>1, <4>1 DEF RetriesCounted
    <3>2. CASE failed'[n] = e /\ pc[w] = "lpushFailed"
      BY <2>2, <2>3, <2>4, <2>5, <2>8, <3>2
    <3>3. \/ n \in DOMAIN failed /\ failed'[n] = failed[n]
          \/ failed'[n] = e /\ pc[w] = "lpushFailed"
      <4>1. CASE failed' = failed
        BY <4>1
      <4>2. CASE pc[w] = "lpushFailed" /\ failed' = Append(failed, e)
        BY <4>2, AppendProperties, LenProperties DEF TypeOK
      <4>. QED  BY <2>3, <4>1, <4>2
    <3>. QED  BY <3>1, <3>2, <3>3
  <2>9. RetriesCounted'
    BY <2>4, <2>5, <2>7, <2>8 DEF RetriesCounted
  <2>10. UnpushedUntried'
    BY <2>2, <2>5 DEF UnpushedUntried, TypeOK
  <2>11. ASSUME NEW v \in Workers, pc[v] \in Holding
         PROVE  tries'[job[v].id] = tries[job[v].id]
    <3>1. job[v].id \in 1 .. MaxJobs /\ job[v].id # k
      BY <2>6, <2>11 DEF HeldIds, TypeOK, Payload
    <3>. QED  BY <2>5, <3>1
  <2>12. HeldJobs'
    BY <2>1, <2>11 DEF HeldJobs, Holding
  <2>. QED  BY <2>9, <2>10, <2>12
<1>. QED  BY <1>1, <1>2, <1>3, <1>4, <1>5, <1>6, <1>7
          DEF Next, WorkerNext, Step, Fault

-----------------------------------------------------------------------------
(* What a loss costs.                                                      *)

\* Fault budgets are only spent, and a worker that is stopping has had a signal.
FaultsSpent ==
  /\ \A k \in FaultKinds : faults[k] <= FaultBudget[k]
  /\ \A w \in Workers : stopping[w] => faults["signal"] < FaultBudget["signal"]
  /\ LossNeedsFault

\* A fault of kind k leaves less of its budget and all of the others'.
LEMMA SpendLess ==
  ASSUME TypeOK, FaultsSpent, NEW k \in FaultKinds, Spend(k)
  PROVE  /\ \A m \in FaultKinds : faults'[m] <= faults[m]
         /\ faults'[k] < FaultBudget[k]
<1>1. /\ faults \in [FaultKinds -> Nat] /\ FaultBudget \in [FaultKinds -> Nat]
      /\ faults[k] <= FaultBudget[k]
  BY WorkerAssumption DEF TypeOK, FaultsSpent
<1>2. \A m \in FaultKinds : faults'[m] = IF m = k THEN faults[m] - 1 ELSE faults[m]
  BY <1>1 DEF Spend
<1>3. \A m \in FaultKinds : faults[m] \in Int /\ FaultBudget[m] \in Int
  BY <1>1
<1>. QED  BY <1>1, <1>2, <1>3

LEMMA FaultsSame ==
  ASSUME FaultsSpent, UNCHANGED <<faults, stopping, lost>>, nulls \subseteq nulls'
  PROVE  FaultsSpent'
BY DEF FaultsSpent, LossNeedsFault

\* No budget grows, no worker starts to stop, and nothing is lost but for a fault.
LEMMA FaultsLess ==
  ASSUME TypeOK, TypeOK', FaultsSpent, \A m \in FaultKinds : faults'[m] <= faults[m],
         \A w \in Workers : stopping'[w] => stopping[w], nulls \subseteq nulls',
         \/ lost' = lost
         \/ \E k \in {"redis", "signal", "kill"} : faults'[k] < FaultBudget[k]
  PROVE  FaultsSpent'
<1>1. /\ faults \in [FaultKinds -> Nat] /\ faults' \in [FaultKinds -> Nat]
      /\ FaultBudget \in [FaultKinds -> Nat]
      /\ {"redis", "signal", "kill"} \subseteq FaultKinds
  BY WorkerAssumption DEF TypeOK, FaultKinds
<1>2. \A m \in FaultKinds : faults'[m] <= FaultBudget[m]
                            /\ (faults[m] < FaultBudget[m] => faults'[m] < FaultBudget[m])
  BY <1>1 DEF FaultsSpent
<1>. QED  BY <1>1, <1>2 DEF FaultsSpent, LossNeedsFault

LEMMA FaultsInit == Init => FaultsSpent
BY WorkerAssumption DEF Init, FaultsSpent, LossNeedsFault

\* Only the backend pushes a null, and puts it on record.
LEMMA NullsGrow == ASSUME [Next]_vars PROVE nulls \subseteq nulls'
<1>1. CASE BackendNext
  BY <1>1 DEF BackendNext, SavePost, DeletePost, PushUnusable, history
<1>2. CASE AskNext \/ UNCHANGED vars
  BY <1>2 DEF AskNext, AskReads, AskCaches, vars, history
<1>3. ASSUME NEW w \in Workers, Step(w) PROVE nulls' = nulls
  BY <1>3 DEF Step, Take, TakeMalformed, TakeNull, TakeInvalid, TakeUntargeted, TakeJob,
     Process, FindPost, StoreTitle, StoreContent, InvalidateCache, JobError, Settle,
     Requeue, RequeueFails, Resume, PushFailed, PushFailedSwallowed, Restart, history
<1>4. ASSUME NEW w \in Workers, Fault(w) PROVE nulls' = nulls
  BY <1>4 DEF Fault, InvalidateFails, ReplyUnread, ReplyLost, Signal, Exit, history
<1>. QED  BY <1>1, <1>2, <1>3, <1>4 DEF Next, WorkerNext

LEMMA FaultsStep ==
  TypeOK /\ TypeOK' /\ NullsRecorded /\ FaultsSpent /\ [Next]_vars => FaultsSpent'
<1>. SUFFICES ASSUME TypeOK, TypeOK', NullsRecorded, FaultsSpent, [Next]_vars
              PROVE  FaultsSpent'
  OBVIOUS
<1>0. nulls \subseteq nulls'
  BY NullsGrow
<1>1. CASE BackendNext \/ AskNext \/ UNCHANGED vars
  <2>1. UNCHANGED <<faults, stopping, lost>>
    BY <1>1 DEF BackendNext, SavePost, DeletePost, PushUnusable, AskNext, AskReads,
                AskCaches, vars, workerVars, history
  <2>. QED  BY <1>0, <2>1, FaultsSame
<1>2. ASSUME NEW w \in Workers, Take(w) PROVE FaultsSpent'
  <2>1. CASE ~TakeNull(w)
    <3>1. UNCHANGED <<faults, stopping, lost>>
      BY <1>2, <2>1 DEF Take, TakeMalformed, TakeInvalid, TakeUntargeted, TakeJob,
                        workerVars, history
    <3>. QED  BY <1>0, <3>1, FaultsSame
  <2>2. CASE TakeNull(w)
    <3>1. /\ queue # <<>> /\ queue \in Seq(Payload) /\ Head(queue).post = Null
          /\ UNCHANGED <<faults, stopping, nulls>> /\ lost' = lost \cup {Head(queue).id}
      BY <2>2 DEF TakeNull, Pop, TypeOK
    <3>2. Head(queue).id \in nulls
      BY <3>1, IdsTail DEF NullsRecorded
    <3>. QED  BY <3>1, <3>2 DEF FaultsSpent, LossNeedsFault
  <2>. QED  BY <2>1, <2>2
<1>3. ASSUME NEW w \in Workers, Process(w) \/ InvalidateFails(w) PROVE FaultsSpent'
  <2>1. UNCHANGED <<stopping, lost>>
    BY <1>3 DEF Process, FindPost, StoreTitle, StoreContent, InvalidateCache, JobError,
                InvalidateFails, history
  <2>2. faults' = faults \/ \E k \in FaultKinds : Spend(k)
    BY <1>3 DEF Process, FindPost, StoreTitle, StoreContent, InvalidateCache, JobError,
                InvalidateFails, FaultKinds
  <2>3. CASE faults' = faults
    BY <2>1, <2>3, <1>0, FaultsSame
  <2>4. CASE \E k \in FaultKinds : Spend(k)
    BY <2>1, <2>4, SpendLess, <1>0, FaultsLess
  <2>. QED  BY <2>2, <2>3, <2>4
<1>4. ASSUME NEW w \in Workers, Requeue(w) \/ PushFailed(w) \/ Resume(w) \/ Restart(w)
      PROVE  FaultsSpent'
  <2>1. faults' = faults /\ lost' = lost
    BY <1>4 DEF Requeue, PushFailed, Resume, Restart, history
  <2>2. \A v \in Workers : stopping'[v] => stopping[v]
    BY <1>4 DEF Requeue, PushFailed, Resume, Restart, TypeOK
  <2>3. \A m \in FaultKinds : faults'[m] <= faults[m]
    BY <2>1 DEF TypeOK
  <2>. QED  BY <2>1, <2>2, <2>3, <1>0, FaultsLess
<1>5. ASSUME NEW w \in Workers,
             RequeueFails(w) \/ PushFailedSwallowed(w) \/ ReplyLost(w) \/ Exit(w)
      PROVE  FaultsSpent'
  <2>1. stopping' = stopping
    BY <1>5 DEF RequeueFails, PushFailedSwallowed, ReplyLost, Exit
  <2>2. \/ Spend("redis") \/ Spend("kill")
        \/ stopping[w] /\ faults' = faults
    BY <1>5 DEF RequeueFails, PushFailedSwallowed, ReplyLost, Exit, RedisRejects
  <2>3. CASE Spend("redis") \/ Spend("kill")
    BY <2>1, <2>3, SpendLess, <1>0, FaultsLess DEF FaultKinds
  <2>4. CASE stopping[w] /\ faults' = faults
    <3>1. faults'["signal"] < FaultBudget["signal"] /\ \A m \in FaultKinds : faults'[m] <= faults[m]
      BY <2>4 DEF FaultsSpent, TypeOK
    <3>. QED  BY <2>1, <3>1, <1>0, FaultsLess
  <2>. QED  BY <2>2, <2>3, <2>4
<1>6. ASSUME NEW w \in Workers, Signal(w) PROVE FaultsSpent'
  <2>1. Spend("signal") /\ lost' = lost
    BY <1>6 DEF Signal, history
  <2>2. /\ faults'["signal"] < FaultBudget["signal"]
        /\ \A m \in FaultKinds : faults'[m] <= faults[m]
    BY <2>1, SpendLess DEF FaultKinds
  <2>. QED  BY SMTT(20), <1>0, <2>1, <2>2, WorkerAssumption
            DEF FaultsSpent, LossNeedsFault, TypeOK
<1>7. ASSUME NEW w \in Workers, ReplyUnread(w) PROVE FaultsSpent'
  <2>1. Spend("reply") /\ lost' = lost /\ stopping' = stopping
    BY <1>7 DEF ReplyUnread, workerVars
  <2>2. \A m \in FaultKinds : faults'[m] <= faults[m]
    BY <2>1, SpendLess DEF FaultKinds
  <2>. QED  BY <1>0, <2>1, <2>2, FaultsLess
<1>. QED  BY <1>1, <1>2, <1>3, <1>4, <1>5, <1>6, <1>7
          DEF Next, WorkerNext, Step, Fault, Settle

-----------------------------------------------------------------------------
(* The payload null.                                                       *)

LEMMA NullsInit == Init => NullsRecorded
BY DEF Init, NullsRecorded

\* The queue loses its head or gains an element, and no null that is not on record.
NullsQueue(s) == \A n \in DOMAIN s : s[n].post = Null => s[n].id \in nulls

LEMMA NullsAppend ==
  ASSUME TypeOK, NullsRecorded, NEW e \in Payload, queue' = Append(queue, e),
         nulls \subseteq nulls', e.post = Null => e.id \in nulls'
  PROVE  NullsQueue(queue)'
<1>1. ASSUME NEW n \in DOMAIN queue', queue'[n].post = Null PROVE queue'[n].id \in nulls'
  <2>1. (n \in DOMAIN queue /\ queue'[n] = queue[n]) \/ queue'[n] = e
    BY AppendProperties, LenProperties DEF TypeOK
  <2>. QED  BY <1>1, <2>1 DEF NullsRecorded
<1>. QED  BY <1>1 DEF NullsQueue

LEMMA NullsTail ==
  ASSUME TypeOK, NullsRecorded, NEW w \in Workers, Pop(w), nulls' = nulls
  PROVE  NullsQueue(queue)'
<1>1. queue # <<>> /\ queue \in Seq(Payload) /\ queue' = Tail(queue)
  BY DEF Pop, TypeOK
<1>. QED  BY <1>1, IdsTail DEF NullsQueue, NullsRecorded

LEMMA NullsStep ==
  TypeOK /\ HeldJobs /\ NullsRecorded /\ [Next]_vars => NullsRecorded'
<1>. SUFFICES ASSUME TypeOK, HeldJobs, NullsRecorded, [Next]_vars PROVE NullsRecorded'
  OBVIOUS
<1>0. /\ nulls \subseteq nulls' /\ Null \notin Posts /\ Null # NoPost
      /\ \A w \in Workers : job[w] \in Payload
      /\ \A w \in Workers : pc[w] \in InJob => job[w].post \in Posts
  BY NullsGrow, WorkerAssumption DEF TypeOK, HeldJobs
<1>1. ASSUME BackendNext PROVE NullsRecorded'
  <2>1. UNCHANGED <<pc, job>>
    BY <1>1 DEF BackendNext, SavePost, DeletePost, PushUnusable, workerVars
  <2>2. \E json \in BOOLEAN, p \in Posts \cup {NoPost, Null}, t \in BOOLEAN, c \in BOOLEAN :
          /\ Push(json, p, t, c)
          /\ p = Null => pushed + 1 \in nulls'
    <3>1. ASSUME NEW p \in Posts, SavePost(p) \/ DeletePost(p)
          PROVE  \E t \in BOOLEAN, c \in BOOLEAN : Push(TRUE, p, t, c)
      BY <3>1 DEF SavePost, DeletePost
    <3>2. CASE \E p \in Posts : SavePost(p) \/ DeletePost(p)
      BY <1>0, <3>1, <3>2
    <3>3. CASE PushUnusable
      <4>1. CASE \E json \in BOOLEAN : Push(json, NoPost, TRUE, TRUE)
        <5>1. PICK json \in BOOLEAN : Push(json, NoPost, TRUE, TRUE)
          BY <4>1
        <5>2. NoPost = Null => pushed + 1 \in nulls'
          BY <1>0
        <5>. WITNESS json \in BOOLEAN, NoPost \in Posts \cup {NoPost, Null},
                     TRUE \in BOOLEAN, TRUE \in BOOLEAN
        <5>. QED  BY <5>1, <5>2
      <4>2. CASE Push(TRUE, Null, FALSE, FALSE) /\ nulls' = nulls \cup {pushed + 1}
        BY <4>2
      <4>3. CASE \E p \in Posts : Push(TRUE, p, FALSE, FALSE)
        BY <1>0, <4>3
      <4>4. \/ \E json \in BOOLEAN : Push(json, NoPost, TRUE, TRUE)
            \/ Push(TRUE, Null, FALSE, FALSE) /\ nulls' = nulls \cup {pushed + 1}
            \/ \E p \in Posts : Push(TRUE, p, FALSE, FALSE)
        BY <3>3 DEF PushUnusable
      <4>. QED  BY <4>1, <4>2, <4>3, <4>4
    <3>. QED  BY <1>1, <3>2, <3>3 DEF BackendNext
  <2>3. PICK json \in BOOLEAN, p \in Posts \cup {NoPost, Null}, t \in BOOLEAN, c \in BOOLEAN :
          /\ Push(json, p, t, c)
          /\ p = Null => pushed + 1 \in nulls'
    BY <2>2
  <2>. DEFINE e == [id |-> pushed + 1, json |-> json, post |-> p,
                    title |-> t, content |-> c, attempt |-> 0]
  <2>4. e \in Payload /\ queue' = Append(queue, e) /\ e.post = p /\ e.id = pushed + 1
    <3>1. pushed + 1 \in 1 .. MaxJobs
      BY <2>3, WorkerAssumption DEF Push, TypeOK
    <3>. QED  BY <2>3, <3>1 DEF Push, Payload
  <2>. HIDE DEF e
  <2>5. NullsQueue(queue)'
    BY <1>0, <2>3, <2>4, NullsAppend
  <2>. QED  BY <2>1, <2>5 DEF NullsRecorded, NullsQueue
<1>2. ASSUME NEW w \in Workers, NEW label, NEW k, Moves(w, label, k), NullsQueue(queue)',
             label = "backoff" => k.post # Null
      PROVE  NullsRecorded'
  <2>1. ASSUME NEW v \in Workers, pc'[v] = "backoff" PROVE job'[v].post # Null
    BY <1>2, <2>1 DEF Moves, TypeOK, NullsRecorded
  <2>. QED  BY <1>2, <2>1 DEF NullsRecorded, NullsQueue
<1>3. ASSUME queue' = queue PROVE NullsQueue(queue)'
  BY <1>0, <1>3 DEF NullsQueue, NullsRecorded
<1>4. ASSUME NEW w \in Workers, Take(w) PROVE NullsRecorded'
  <2>1. Pop(w) /\ nulls' = nulls
    BY <1>4 DEF Take, TakeMalformed, TakeNull, TakeInvalid, TakeUntargeted, TakeJob, history
  <2>2. NullsQueue(queue)'
    BY <2>1, NullsTail
  <2>3. CASE TakeInvalid(w)
    <3>1. Throw(w, Head(queue)) /\ Head(queue).post = NoPost /\ Head(queue) \in Payload
      BY <2>1, <2>3, IdsTail DEF TakeInvalid, Pop, TypeOK
    <3>2. PICK label, k : Moves(w, label, k) /\ k.post = NoPost
      BY <3>1, ThrowMoves
    <3>. QED  BY <1>0, <1>2, <2>2, <3>2
  <2>4. CASE ~TakeInvalid(w)
    <3>1. \E label, k : label # "backoff" /\ Moves(w, label, k)
      BY <1>4, <2>4 DEF Take, TakeMalformed, TakeNull, TakeUntargeted, TakeJob, Finish,
                        Release, Goto, LoopTop, Moves, TypeOK
    <3>. QED  BY <1>2, <2>2, <3>1
  <2>. QED  BY <2>3, <2>4
<1>5. ASSUME NEW w \in Workers, Process(w) \/ InvalidateFails(w) PROVE NullsRecorded'
  <2>1. NullsQueue(queue)'
    BY <1>3, <1>5 DEF Process, FindPost, StoreTitle, StoreContent, InvalidateCache,
                      JobError, InvalidateFails, redisVars
  <2>2. \E label, k : Moves(w, label, k) /\ (label = "backoff" => k.post # Null)
    <3>1. CASE FindPost(w) \/ StoreTitle(w)
      <4>1. PICK post, label : Continue(w, post, label) /\ label # "backoff"
        BY <3>1 DEF FindPost, StoreTitle, AfterTitle, TypeOK, Payload
      <4>. QED  BY <4>1 DEF Continue, Finish, Release, Goto, LoopTop, Moves, TypeOK
    <3>2. CASE StoreContent(w) \/ InvalidateCache(w) \/ InvalidateFails(w)
      BY <3>2 DEF StoreContent, InvalidateCache, InvalidateFails, Finish, Release, Goto,
                  LoopTop, Moves, TypeOK
    <3>3. CASE JobError(w)
      <4>1. Throw(w, job[w]) /\ pc[w] \in InJob
        BY <3>3 DEF JobError, InJob
      <4>2. PICK label, k : Moves(w, label, k) /\ k.post = job[w].post
        BY <1>0, <4>1, ThrowMoves
      <4>. QED  BY <1>0, <4>1, <4>2
    <3>. QED  BY <1>5, <3>1, <3>2, <3>3 DEF Process
  <2>. QED  BY <1>2, <2>1, <2>2
<1>6. ASSUME NEW w \in Workers, Settle(w) \/ Restart(w) PROVE NullsRecorded'
  <2>1. NullsQueue(queue)'
    <3>1. CASE Requeue(w)
      <4>1. job[w].post # Null /\ queue' = Append(queue, job[w])
        BY <3>1 DEF Requeue, NullsRecorded
      <4>. QED  BY <1>0, <4>1, NullsAppend
    <3>2. CASE ~Requeue(w)
      BY <1>3, <1>6, <3>2 DEF Settle, RequeueFails, Resume, PushFailed, PushFailedSwallowed,
                              Restart, redisVars
    <3>. QED  BY <3>1, <3>2
  <2>2. \E label, k : Moves(w, label, k) /\ label # "backoff"
    BY <1>6 DEF Settle, Requeue, RequeueFails, Resume, PushFailed, PushFailedSwallowed,
                Restart, Release, Goto, LoopTop, Moves, TypeOK
  <2>. QED  BY <1>2, <2>1, <2>2
<1>7. ASSUME NEW w \in Workers, ReplyUnread(w) PROVE NullsRecorded'
  <2>1. pc[w] \in {"backoff", "lpushFailed"} /\ AddCopy(w) /\ UNCHANGED <<pc, job>>
    BY <1>7 DEF ReplyUnread, workerVars
  <2>2. PICK e \in Payload :
          /\ e.post = job[w].post
          /\ \/ pc[w] = "backoff" /\ queue' = Append(queue, e)
             \/ queue' = queue
    BY <2>1, CopyTyped
  <2>3. NullsQueue(queue)'
    BY <1>0, <1>3, <2>2, NullsAppend DEF NullsRecorded
  <2>. QED  BY <2>1, <2>3 DEF NullsRecorded, NullsQueue
<1>8. ASSUME NEW w \in Workers, ReplyLost(w) \/ Signal(w) \/ Exit(w) PROVE NullsRecorded'
  <2>1. NullsQueue(queue)'
    <3>1. CASE ReplyLost(w)
      BY <3>1, NullsTail DEF ReplyLost
    <3>2. CASE Signal(w) \/ Exit(w)
      BY <1>3, <3>2 DEF Signal, Exit, redisVars
    <3>. QED  BY <1>8, <3>1, <3>2
  <2>2. (\E label, k : Moves(w, label, k) /\ label # "backoff") \/ UNCHANGED <<pc, job>>
    BY <1>8 DEF ReplyLost, Signal, Exit, Release, Goto, Moves, TypeOK
  <2>3. CASE UNCHANGED <<pc, job>>
    BY <2>1, <2>3 DEF NullsRecorded, NullsQueue
  <2>. QED  BY <1>2, <2>1, <2>2, <2>3
<1>9. CASE AskNext \/ UNCHANGED vars
  <2>1. UNCHANGED <<queue, pc, job>>
    BY <1>9 DEF AskNext, AskReads, AskCaches, vars, redisVars, workerVars
  <2>. QED  BY <1>0, <2>1 DEF NullsRecorded
<1>. QED  BY <1>1, <1>4, <1>5, <1>6, <1>7, <1>8, <1>9 DEF Next, WorkerNext, Step, Fault

-----------------------------------------------------------------------------
(* Copies of a payload.                                                    *)

Repeated == {i \in 1 .. pushed : copyOf[i] # i}

\* Copies are counted, and what is not pushed yet repeats nothing.
CopiesKnown ==
  /\ IsFiniteSet(Repeated)
  /\ Cardinality(Repeated) = FaultBudget["reply"] - faults["reply"]
  /\ \A i \in 1 .. MaxJobs : copyOf[i] <= i /\ (i > pushed => copyOf[i] = i)

LEMMA CopiesInit == Init => CopiesKnown
<1>. SUFFICES ASSUME Init PROVE CopiesKnown
  OBVIOUS
<1>1. Repeated = {} /\ FaultBudget["reply"] \in Nat
  BY WorkerAssumption DEF Init, Repeated, FaultKinds
<1>. QED  BY <1>1, FS_EmptySet DEF Init, CopiesKnown

\* No element is repeated, and the new one, if there is one, repeats none.
LEMMA CopiesSame ==
  ASSUME TypeOK, CopiesKnown, copyOf' = copyOf, faults'["reply"] = faults["reply"],
         pushed' = pushed \/ (pushed' = pushed + 1 /\ pushed < MaxJobs)
  PROVE  CopiesKnown'
<1>1. pushed \in Nat /\ MaxJobs \in Nat
  BY WorkerAssumption DEF TypeOK
<1>2. Repeated' = Repeated
  BY <1>1 DEF Repeated, CopiesKnown
<1>. QED  BY <1>1, <1>2 DEF CopiesKnown

LEMMA CopiesStep == TypeOK /\ HeldIds \subseteq 1 .. pushed /\ CopiesKnown /\ [Next]_vars
                      => CopiesKnown'
<1>. SUFFICES ASSUME TypeOK, HeldIds \subseteq 1 .. pushed, CopiesKnown, [Next]_vars
              PROVE  CopiesKnown'
  OBVIOUS
<1>1. CASE BackendNext
  <2>1. copyOf' = copyOf /\ faults' = faults
    BY <1>1 DEF BackendNext, SavePost, DeletePost, PushUnusable, history
  <2>2. pushed' = pushed + 1 /\ pushed < MaxJobs
    BY <1>1 DEF BackendNext, SavePost, DeletePost, PushUnusable, Push
  <2>. QED  BY <2>1, <2>2, CopiesSame
<1>2. CASE AskNext \/ UNCHANGED vars
  <2>1. UNCHANGED <<copyOf, faults, pushed>>
    BY <1>2 DEF AskNext, AskReads, AskCaches, vars, boundVars, history
  <2>. QED  BY <2>1, CopiesSame
<1>3. ASSUME NEW w \in Workers, Step(w) \/ Fault(w), ~ReplyUnread(w)
      PROVE  CopiesKnown'
  <2>1. UNCHANGED <<copyOf, pushed>>
    BY <1>3 DEF Step, Take, TakeMalformed, TakeNull, TakeInvalid, TakeUntargeted, TakeJob,
     Process, FindPost, StoreTitle, StoreContent, InvalidateCache, JobError, Settle,
     Requeue, RequeueFails, Resume, PushFailed, PushFailedSwallowed, Restart,
     Fault, InvalidateFails, ReplyLost, Signal, Exit, boundVars, history
  <2>2. faults' = faults \/ \E k \in FaultKinds \ {"reply"} : Spend(k)
    BY <1>3 DEF Step, Take, TakeMalformed, TakeNull, TakeInvalid, TakeUntargeted, TakeJob,
     Process, FindPost, StoreTitle, StoreContent, InvalidateCache, JobError, Settle,
     Requeue, RequeueFails, Resume, PushFailed, PushFailedSwallowed, Restart,
     RedisRejects, Fault, InvalidateFails, ReplyLost, Signal, Exit, FaultKinds
  <2>3. faults'["reply"] = faults["reply"]
    BY <2>2 DEF Spend, TypeOK, FaultKinds
  <2>. QED  BY <2>1, <2>3, CopiesSame
<1>4. ASSUME NEW w \in Workers, ReplyUnread(w) PROVE CopiesKnown'
  <2>. DEFINE k == pushed + 1  c == copyOf[job[w].id]
  <2>1. /\ pc[w] \in {"backoff", "lpushFailed"} /\ AddCopy(w)
        /\ faults'["reply"] = faults["reply"] - 1
        /\ faults["reply"] \in Nat /\ FaultBudget["reply"] \in Nat
    BY <1>4, WorkerAssumption DEF ReplyUnread, Spend, TypeOK, FaultKinds
  <2>2. pushed' = k /\ k \in 1 .. MaxJobs /\ copyOf' = [copyOf EXCEPT ![k] = c]
    BY <2>1, CopyTyped
  <2>3. job[w].id \in 1 .. pushed /\ c <= job[w].id /\ c \in Nat /\ pushed \in Nat
    <3>1. job[w].id \in HeldIds
      BY <2>1 DEF HeldIds, Holding
    <3>2. /\ pushed \in Nat /\ job[w].id \in 1 .. MaxJobs
          /\ copyOf \in [1 .. MaxJobs -> 1 .. MaxJobs]
      <4>1. job[w] \in Payload /\ pushed \in 0 .. MaxJobs
        BY DEF TypeOK
      <4>2. copyOf \in [1 .. MaxJobs -> 1 .. MaxJobs]
        BY DEF TypeOK
      <4>. QED  BY <4>1, <4>2 DEF Payload
    <3>. QED  BY <3>1, <3>2 DEF CopiesKnown
  <2>4. c < k /\ \A i \in 1 .. MaxJobs : copyOf'[i] = IF i = k THEN c ELSE copyOf[i]
    BY <2>2, <2>3 DEF TypeOK
  <2>5. Repeated' = Repeated \cup {k} /\ k \notin Repeated
    BY <2>2, <2>3, <2>4 DEF Repeated
  <2>6. IsFiniteSet(Repeated') /\ Cardinality(Repeated') = Cardinality(Repeated) + 1
    BY <2>5, FS_AddElement DEF CopiesKnown
  <2>7. \A i \in 1 .. MaxJobs : copyOf'[i] <= i /\ (i > pushed' => copyOf'[i] = i)
    BY <2>2, <2>3, <2>4 DEF CopiesKnown
  <2>. QED  BY <2>1, <2>6, <2>7 DEF CopiesKnown
<1>. QED  BY <1>1, <1>2, <1>3, <1>4 DEF Next, WorkerNext

-----------------------------------------------------------------------------
(* Theorems.                                                               *)

\* IInv is inductive: no step of a worker, of the backend, of an ask or of a
\* fault leads out of it.
THEOREM Inductive == Spec => []IInv
<1>1. Init => IInv
  BY TypeInit, ConservationInit, RetriesInit DEF IInv
<1>2. IInv /\ [Next]_vars => IInv'
  BY TypeStep, ConservationStep, RetriesStep DEF IInv
<1>. QED  BY <1>1, <1>2, PTL DEF Spec

\* Every variable of the worker model keeps its type.
THEOREM TypeCorrect == Spec => []TypeOK
<1>1. IInv => TypeOK
  BY DEF IInv
<1>. QED  BY <1>1, Inductive, PTL

\* Whatever fails and whoever stops, every element pushed to Redis is in exactly
\* one place (handlePayload and the exits account for each once), and a payload has
\* one element more for each LPUSH that ioredis sent twice, and none besides.
THEOREM JobsConserved == Spec => []JobConservation
<1>1. IInv => TypeOK /\ EachPlaced /\ HeldIds \subseteq 1 .. pushed
  BY DEF IInv, EachPlaced, NothingForgotten, Outstanding
<1>2. TypeOK /\ HeldIds \subseteq 1 .. pushed /\ CopiesKnown /\ [Next]_vars => CopiesKnown'
  BY CopiesStep
<1>3. EachPlaced /\ CopiesKnown => JobConservation
  BY DEF JobConservation, CopiesCounted, CopiesKnown, Repeated
<1>. QED  BY <1>1, <1>2, <1>3, CopiesInit, Inductive, PTL DEF Spec

\* The attempt field counts the runs, so that a readable job is in the failed
\* queue only after MaxRuns runs and never runs more often.
THEOREM RetriesBounded == Spec => []RetriesCounted
<1>1. IInv => RetriesCounted
  BY DEF IInv
<1>. QED  BY <1>1, Inductive, PTL

\* Only Redis, a signal or a kill can make a job disappear, unless its payload is
\* null: no error of the embedding service, of the database or of the cache deletion
\* does, however many workers and jobs there are.
THEOREM LossesExplained == Spec => []LossNeedsFault
<1>1. IInv => TypeOK /\ HeldJobs
  BY DEF IInv
<1>2. TypeOK /\ HeldJobs /\ NullsRecorded /\ [Next]_vars => NullsRecorded'
  BY NullsStep
<1>3. TypeOK /\ TypeOK' /\ NullsRecorded /\ FaultsSpent /\ [Next]_vars => FaultsSpent'
  BY FaultsStep
<1>4. FaultsSpent => LossNeedsFault
  BY DEF FaultsSpent
<1>. QED  BY <1>1, <1>2, <1>3, <1>4, NullsInit, FaultsInit, Inductive, PTL DEF Spec

-----------------------------------------------------------------------------
(***************************************************************************)
(* EmbeddingWorker implements JobLifecycle: every step of the backend, of  *)
(* a worker or of a fault is one step of one job, or none.                 *)
(***************************************************************************)

\* What the retry count does not say: a payload that cannot be read has not
\* run, and one that waits for its retry has.
Unread ==
  /\ \A n \in DOMAIN queue : queue[n].json \/ queue[n].attempt = 0
  /\ \A w \in Workers : pc[w] = "backoff" => job[w].attempt > 0
  /\ \A w \in Workers : pc[w] = "lpushFailed" => job[w].json \/ tries[job[w].id] = 0

LifeInv == IInv /\ Unread

-----------------------------------------------------------------------------
(* The ways in which a step moves one payload.                             *)

Pushes == \E e \in Payload :
  /\ e.id = pushed + 1 /\ e.attempt = 0
  /\ queue' = Append(queue, e) /\ pushed' = pushed + 1
  /\ UNCHANGED <<pc, job, failed, done, lost, tries>>

\* The head of the queue is kept: to fail unread, or to run.
Keeps(w) == \E label \in Holding, k \in Payload : LET h == Head(queue) IN
  /\ Pop(w) /\ Moves(w, label, k) /\ k.id = h.id /\ k.json = h.json
  /\ UNCHANGED <<pushed, failed, done, lost>>
  /\ \/ ~h.json /\ label = "lpushFailed" /\ tries' = tries
     \/ h.json /\ Attempted(h.id) /\ (label = "backoff" => k.attempt > 0)

\* The head of the queue is done at once, or its reply is lost.
Drops(w) == \E label \in PcValue \ Holding, k \in Payload : LET h == Head(queue) IN
  /\ Pop(w) /\ Moves(w, label, k) /\ UNCHANGED <<pushed, failed>>
  /\ \/ h.json /\ Attempted(h.id) /\ done' = done \cup {h.id} /\ lost' = lost
     \/ tries' = tries /\ lost' = lost \cup {h.id} /\ done' = done

\* A run goes on, or ends in an error.
GoesOn(w) == \E label \in Holding, k \in Payload :
  /\ pc[w] \in InJob /\ Moves(w, label, k) /\ k.id = job[w].id /\ k.json
  /\ label = "backoff" => k.attempt > 0
  /\ UNCHANGED <<queue, pushed, failed, done, lost, tries>>

\* The worker gives the payload up.
GivesUp(w) == \E label \in PcValue \ Holding :
  /\ pc[w] \in Holding /\ Moves(w, label, NoJob) /\ UNCHANGED <<pushed, tries>>
  /\ \/ /\ pc[w] = "backoff" /\ queue' = Append(queue, job[w])
        /\ UNCHANGED <<failed, done, lost>>
     \/ /\ pc[w] = "lpushFailed" /\ failed' = Append(failed, job[w])
        /\ UNCHANGED <<queue, done, lost>>
     \/ /\ pc[w] \in InJob /\ done' = done \cup {job[w].id}
        /\ UNCHANGED <<queue, failed, lost>>
     \/ lost' = lost \cup {job[w].id} /\ UNCHANGED <<queue, failed, done>>

\* A requeue or a failure counts twice: a copy appears beside the held payload.
Repeats(w) == \E e \in Payload :
  /\ pc[w] \in {"backoff", "lpushFailed"}
  /\ e.id = pushed + 1 /\ e.json = job[w].json /\ e.attempt = job[w].attempt
  /\ \/ pc[w] = "backoff" /\ queue' = Append(queue, e) /\ failed' = failed
     \/ pc[w] = "lpushFailed" /\ failed' = Append(failed, e) /\ queue' = queue
  /\ pushed' = pushed + 1 /\ tries' = [tries EXCEPT ![pushed + 1] = tries[job[w].id]]
  /\ UNCHANGED <<pc, job, done, lost>>

Stands == UNCHANGED <<queue, pushed, failed, done, lost, tries, pc, job>>

Turns(w) == \E label \in PcValue \ Holding, k \in Payload :
  /\ pc[w] \notin Holding /\ Moves(w, label, k)
  /\ UNCHANGED <<queue, pushed, failed, done, lost, tries>>

LEMMA ContinueLife ==
  ASSUME TypeOK, HeldJobs, NEW w \in Workers, pc[w] \in InJob, NEW post,
         NEW label \in InJob \cup {"return"}, Continue(w, post, label),
         UNCHANGED <<queue, pushed, failed, lost, tries>>
  PROVE  GoesOn(w) \/ GivesUp(w)
<1>1. pc[w] \in Holding /\ LoopTop(w) \in PcValue \ Holding /\ InJob \subseteq Holding
      /\ "backoff" \notin InJob
  BY DEF Holding, LoopTop, InJob, PcValue
<1>2. CASE label = "return"
  <2>1. Moves(w, LoopTop(w), NoJob) /\ done' = done \cup {job[w].id}
    BY <1>2 DEF Continue, Finish, Release, Goto, Moves
  <2>. QED  BY <1>1, <2>1 DEF GivesUp
<1>3. CASE label # "return"
  <2>1. Moves(w, label, job[w]) /\ done' = done /\ job[w] \in Payload /\ job[w].json
    BY <1>3 DEF Continue, Goto, Moves, TypeOK, HeldJobs
  <2>2. label \in Holding /\ label # "backoff"
    BY <1>1, <1>3
  <2>. QED  BY <2>1, <2>2 DEF GoesOn
<1>. QED  BY <1>2, <1>3

LEMMA LifeMovements ==
  ASSUME TypeOK, HeldJobs, [Next]_vars
  PROVE  \/ Pushes \/ Stands
         \/ \E w \in Workers : \/ Keeps(w) \/ Drops(w) \/ GoesOn(w) \/ GivesUp(w)
                                \/ Repeats(w) \/ Turns(w)
<1>1. ASSUME BackendNext PROVE Pushes
  <2>1. UNCHANGED <<pc, job, failed, done, lost, tries>>
    BY <1>1 DEF BackendNext, SavePost, DeletePost, PushUnusable, workerVars, history
  <2>2. \E json \in BOOLEAN, p \in Posts \cup {NoPost, Null}, t \in BOOLEAN, c \in BOOLEAN :
          Push(json, p, t, c)
    BY <1>1 DEF BackendNext, SavePost, DeletePost, PushUnusable
  <2>3. PICK e \in Payload :
          e.id = pushed + 1 /\ e.attempt = 0 /\ queue' = Append(queue, e)
    BY <2>2, PushTyped
  <2>4. pushed' = pushed + 1
    BY <2>2 DEF Push
  <2>. QED  BY <2>1, <2>3, <2>4 DEF Pushes
<1>2. ASSUME NEW w \in Workers, Take(w) PROVE Keeps(w) \/ Drops(w)
  <2>1. Pop(w) /\ UNCHANGED <<pushed, failed>> /\ (lost' = lost \/ TakeNull(w))
    BY <1>2 DEF Take, TakeMalformed, TakeNull, TakeInvalid, TakeUntargeted, TakeJob,
                boundVars, history
  <2>2. Head(queue) \in Payload /\ Head(queue).attempt \in Nat
    BY <2>1, IdsTail DEF Pop, TypeOK, Payload
  <2>3. CASE TakeMalformed(w)
    <3>1. Moves(w, "lpushFailed", Head(queue)) /\ UNCHANGED <<tries, done, lost>>
          /\ ~Head(queue).json /\ "lpushFailed" \in Holding
      BY <2>3 DEF TakeMalformed, Goto, Moves, Holding, history
    <3>. QED  BY <2>1, <2>2, <3>1 DEF Keeps
  <2>4. CASE TakeInvalid(w)
    <3>1. PICK label \in {"backoff", "lpushFailed"}, k \in Payload :
            /\ Moves(w, label, k)
            /\ k.id = Head(queue).id /\ k.json = Head(queue).json
            /\ k.attempt = Head(queue).attempt + 1
      BY <2>2, <2>4, ThrowMoves DEF TakeInvalid
    <3>2. Head(queue).json /\ Attempted(Head(queue).id) /\ UNCHANGED <<done, lost>>
          /\ label \in Holding /\ k.attempt > 0
      BY <2>2, <2>4, <3>1 DEF TakeInvalid, Holding
    <3>. QED  BY <2>1, <3>1, <3>2 DEF Keeps
  <2>5. CASE TakeUntargeted(w)
    <3>1. /\ Moves(w, LoopTop(w), NoJob) /\ done' = done \cup {Head(queue).id}
          /\ LoopTop(w) \in PcValue \ Holding /\ lost' = lost
          /\ Head(queue).json /\ Attempted(Head(queue).id)
      BY <2>5 DEF TakeUntargeted, Finish, Release, Goto, Moves, LoopTop, PcValue,
                  Holding, InJob
    <3>. QED  BY <2>1, <3>1, NoJobTyped DEF Drops
  <2>6. CASE TakeJob(w)
    <3>1. Moves(w, "find", Head(queue)) /\ UNCHANGED <<done, lost>>
          /\ Head(queue).json /\ Attempted(Head(queue).id) /\ "find" \in Holding
      BY <2>6 DEF TakeJob, Goto, Moves, Holding, InJob
    <3>. QED  BY <2>1, <2>2, <3>1 DEF Keeps
  <2>7. CASE TakeNull(w)
    <3>1. Moves(w, "pause", job[w]) /\ lost' = lost \cup {Head(queue).id}
          /\ UNCHANGED <<done, tries>> /\ job[w] \in Payload
          /\ "pause" \in PcValue \ Holding
      BY <2>7 DEF TakeNull, Goto, Moves, TypeOK, PcValue, Holding, InJob
    <3>. QED  BY <2>1, <3>1 DEF Drops
  <2>. QED  BY <1>2, <2>3, <2>4, <2>5, <2>6, <2>7 DEF Take
<1>3. ASSUME NEW w \in Workers, Process(w) \/ InvalidateFails(w)
      PROVE  GoesOn(w) \/ GivesUp(w)
  <2>1. pc[w] \in InJob /\ job[w] \in Payload /\ job[w].attempt \in Nat /\ job[w].json
        /\ InJob \subseteq Holding /\ LoopTop(w) \in PcValue \ Holding
    BY <1>3 DEF Process, FindPost, StoreTitle, StoreContent, InvalidateCache, JobError,
                InvalidateFails, InJob, Holding, LoopTop, PcValue, TypeOK, HeldJobs, Payload
  <2>2. UNCHANGED <<queue, pushed, failed, lost, tries>>
    BY <1>3 DEF Process, FindPost, StoreTitle, StoreContent, InvalidateCache, JobError,
                InvalidateFails, redisVars, boundVars, history
  <2>3. \A post, stored : AfterTitle(w, post, stored) \in InJob \cup {"return"}
    BY <2>1 DEF AfterTitle, InJob, TypeOK, Payload
  <2>4. CASE FindPost(w)
    BY <2>1, <2>2, <2>3, <2>4, ContinueLife DEF FindPost, InJob
  <2>5. CASE StoreTitle(w)
    BY <2>1, <2>2, <2>3, <2>5, ContinueLife DEF StoreTitle
  <2>6. CASE StoreContent(w)
    <3>1. Moves(w, "invalidate", job[w]) /\ done' = done
          /\ "invalidate" \in Holding /\ "invalidate" # "backoff"
      BY <2>6 DEF StoreContent, Goto, Moves, TypeOK, history, Holding, InJob
    <3>. QED  BY <2>1, <2>2, <3>1 DEF GoesOn
  <2>7. CASE InvalidateCache(w) \/ InvalidateFails(w)
    <3>1. Moves(w, LoopTop(w), NoJob) /\ done' = done \cup {job[w].id}
      BY <2>7 DEF InvalidateCache, InvalidateFails, Finish, Release, Goto, Moves
    <3>. QED  BY <2>1, <2>2, <3>1 DEF GivesUp
  <2>8. CASE JobError(w)
    <3>0. Throw(w, job[w])
      BY <2>8 DEF JobError
    <3>1. PICK label \in {"backoff", "lpushFailed"}, k \in Payload :
            /\ Moves(w, label, k)
            /\ k.id = job[w].id /\ k.json = job[w].json /\ k.attempt = job[w].attempt + 1
            /\ k.post = job[w].post
            /\ label = IF k.attempt < MaxRuns THEN "backoff" ELSE "lpushFailed"
      BY <2>1, <3>0, ThrowMoves
    <3>2. k.attempt > 0 /\ k.json /\ label \in Holding /\ done' = done
      BY <2>1, <2>8, <3>1 DEF JobError, Holding, history
    <3>. QED  BY <2>1, <2>2, <3>1, <3>2 DEF GoesOn
  <2>. QED  BY <1>3, <2>4, <2>5, <2>6, <2>7, <2>8 DEF Process
<1>4. ASSUME NEW w \in Workers,
             Requeue(w) \/ RequeueFails(w) \/ PushFailed(w) \/ PushFailedSwallowed(w)
      PROVE  GivesUp(w)
  <2>1. PICK label \in {"brpop", "pause", "exited"} : Moves(w, label, NoJob)
    BY <1>4 DEF Requeue, RequeueFails, PushFailed, PushFailedSwallowed, Release, Goto,
                Moves, LoopTop
  <2>2. pc[w] \in Holding /\ label \in PcValue \ Holding
    BY <1>4 DEF Requeue, RequeueFails, PushFailed, PushFailedSwallowed, Holding, InJob,
                PcValue
  <2>3. UNCHANGED <<pushed, tries>>
    BY <1>4 DEF Requeue, RequeueFails, PushFailed, PushFailedSwallowed, boundVars, history
  <2>4. \/ /\ pc[w] = "backoff" /\ queue' = Append(queue, job[w])
           /\ UNCHANGED <<failed, done, lost>>
        \/ /\ pc[w] = "lpushFailed" /\ failed' = Append(failed, job[w])
           /\ UNCHANGED <<queue, done, lost>>
        \/ lost' = lost \cup {job[w].id} /\ UNCHANGED <<queue, failed, done>>
    BY <1>4 DEF Requeue, RequeueFails, PushFailed, PushFailedSwallowed, Lose,
                redisVars, history
  <2>. QED  BY <2>1, <2>2, <2>3, <2>4 DEF GivesUp
<1>5. ASSUME NEW w \in Workers, ReplyLost(w) PROVE Drops(w)
  <2>1. PICK label \in {"brpop", "pause"} :
          /\ Moves(w, label, job[w]) /\ Pop(w) /\ UNCHANGED <<pushed, failed, done, tries>>
          /\ lost' = lost \cup {Head(queue).id} /\ job[w] \in Payload
          /\ label \in PcValue \ Holding
    BY <1>5 DEF ReplyLost, Goto, Moves, Lose, TypeOK, boundVars, PcValue, Holding, InJob
  <2>. QED  BY <2>1 DEF Drops
<1>6. ASSUME NEW w \in Workers, Exit(w) PROVE GivesUp(w) \/ Turns(w)
  <2>1. Moves(w, "exited", NoJob) /\ "exited" \in PcValue \ Holding
        /\ UNCHANGED <<queue, failed, pushed, done, tries>>
    BY <1>6 DEF Exit, Release, Goto, Moves, PcValue, Holding, InJob, redisVars, boundVars
  <2>2. IF pc[w] \in Holding THEN lost' = lost \cup {job[w].id} ELSE lost' = lost
    BY <1>6 DEF Exit, Lose
  <2>. QED  BY <2>1, <2>2, NoJobTyped DEF GivesUp, Turns
<1>7. ASSUME NEW w \in Workers, Resume(w) \/ Signal(w) \/ Restart(w)
      PROVE  Stands \/ Turns(w)
  <2>1. UNCHANGED <<queue, failed, pushed, done, lost, tries, job>>
    BY <1>7 DEF Resume, Signal, Restart, redisVars, boundVars, history
  <2>2. CASE pc' = pc
    BY <2>1, <2>2 DEF Stands
  <2>3. CASE pc' # pc
    <3>1. PICK label \in {"brpop", "exited"} : Moves(w, label, job[w])
      BY <1>7, <2>1, <2>3 DEF Resume, Signal, Restart, Goto, Moves, LoopTop, TypeOK
    <3>2. pc[w] \notin Holding /\ label \in PcValue \ Holding /\ job[w] \in Payload
      BY <1>7, <2>3 DEF Resume, Signal, Restart, PcValue, Holding, InJob, TypeOK
    <3>. QED  BY <2>1, <3>1, <3>2 DEF Turns
  <2>. QED  BY <2>2, <2>3
<1>8. ASSUME AskNext \/ UNCHANGED vars
      PROVE  Stands
  BY <1>8 DEF Stands, AskNext, AskReads, AskCaches, vars, redisVars, workerVars, boundVars,
              history
<1>9. ASSUME NEW w \in Workers, ReplyUnread(w) PROVE Repeats(w)
  <2>1. pc[w] \in {"backoff", "lpushFailed"} /\ AddCopy(w) /\ UNCHANGED <<pc, job, done, lost>>
    BY <1>9 DEF ReplyUnread, workerVars
  <2>. QED  BY <2>1, CopyTyped DEF Repeats
<1>. QED  BY <1>1, <1>2, <1>3, <1>4, <1>5, <1>6, <1>7, <1>8, <1>9
          DEF Next, WorkerNext, Step, Fault, Settle

-----------------------------------------------------------------------------
(* Unread is inductive.                                                    *)

UnreadHeld(w) ==
  /\ pc[w] = "backoff" => job[w].attempt > 0
  /\ pc[w] = "lpushFailed" => job[w].json \/ tries[job[w].id] = 0

\* Only worker w moves, and no run of what the others hold is counted.
LEMMA OthersUnread ==
  ASSUME TypeOK, Unread, NEW w \in Workers, NEW label, NEW k, Moves(w, label, k),
         \A v \in Workers : pc[v] \in Holding => tries'[job[v].id] = tries[job[v].id],
         UnreadHeld(w)',
         \A n \in DOMAIN queue' : queue'[n].json \/ queue'[n].attempt = 0
  PROVE  Unread'
<1>1. ASSUME NEW v \in Workers, v # w PROVE UnreadHeld(v)'
  <2>1. pc'[v] = pc[v] /\ job'[v] = job[v]
    BY <1>1 DEF Moves, TypeOK
  <2>2. pc[v] = "lpushFailed" => tries'[job[v].id] = tries[job[v].id]
    BY DEF Holding
  <2>. QED  BY <2>1, <2>2 DEF Unread, UnreadHeld
<1>2. \A v \in Workers : UnreadHeld(v)'
  BY <1>1
<1>. QED  BY <1>2 DEF Unread, UnreadHeld

LEMMA UnreadInit == Init => Unread
BY DEF Init, Unread

\* What BRPOP takes away leaves the rest of the queue as it was, and counting a
\* run of it counts none of what any worker holds.
LEMMA PopLeaves ==
  ASSUME IInv, Unread, NEW w \in Workers, Pop(w),
         tries' = tries \/ Attempted(Head(queue).id)
  PROVE  /\ \A n \in DOMAIN queue' : queue'[n].json \/ queue'[n].attempt = 0
         /\ \A v \in Workers : pc[v] \in Holding => tries'[job[v].id] = tries[job[v].id]
         /\ Head(queue) \in Payload
         /\ Head(queue).json \/ tries[Head(queue).id] = 0
         /\ tries[Head(queue).id] < MaxRuns
<1>. DEFINE i == Head(queue).id
<1>1. queue # <<>> /\ queue \in Seq(Payload) /\ queue' = Tail(queue)
  BY DEF Pop, IInv, TypeOK
<1>2. /\ Head(queue) \in Payload /\ 1 \in DOMAIN queue /\ queue[1] = Head(queue)
      /\ \A n \in DOMAIN Tail(queue) : n + 1 \in DOMAIN queue /\ Tail(queue)[n] = queue[n + 1]
      /\ i \in IdsOf(queue)
  BY <1>1, IdsTail
<1>3. /\ Head(queue).json \/ Head(queue).attempt = 0
      /\ Head(queue).attempt = tries[i] /\ Head(queue).attempt < MaxRuns
  BY <1>2 DEF IInv, RetriesCounted, Unread
<1>4. i \notin HeldIds
  BY <1>2 DEF IInv, EachPlaced, NothingDuplicated
<1>5. ASSUME NEW v \in Workers, pc[v] \in Holding
      PROVE  tries'[job[v].id] = tries[job[v].id]
  <2>1. job[v].id # i /\ job[v].id \in 1 .. MaxJobs /\ tries \in [1 .. MaxJobs -> Nat]
    BY <1>4, <1>5 DEF HeldIds, IInv, TypeOK, Payload
  <2>. QED  BY <2>1 DEF Attempted
<1>. QED  BY <1>1, <1>2, <1>3, <1>5 DEF Unread

LEMMA UnreadStep == LifeInv /\ [Next]_vars => Unread'
<1>. SUFFICES ASSUME IInv, Unread, [Next]_vars PROVE Unread'
  BY DEF LifeInv
<1>0. TypeOK /\ HeldJobs
  BY DEF IInv
<1>1. CASE Pushes
  <2>1. PICK e \in Payload : /\ e.attempt = 0 /\ queue' = Append(queue, e)
                             /\ UNCHANGED <<pc, job, tries>>
    BY <1>1 DEF Pushes
  <2>2. ASSUME NEW n \in DOMAIN queue' PROVE queue'[n].json \/ queue'[n].attempt = 0
    BY <1>0, <2>1, AppendProperties, LenProperties DEF TypeOK, Unread
  <2>. QED  BY <2>1, <2>2 DEF Unread
<1>2. CASE Stands
  BY <1>2 DEF Stands, Unread
<1>3. ASSUME NEW w \in Workers, Keeps(w) PROVE Unread'
  <2>1. PICK label \in Holding, k \in Payload :
          /\ Pop(w) /\ Moves(w, label, k) /\ k.id = Head(queue).id /\ k.json = Head(queue).json
          /\ \/ ~Head(queue).json /\ label = "lpushFailed" /\ tries' = tries
             \/ /\ Head(queue).json /\ Attempted(Head(queue).id)
                /\ label = "backoff" => k.attempt > 0
    BY <1>3 DEF Keeps
  <2>2. pc'[w] = label /\ job'[w] = k
    BY <1>0, <2>1 DEF Moves, TypeOK
  <2>3. UnreadHeld(w)'
    <3>1. CASE Head(queue).json
      BY <2>1, <2>2, <3>1 DEF UnreadHeld
    <3>2. CASE ~Head(queue).json
      BY <2>1, <2>2, <3>2, PopLeaves DEF UnreadHeld
    <3>. QED  BY <3>1, <3>2
  <2>. QED  BY <1>0, <2>1, <2>3, PopLeaves, OthersUnread
<1>4. ASSUME NEW w \in Workers, Drops(w) PROVE Unread'
  <2>1. PICK label \in PcValue \ Holding, k \in Payload :
          Pop(w) /\ Moves(w, label, k) /\ (tries' = tries \/ Attempted(Head(queue).id))
    BY <1>4 DEF Drops
  <2>2. UnreadHeld(w)'
    BY <1>0, <2>1 DEF UnreadHeld, Moves, TypeOK, Holding
  <2>. QED  BY <1>0, <2>1, <2>2, PopLeaves, OthersUnread
<1>5. ASSUME NEW w \in Workers, GoesOn(w) PROVE Unread'
  <2>1. PICK label \in Holding, k \in Payload :
          /\ Moves(w, label, k) /\ k.json /\ (label = "backoff" => k.attempt > 0)
          /\ UNCHANGED <<queue, tries>>
    BY <1>5 DEF GoesOn
  <2>2. UnreadHeld(w)'
    BY <1>0, <2>1 DEF UnreadHeld, Moves, TypeOK
  <2>. QED  BY <1>0, <2>1, <2>2, OthersUnread DEF Unread
<1>6. ASSUME NEW w \in Workers, GivesUp(w) PROVE Unread'
  <2>1. PICK label \in PcValue \ Holding :
          /\ Moves(w, label, NoJob) /\ tries' = tries
          /\ \/ pc[w] = "backoff" /\ queue' = Append(queue, job[w])
             \/ queue' = queue
    BY <1>6 DEF GivesUp
  <2>2. UnreadHeld(w)'
    BY <1>0, <2>1 DEF UnreadHeld, Moves, TypeOK, Holding
  <2>3. ASSUME NEW n \in DOMAIN queue' PROVE queue'[n].json \/ queue'[n].attempt = 0
    <3>1. CASE queue' = queue
      BY <3>1 DEF Unread
    <3>2. CASE pc[w] = "backoff" /\ queue' = Append(queue, job[w])
      <4>1. job[w] \in Payload /\ job[w].json
        BY <1>0, <3>2 DEF HeldJobs, TypeOK
      <4>. QED  BY <1>0, <3>2, <4>1, AppendProperties, LenProperties DEF TypeOK, Unread
    <3>. QED  BY <2>1, <3>1, <3>2
  <2>. QED  BY <1>0, <2>1, <2>2, <2>3, OthersUnread
<1>7. ASSUME NEW w \in Workers, Turns(w) PROVE Unread'
  <2>1. PICK label \in PcValue \ Holding, k \in Payload :
          Moves(w, label, k) /\ UNCHANGED <<queue, tries>>
    BY <1>7 DEF Turns
  <2>2. UnreadHeld(w)'
    BY <1>0, <2>1 DEF UnreadHeld, Moves, TypeOK, Holding
  <2>. QED  BY <1>0, <2>1, <2>2, OthersUnread DEF Unread
<1>8. ASSUME NEW w \in Workers, Repeats(w) PROVE Unread'
  <2>1. PICK e \in Payload :
          /\ pc[w] \in {"backoff", "lpushFailed"} /\ e.json = job[w].json
          /\ (pc[w] = "backoff" /\ queue' = Append(queue, e)) \/ queue' = queue
          /\ tries' = [tries EXCEPT ![pushed + 1] = tries[job[w].id]]
          /\ UNCHANGED <<pc, job>>
    BY <1>8 DEF Repeats
  <2>2. ASSUME NEW n \in DOMAIN queue' PROVE queue'[n].json \/ queue'[n].attempt = 0
    <3>1. CASE queue' = queue
      BY <3>1 DEF Unread
    <3>2. CASE pc[w] = "backoff" /\ queue' = Append(queue, e)
      <4>1. e.json
        BY <1>0, <2>1, <3>2 DEF HeldJobs
      <4>. QED  BY <1>0, <3>2, <4>1, AppendProperties, LenProperties DEF TypeOK, Unread
    <3>. QED  BY <2>1, <3>1, <3>2
  <2>3. ASSUME NEW v \in Workers, pc'[v] = "lpushFailed"
        PROVE  job'[v].json \/ tries'[job'[v].id] = 0
    <3>1. job[v].id # pushed + 1 /\ job[v].id \in 1 .. MaxJobs
      <4>1. job[v].id \in HeldIds
        BY <2>1, <2>3 DEF HeldIds, Holding
      <4>2. HeldIds \subseteq 1 .. pushed /\ pushed \in 0 .. MaxJobs
        BY <1>0 DEF IInv, EachPlaced, NothingForgotten, Outstanding, TypeOK
      <4>3. job[v].id \in 1 .. MaxJobs
        BY <1>0 DEF TypeOK, Payload
      <4>. QED  BY <4>1, <4>2, <4>3
    <3>2. tries'[job[v].id] = tries[job[v].id]
      BY <1>0, <2>1, <3>1 DEF TypeOK
    <3>. QED  BY <2>1, <2>3, <3>2 DEF Unread
  <2>4. \A v \in Workers : pc'[v] = "backoff" => job'[v].attempt > 0
    BY <2>1 DEF Unread
  <2>. QED  BY <2>2, <2>3, <2>4 DEF Unread
<1>. QED  BY <1>0, <1>1, <1>2, <1>3, <1>4, <1>5, <1>6, <1>7, <1>8, LifeMovements

-----------------------------------------------------------------------------
(* Each step is a step of one job.                                         *)

\* The six places exclude each other and leave no job out.
Reads(i) ==
  /\ StateOf(i) \in {"unborn", "queued", "held", "failed", "done", "lost"}
  /\ StateOf(i) = "unborn" <=> i > pushed
  /\ StateOf(i) = "queued" <=> i \in IdsOf(queue)
  /\ StateOf(i) = "held" <=> i \in HeldIds
  /\ StateOf(i) = "failed" <=> i \in IdsOf(failed)
  /\ StateOf(i) = "done" <=> i \in done
  /\ StateOf(i) = "lost" <=> i \in lost

LEMMA StateReads == TypeOK /\ EachPlaced => \A i \in 1 .. MaxJobs : Reads(i)
<1>. SUFFICES ASSUME TypeOK, EachPlaced, NEW i \in 1 .. MaxJobs
              PROVE  Reads(i)
  OBVIOUS
<1>. DEFINE Q == IdsOf(queue)  H == HeldIds  F == IdsOf(failed)
<1>1. i > pushed <=> i \notin 1 .. pushed
  BY DEF TypeOK
<1>2. /\ i > pushed <=> i \notin Q \cup H \cup F \cup done \cup lost
      /\ i \in Q => i \notin H \cup F \cup done \cup lost
      /\ i \in H => i \notin F \cup done \cup lost
      /\ i \in F => i \notin done \cup lost
      /\ i \in done => i \notin lost
  BY <1>1 DEF EachPlaced, NothingForgotten, NothingDuplicated, Outstanding
<1>. HIDE DEF Q, H, F
<1>3. StateOf(i) = CASE i > pushed -> "unborn" [] i \in Q -> "queued" [] i \in H -> "held"
                     [] i \in F -> "failed" [] i \in done -> "done" [] i \in lost -> "lost"
  BY DEF StateOf, Q, H, F
<1>4. CASE i > pushed
  BY <1>2, <1>3, <1>4 DEF Q, H, F, Reads
<1>5. CASE i \in Q
  BY <1>2, <1>3, <1>5 DEF Q, H, F, Reads
<1>6. CASE i \in H
  BY <1>2, <1>3, <1>6 DEF Q, H, F, Reads
<1>7. CASE i \in F
  BY <1>2, <1>3, <1>7 DEF Q, H, F, Reads
<1>8. CASE i \in done
  BY <1>2, <1>3, <1>8 DEF Q, H, F, Reads
<1>9. CASE i \in lost
  BY <1>2, <1>3, <1>9 DEF Q, H, F, Reads
<1>. QED  BY <1>2, <1>4, <1>5, <1>6, <1>7, <1>8, <1>9

LEMMA StateReadsNext == TypeOK' /\ EachPlaced' => \A i \in 1 .. MaxJobs : Reads(i)'
<1>1. (TypeOK /\ EachPlaced => \A i \in 1 .. MaxJobs : Reads(i))'
  BY StateReads, PTL
<1>. QED  BY <1>1

\* A job that no place gains or loses keeps its state.
Unmoved(k) ==
  /\ (k > pushed') <=> (k > pushed)
  /\ (k \in IdsOf(queue)') <=> (k \in IdsOf(queue))
  /\ (k \in HeldIds') <=> (k \in HeldIds)
  /\ (k \in IdsOf(failed)') <=> (k \in IdsOf(failed))
  /\ (k \in done') <=> (k \in done)
  /\ (k \in lost') <=> (k \in lost)

States == [i \in 1 .. MaxJobs |-> StateOf(i)]

LEMMA StateKept ==
  ASSUME TypeOK, EachPlaced, TypeOK', EachPlaced',
         NEW k \in 1 .. MaxJobs, Unmoved(k)
  PROVE  StateOf(k)' = StateOf(k)
<1>1. Reads(k) /\ Reads(k)'
  BY StateReads, StateReadsNext
<1>. QED  BY <1>1 DEF Reads, Unmoved

\* Every job but i is unmoved: the states change at i.
LEMMA StateMoves ==
  ASSUME TypeOK, EachPlaced, TypeOK', EachPlaced', NEW i \in 1 .. MaxJobs,
         \A k \in 1 .. MaxJobs : k # i => Unmoved(k)
  PROVE  /\ States' = [States EXCEPT ![i] = StateOf(i)']
         /\ States[i] = StateOf(i) /\ Reads(i) /\ Reads(i)'
<1>1. \A k \in 1 .. MaxJobs : k # i => StateOf(k)' = StateOf(k)
  BY StateKept
<1>2. Reads(i) /\ Reads(i)'
  BY StateReads, StateReadsNext
<1>. QED  BY <1>1, <1>2 DEF States

LEMMA StatesSame ==
  ASSUME TypeOK, EachPlaced, TypeOK', EachPlaced',
         \A k \in 1 .. MaxJobs : Unmoved(k)
  PROVE  States' = States
BY StateKept DEF States

LEMMA LifeInit == Init => Life!Init
<1>. SUFFICES ASSUME Init PROVE Life!Init
  OBVIOUS
<1>1. TypeOK /\ EachPlaced
  BY TypeInit, ConservationInit
<1>2. ASSUME NEW i \in 1 .. MaxJobs PROVE StateOf(i) = "unborn"
  BY <1>1, StateReads DEF Reads, Init
<1>. QED  BY <1>2 DEF Life!Init, Init

LEMMA LifeBecomes ==
  ASSUME TypeOK, EachPlaced, TypeOK', EachPlaced', NEW i \in 1 .. MaxJobs,
         \A k \in 1 .. MaxJobs : k # i => Unmoved(k)
  PROVE  /\ i > pushed /\ i \in IdsOf(queue)' => Life!Becomes(i, "unborn", "queued")
         /\ i > pushed /\ i \in IdsOf(failed)' => Life!Becomes(i, "unborn", "failed")
         /\ i \in IdsOf(queue) /\ i \in HeldIds' => Life!Becomes(i, "queued", "held")
         /\ i \in IdsOf(queue) /\ i \in done' => Life!Becomes(i, "queued", "done")
         /\ i \in IdsOf(queue) /\ i \in lost' => Life!Becomes(i, "queued", "lost")
         /\ i \in HeldIds /\ i \in IdsOf(queue)' => Life!Becomes(i, "held", "queued")
         /\ i \in HeldIds /\ i \in IdsOf(failed)' => Life!Becomes(i, "held", "failed")
         /\ i \in HeldIds /\ i \in done' => Life!Becomes(i, "held", "done")
         /\ i \in HeldIds /\ i \in lost' => Life!Becomes(i, "held", "lost")
<1>1. /\ States' = [States EXCEPT ![i] = StateOf(i)']
      /\ States[i] = StateOf(i) /\ Reads(i) /\ Reads(i)'
  BY StateMoves
<1>2. ASSUME NEW from, NEW to, StateOf(i) = from, StateOf(i)' = to
      PROVE  Life!Becomes(i, from, to)
  BY <1>1, <1>2 DEF Life!Becomes, States
<1>. QED  BY <1>1, <1>2 DEF Reads

LEMMA LifeSame ==
  ASSUME TypeOK, EachPlaced, TypeOK', EachPlaced', tries' = tries,
         \A k \in 1 .. MaxJobs : Unmoved(k)
  PROVE  UNCHANGED Life!vars
<1>1. States' = States
  BY StatesSame
<1>. QED  BY <1>1 DEF Life!vars, States

\* The places that a step leaves alone.
LEMMA SameIds ==
  /\ queue' = queue => IdsOf(queue)' = IdsOf(queue)
  /\ failed' = failed => IdsOf(failed)' = IdsOf(failed)
  /\ UNCHANGED <<pc, job>> => HeldIds' = HeldIds
BY DEF IdsOf, HeldIds

\* What the pop of a payload does to the places.
LEMMA PopMoves ==
  ASSUME IInv, NEW w \in Workers, Pop(w)
  PROVE  /\ Head(queue).id \in 1 .. MaxJobs
         /\ IdsOf(queue) = IdsOf(queue)' \cup {Head(queue).id}
         /\ Head(queue).id \notin IdsOf(queue)'
         /\ pc[w] \notin Holding
  BY IdsTail DEF Pop, IInv, TypeOK, Payload, EachPlaced, NothingDuplicated, Holding,
                 InJob

LEMMA LifeStep == LifeInv /\ IInv' /\ [Next]_vars => [Life!Next]_(Life!vars)
<1>. SUFFICES ASSUME IInv, Unread, IInv', [Next]_vars
              PROVE  [Life!Next]_(Life!vars)
  BY DEF LifeInv
<1>0. /\ TypeOK /\ EachPlaced /\ HeldJobs /\ HeldDistinct
      /\ TypeOK' /\ EachPlaced'
  BY DEF IInv, EachPlaced, NothingDuplicated
<1>1. CASE Pushes
  <2>1. PICK e \in Payload :
          /\ e.id = pushed + 1
          /\ queue' = Append(queue, e) /\ pushed' = pushed + 1
          /\ UNCHANGED <<pc, job, failed, done, lost, tries>>
    BY <1>1 DEF Pushes
  <2>2. pushed \in Nat /\ e.id \in 1 .. MaxJobs /\ IdsOf(queue)' = IdsOf(queue) \cup {e.id}
    <3>1. pushed \in Nat /\ e.id \in 1 .. MaxJobs /\ queue \in Seq(Payload)
      BY <1>0 DEF TypeOK, Payload
    <3>2. IdsOf(Append(queue, e)) = IdsOf(queue) \cup {e.id}
      BY <3>1, IdsAppend
    <3>. QED  BY <2>1, <3>1, <3>2 DEF IdsOf
  <2>3. HeldIds' = HeldIds /\ IdsOf(failed)' = IdsOf(failed)
    BY <2>1, SameIds
  <2>4. \A k \in 1 .. MaxJobs : k # e.id => Unmoved(k)
    BY <2>1, <2>2, <2>3 DEF Unmoved
  <2>5. Life!Becomes(e.id, "unborn", "queued")
    BY <1>0, <2>1, <2>2, <2>4, LifeBecomes
  <2>6. Life!Push(e.id)
    BY <2>1, <2>5 DEF Life!Push
  <2>. QED  BY <2>2, <2>6 DEF Life!Next
<1>2. CASE Stands
  <2>1. \A k \in 1 .. MaxJobs : Unmoved(k)
    BY <1>2, SameIds DEF Stands, Unmoved
  <2>2. UNCHANGED Life!vars
    BY <1>0, <1>2, <2>1, LifeSame DEF Stands
  <2>. QED  BY <2>2
<1>3. ASSUME NEW w \in Workers, Keeps(w) PROVE Life!Next
  <2>. DEFINE i == Head(queue).id
  <2>1. PICK label \in Holding, k \in Payload :
          /\ Pop(w) /\ Moves(w, label, k) /\ k.id = i
          /\ UNCHANGED <<pushed, failed, done, lost>>
          /\ (~Head(queue).json /\ tries' = tries) \/ Attempted(i)
    BY <1>3 DEF Keeps
  <2>2. /\ i \in 1 .. MaxJobs /\ pc[w] \notin Holding
        /\ IdsOf(queue) = IdsOf(queue)' \cup {i} /\ i \notin IdsOf(queue)'
    BY <2>1, PopMoves
  <2>3. i \notin HeldIds
    BY <1>0, <2>2 DEF EachPlaced, NothingDuplicated
  <2>4. HeldIds' = HeldIds \cup {i} /\ IdsOf(failed)' = IdsOf(failed)
    BY <1>0, <2>1, <2>2, <2>3, HoldStart, SameIds
  <2>5. \A m \in 1 .. MaxJobs : m # i => Unmoved(m)
    BY <2>1, <2>2, <2>4 DEF Unmoved
  <2>6. Life!Becomes(i, "queued", "held")
    BY <1>0, <2>2, <2>4, <2>5, LifeBecomes
  <2>7. CASE Attempted(i)
    <3>1. tries[i] < MaxRuns
      BY <2>1, PopLeaves
    <3>2. Life!Run(i)
      BY <2>6, <2>7, <3>1 DEF Life!Run, Attempted
    <3>. QED  BY <2>2, <3>2 DEF Life!Next
  <2>8. CASE ~Head(queue).json /\ tries' = tries
    <3>1. tries[i] = 0
      BY <2>1, <2>8, PopLeaves
    <3>2. Life!Reject(i)
      BY <2>6, <2>8, <3>1 DEF Life!Reject
    <3>. QED  BY <2>2, <3>2 DEF Life!Next
  <2>. QED  BY <2>1, <2>7, <2>8
<1>4. ASSUME NEW w \in Workers, Drops(w) PROVE Life!Next
  <2>. DEFINE i == Head(queue).id
  <2>1. PICK label \in PcValue \ Holding, k \in Payload :
          /\ Pop(w) /\ Moves(w, label, k) /\ UNCHANGED <<pushed, failed>>
          /\ \/ Attempted(i) /\ done' = done \cup {i} /\ lost' = lost
             \/ tries' = tries /\ lost' = lost \cup {i} /\ done' = done
    BY <1>4 DEF Drops
  <2>2. /\ i \in 1 .. MaxJobs /\ pc[w] \notin Holding
        /\ IdsOf(queue) = IdsOf(queue)' \cup {i} /\ i \notin IdsOf(queue)'
    BY <2>1, PopMoves
  <2>3. HeldIds' = HeldIds /\ IdsOf(failed)' = IdsOf(failed)
    BY <1>0, <2>1, <2>2, HoldNone, SameIds
  <2>4. \A m \in 1 .. MaxJobs : m # i => Unmoved(m)
    BY <2>1, <2>2, <2>3 DEF Unmoved
  <2>5. CASE Attempted(i) /\ done' = done \cup {i}
    <3>1. tries[i] < MaxRuns
      BY <2>1, <2>5, PopLeaves
    <3>2. Life!Becomes(i, "queued", "done")
      BY <1>0, <2>2, <2>4, <2>5, LifeBecomes
    <3>3. Life!Run(i)
      BY <2>5, <3>1, <3>2 DEF Life!Run, Attempted
    <3>. QED  BY <2>2, <3>3 DEF Life!Next
  <2>6. CASE tries' = tries /\ lost' = lost \cup {i}
    <3>1. Life!Becomes(i, "queued", "lost")
      BY <1>0, <2>2, <2>4, <2>6, LifeBecomes
    <3>2. Life!Lose(i)
      BY <2>6, <3>1 DEF Life!Lose
    <3>. QED  BY <2>2, <3>2 DEF Life!Next
  <2>. QED  BY <2>1, <2>5, <2>6
<1>5. ASSUME NEW w \in Workers, GoesOn(w) PROVE UNCHANGED Life!vars
  <2>1. PICK label \in Holding, k \in Payload :
          /\ pc[w] \in InJob /\ Moves(w, label, k) /\ k.id = job[w].id
          /\ UNCHANGED <<queue, pushed, failed, done, lost, tries>>
    BY <1>5 DEF GoesOn
  <2>2. HeldIds' = HeldIds
    BY <1>0, <2>1, HoldKeep DEF Holding
  <2>3. \A m \in 1 .. MaxJobs : Unmoved(m)
    BY <2>1, <2>2, SameIds DEF Unmoved
  <2>. QED  BY <1>0, <2>1, <2>3, LifeSame
<1>6. ASSUME NEW w \in Workers, GivesUp(w) PROVE Life!Next
  <2>. DEFINE i == job[w].id
  <2>1. PICK label \in PcValue \ Holding :
          /\ pc[w] \in Holding /\ Moves(w, label, NoJob) /\ UNCHANGED <<pushed, tries>>
          /\ \/ /\ pc[w] = "backoff" /\ queue' = Append(queue, job[w])
                /\ UNCHANGED <<failed, done, lost>>
             \/ /\ pc[w] = "lpushFailed" /\ failed' = Append(failed, job[w])
                /\ UNCHANGED <<queue, done, lost>>
             \/ /\ pc[w] \in InJob /\ done' = done \cup {i}
                /\ UNCHANGED <<queue, failed, lost>>
             \/ lost' = lost \cup {i} /\ UNCHANGED <<queue, failed, done>>
    BY <1>6 DEF GivesUp
  <2>2. /\ job[w] \in Payload /\ i \in 1 .. MaxJobs
        /\ HeldIds' = HeldIds \ {i} /\ i \in HeldIds
        /\ MaxRuns \in Nat \ {0} /\ tries[i] \in Nat /\ job[w].attempt \in Nat
    BY <1>0, <2>1, HoldEnd, RunsAllowed DEF TypeOK, Payload
  <2>3. CASE pc[w] = "backoff" /\ queue' = Append(queue, job[w]) /\ UNCHANGED <<failed, done, lost>>
    <3>1. IdsOf(queue)' = IdsOf(queue) \cup {i} /\ IdsOf(failed)' = IdsOf(failed)
      BY <1>0, <2>2, <2>3, IdsAppend, SameIds DEF TypeOK
    <3>2. \A m \in 1 .. MaxJobs : m # i => Unmoved(m)
      BY <2>1, <2>2, <2>3, <3>1 DEF Unmoved
    <3>3. tries[i] \in 1 .. MaxRuns - 1
      BY <1>0, <2>2, <2>3 DEF HeldJobs, Unread
    <3>4. Life!Becomes(i, "held", "queued")
      BY <1>0, <2>2, <3>1, <3>2, LifeBecomes
    <3>5. Life!Retry(i)
      BY <2>1, <3>3, <3>4 DEF Life!Retry
    <3>. QED  BY <2>2, <3>5 DEF Life!Next
  <2>4. CASE pc[w] = "lpushFailed" /\ failed' = Append(failed, job[w])
             /\ UNCHANGED <<queue, done, lost>>
    <3>1. IdsOf(failed)' = IdsOf(failed) \cup {i} /\ IdsOf(queue)' = IdsOf(queue)
      BY <1>0, <2>2, <2>4, IdsAppend, SameIds DEF TypeOK
    <3>2. \A m \in 1 .. MaxJobs : m # i => Unmoved(m)
      BY <2>1, <2>2, <2>4, <3>1 DEF Unmoved
    <3>3. tries[i] \in {0, MaxRuns}
      BY <1>0, <2>4 DEF HeldJobs, Unread
    <3>4. Life!Becomes(i, "held", "failed")
      BY <1>0, <2>2, <3>1, <3>2, LifeBecomes
    <3>5. Life!Fail(i)
      BY <2>1, <3>3, <3>4 DEF Life!Fail
    <3>. QED  BY <2>2, <3>5 DEF Life!Next
  <2>5. CASE pc[w] \in InJob /\ done' = done \cup {i} /\ UNCHANGED <<queue, failed, lost>>
    <3>1. \A m \in 1 .. MaxJobs : m # i => Unmoved(m)
      BY <2>1, <2>2, <2>5, SameIds DEF Unmoved
    <3>2. tries[i] > 0
      BY <1>0, <2>2, <2>5 DEF HeldJobs
    <3>3. Life!Becomes(i, "held", "done")
      BY <1>0, <2>2, <2>5, <3>1, LifeBecomes
    <3>4. Life!Complete(i)
      BY <2>1, <3>2, <3>3 DEF Life!Complete
    <3>. QED  BY <2>2, <3>4 DEF Life!Next
  <2>6. CASE lost' = lost \cup {i} /\ UNCHANGED <<queue, failed, done>>
    <3>1. \A m \in 1 .. MaxJobs : m # i => Unmoved(m)
      BY <2>1, <2>2, <2>6, SameIds DEF Unmoved
    <3>2. Life!Becomes(i, "held", "lost")
      BY <1>0, <2>2, <2>6, <3>1, LifeBecomes
    <3>3. Life!Lose(i)
      BY <2>1, <3>2 DEF Life!Lose
    <3>. QED  BY <2>2, <3>3 DEF Life!Next
  <2>. QED  BY <2>1, <2>3, <2>4, <2>5, <2>6
<1>7. ASSUME NEW w \in Workers, Turns(w) PROVE UNCHANGED Life!vars
  <2>1. PICK label \in PcValue \ Holding, k \in Payload :
          /\ pc[w] \notin Holding /\ Moves(w, label, k)
          /\ UNCHANGED <<queue, pushed, failed, done, lost, tries>>
    BY <1>7 DEF Turns
  <2>2. HeldIds' = HeldIds
    BY <1>0, <2>1, HoldNone
  <2>3. \A m \in 1 .. MaxJobs : Unmoved(m)
    BY <2>1, <2>2, SameIds DEF Unmoved
  <2>. QED  BY <1>0, <2>1, <2>3, LifeSame
<1>8. ASSUME NEW w \in Workers, Repeats(w) PROVE Life!Next
  <2>. DEFINE i == job[w].id  k == pushed + 1
  <2>1. PICK e \in Payload :
          /\ pc[w] \in {"backoff", "lpushFailed"} /\ e.id = k
          /\ \/ pc[w] = "backoff" /\ queue' = Append(queue, e) /\ failed' = failed
             \/ pc[w] = "lpushFailed" /\ failed' = Append(failed, e) /\ queue' = queue
          /\ pushed' = k /\ tries' = [tries EXCEPT ![k] = tries[i]]
          /\ UNCHANGED <<pc, job, done, lost>>
    BY <1>8 DEF Repeats
  <2>2. /\ i \in 1 .. MaxJobs /\ i \in HeldIds /\ k \in 1 .. MaxJobs /\ pushed \in Nat
        /\ MaxRuns \in Nat \ {0} /\ tries[i] \in Nat /\ job[w].attempt \in Nat
    <3>1. job[w] \in Payload /\ pushed \in 0 .. MaxJobs /\ tries \in [1 .. MaxJobs -> Nat]
      BY <1>0 DEF TypeOK
    <3>2. i \in HeldIds
      BY <2>1 DEF HeldIds, Holding
    <3>. QED  BY <2>1, <3>1, <3>2, RunsAllowed DEF Payload
  <2>3. States[i] = "held" /\ HeldIds' = HeldIds
    BY <1>0, <2>1, <2>2, StateReads, SameIds DEF Reads, States
  <2>4. CASE pc[w] = "backoff" /\ queue' = Append(queue, e) /\ failed' = failed
    <3>1. IdsOf(queue)' = IdsOf(queue) \cup {k} /\ IdsOf(failed)' = IdsOf(failed)
      BY <1>0, <2>1, <2>4, IdsAppend, SameIds DEF TypeOK
    <3>2. \A m \in 1 .. MaxJobs : m # k => Unmoved(m)
      BY <2>1, <2>2, <2>3, <3>1 DEF Unmoved
    <3>3. tries[i] \in 1 .. MaxRuns - 1
      BY <1>0, <2>2, <2>4 DEF HeldJobs, Unread
    <3>4. Life!Becomes(k, "unborn", "queued")
      BY <1>0, <2>2, <3>1, <3>2, LifeBecomes
    <3>5. Life!Repeat(i, k)
      BY <2>1, <2>3, <3>3, <3>4 DEF Life!Repeat, States
    <3>. QED  BY <2>2, <3>5 DEF Life!Next
  <2>5. CASE pc[w] = "lpushFailed" /\ failed' = Append(failed, e) /\ queue' = queue
    <3>1. IdsOf(failed)' = IdsOf(failed) \cup {k} /\ IdsOf(queue)' = IdsOf(queue)
      BY <1>0, <2>1, <2>5, IdsAppend, SameIds DEF TypeOK
    <3>2. \A m \in 1 .. MaxJobs : m # k => Unmoved(m)
      BY <2>1, <2>2, <2>3, <3>1 DEF Unmoved
    <3>3. tries[i] \in {0, MaxRuns}
      BY <1>0, <2>5 DEF HeldJobs, Unread
    <3>4. Life!Becomes(k, "unborn", "failed")
      BY <1>0, <2>2, <3>1, <3>2, LifeBecomes
    <3>5. Life!Repeat(i, k)
      BY <2>1, <2>3, <3>3, <3>4 DEF Life!Repeat, States
    <3>. QED  BY <2>2, <3>5 DEF Life!Next
  <2>. QED  BY <2>1, <2>4, <2>5
<1>. QED  BY <1>0, <1>1, <1>2, <1>3, <1>4, <1>5, <1>6, <1>7, <1>8, LifeMovements

-----------------------------------------------------------------------------
(* Theorem.                                                                *)

\* The code keeps the promise of the queue for every job: a run of it is
\* counted, only a failed one is repeated, at most MaxRuns times, it fails after
\* the last of them or unread, and done, failed and lost are final.
THEOREM WorkerImplementsLifecycle == Spec => ImplementsLifecycle
<1>1. Init => LifeInv
  BY TypeInit, ConservationInit, RetriesInit, UnreadInit DEF IInv, LifeInv
<1>2. LifeInv /\ [Next]_vars => LifeInv'
  BY TypeStep, ConservationStep, RetriesStep, UnreadStep DEF IInv, LifeInv
<1>3. LifeInv /\ LifeInv' /\ [Next]_vars => [Life!Next]_(Life!vars)
  BY LifeStep DEF LifeInv
<1>. QED  BY <1>1, <1>2, <1>3, LifeInit, PTL DEF Spec, ImplementsLifecycle, Life!Spec

-----------------------------------------------------------------------------
(***************************************************************************)
(* What a single worker process guarantees for the embeddings and for the  *)
(* cached answers, for any number of posts, edits, retries and faults.     *)
(* With two workers the three theorems fail: EmbeddingWorker_scaled.       *)
(***************************************************************************)

OneWorker == \A v, w \in Workers : v = w

-----------------------------------------------------------------------------
(* Versions only grow.                                                     *)

\* What is stored for a text is no newer than the text, unless the text is
\* blank, and no version is newer than the last edit.
RowsAhead ==
  \A p \in Posts :
    /\ titleEmb[p] <= edits /\ row[p].title <= edits
    /\ chunks[p] <= edits /\ row[p].content <= edits
    /\ row[p].title # 0 => titleEmb[p] <= row[p].title
    /\ row[p].content # 0 => chunks[p] <= row[p].content

\* A loaded text that is still to be stored lies between the two.
SnapBetween(w) == LET p == job[w].post IN
  /\ pc[w] = "storeTitle" =>
       /\ snap[w].title # 0 /\ titleEmb[p] <= snap[w].title /\ snap[w].title <= edits
       /\ row[p].title # 0 => snap[w].title <= row[p].title
  /\ pc[w] = "storeContent" => job[w].content /\ snap[w].content # 0
  /\ pc[w] \in {"storeTitle", "storeContent"} /\ snap[w].content # 0 =>
       /\ chunks[p] <= snap[w].content /\ snap[w].content <= edits
       /\ row[p].content # 0 => snap[w].content <= row[p].content

Ascending == RowsAhead /\ \A w \in Workers : SnapBetween(w)

-----------------------------------------------------------------------------
(* A text that is not embedded yet has a job.                              *)

Queued == {queue[n] : n \in DOMAIN queue}

\* Worker w holds a job for the title of p and is to load, or has loaded, its
\* present title.
TitleHeld(w, p) ==
  /\ job[w].post = p /\ job[w].title
  /\ \/ pc[w] \in {"find", "backoff", "lpushFailed"}
     \/ pc[w] = "storeTitle" /\ snap[w].title = row[p].title

ContentHeld(w, p) ==
  /\ job[w].post = p /\ job[w].content
  /\ \/ pc[w] \in {"find", "backoff", "lpushFailed"}
     \/ pc[w] \in {"storeTitle", "storeContent"} /\ snap[w].content = row[p].content

TitlePending(p) == \/ \E e \in Queued : e.json /\ e.post = p /\ e.title
                   \/ \E w \in Workers : TitleHeld(w, p)

ContentPending(p) == \/ \E e \in Queued : e.json /\ e.post = p /\ e.content
                     \/ \E w \in Workers : ContentHeld(w, p)

FreshOrPending ==
  failed = <<>> /\ lost = {} =>
    \A p \in Posts :
      /\ row[p].title # 0 /\ titleEmb[p] # row[p].title => TitlePending(p)
      /\ row[p].content # 0 /\ chunks[p] # row[p].content => ContentPending(p)

-----------------------------------------------------------------------------
(* A stale cached answer will be deleted.                                  *)

ContentQueued == \E e \in Queued : e.json /\ e.post \in Posts /\ e.content

BlankBody == \E p \in Posts : Live(p) /\ row[p].content = 0

\* A worker is on its way to deleteEmbeddingsByOwner, unless its job fails.
Deleting(w) ==
  \/ pc[w] = "invalidate"
  \/ /\ job[w].content /\ job[w].post \in Posts
     /\ \/ pc[w] \in {"find", "backoff", "lpushFailed"}
        \/ pc[w] \in {"storeTitle", "storeContent"} /\ snap[w].content # 0

\* A worker about to store a title and to return for a blank body.
Skipping(w) == pc[w] = "storeTitle" /\ job[w].content /\ snap[w].content = 0

NothingFailed == failed = <<>> /\ lost = {} /\ faults["cache"] = FaultBudget["cache"]

\* Answers that are cached or will be, and those that need no deletion.
Answers == asking \cup answerCache
Kept(a) == Current(a) \/ a.overlapped

StaleGoes ==
  /\ \A a \in Answers : row[a.post].state # "absent"
  /\ NothingFailed =>
       /\ \/ \A a \in Answers : Kept(a)
          \/ ContentQueued \/ BlankBody \/ \E w \in Workers : Deleting(w)
       /\ \A w \in Workers : Skipping(w) => ContentQueued \/ BlankBody

-----------------------------------------------------------------------------
(* Where the three awaits of processJob lead.                              *)

LEMMA FindLeads ==
  ASSUME TypeOK, HeldJobs, NEW w \in Workers, FindPost(w)
  PROVE  LET p == job[w].post IN
         /\ p \in Posts /\ Live(p)
         /\ UNCHANGED <<queue, failed, dbVars, edits, faults, lost>>
         /\ \/ /\ pc'[w] = "storeTitle" /\ job' = job /\ snap'[w] = row[p]
               /\ job[w].title /\ row[p].title # 0
            \/ /\ pc'[w] = "storeContent" /\ job' = job /\ snap'[w] = row[p]
               /\ job[w].content /\ row[p].content # 0
               /\ ~(job[w].title /\ row[p].title # 0)
            \/ /\ pc'[w] \in {"brpop", "exited"}
               /\ ~(job[w].title /\ row[p].title # 0)
               /\ ~(job[w].content /\ row[p].content # 0)
<1>. DEFINE p == job[w].post
<1>1. p \in Posts /\ pc[w] = "find"
  BY DEF FindPost, HeldJobs, InJob
<1>2. Live(p) /\ UNCHANGED <<queue, failed, dbVars, edits, faults, lost>>
  BY DEF FindPost, Live, redisVars, boundVars
<1>3. job[w].title \in BOOLEAN /\ job[w].content \in BOOLEAN
  BY DEF TypeOK, Payload
<1>4. PICK label : /\ label = IF job[w].title /\ row[p].title # 0 THEN "storeTitle"
                              ELSE AfterTitle(w, row[p], FALSE)
                   /\ Continue(w, row[p], label)
  BY DEF FindPost
<1>5. CASE job[w].title /\ row[p].title # 0
  BY <1>1, <1>2, <1>4, <1>5 DEF Continue, Goto, TypeOK
<1>6. CASE ~(job[w].title /\ row[p].title # 0) /\ job[w].content /\ row[p].content # 0
  <2>1. label = "storeContent"
    BY <1>4, <1>6 DEF AfterTitle
  <2>. QED  BY <1>1, <1>2, <1>4, <1>6, <2>1 DEF Continue, Goto, TypeOK
<1>7. CASE ~(job[w].title /\ row[p].title # 0) /\ ~(job[w].content /\ row[p].content # 0)
  <2>1. label = "return"
    BY <1>3, <1>4, <1>7 DEF AfterTitle
  <2>. QED  BY <1>1, <1>2, <1>4, <1>7, <2>1 DEF Continue, Finish, Goto, LoopTop, TypeOK
<1>. QED  BY <1>3, <1>5, <1>6, <1>7

LEMMA TitleLeads ==
  ASSUME TypeOK, HeldJobs, NEW w \in Workers, StoreTitle(w)
  PROVE  LET p == job[w].post IN
         /\ p \in Posts /\ Live(p) /\ pc[w] = "storeTitle"
         /\ titleEmb' = [titleEmb EXCEPT ![p] = snap[w].title]
         /\ UNCHANGED <<queue, failed, row, chunks, asking, answerCache, edits, faults, lost>>
         /\ \/ /\ pc'[w] = "storeContent" /\ job' = job /\ snap'[w] = snap[w]
               /\ job[w].content /\ snap[w].content # 0
            \/ pc'[w] = "invalidate" /\ job' = job /\ ~job[w].content
            \/ pc'[w] \in {"brpop", "exited"} /\ Skipping(w)
<1>. DEFINE p == job[w].post
<1>1. p \in Posts /\ pc[w] = "storeTitle"
  BY DEF StoreTitle, HeldJobs, InJob
<1>2. /\ Live(p) /\ titleEmb' = [titleEmb EXCEPT ![p] = snap[w].title]
      /\ UNCHANGED <<queue, failed, row, chunks, asking, answerCache, edits, faults, lost>>
  BY DEF StoreTitle, redisVars, boundVars
<1>3. job[w].content \in BOOLEAN
  BY DEF TypeOK, Payload
<1>4. PICK label : label = AfterTitle(w, snap[w], TRUE) /\ Continue(w, snap[w], label)
  BY DEF StoreTitle
<1>5. CASE job[w].content /\ snap[w].content # 0
  <2>1. label = "storeContent"
    BY <1>4, <1>5 DEF AfterTitle
  <2>. QED  BY <1>1, <1>2, <1>4, <1>5, <2>1 DEF Continue, Goto, TypeOK
<1>6. CASE job[w].content /\ snap[w].content = 0
  <2>1. label = "return"
    BY <1>4, <1>6 DEF AfterTitle
  <2>. QED  BY <1>1, <1>2, <1>4, <1>6, <2>1
            DEF Continue, Finish, Goto, LoopTop, TypeOK, Skipping
<1>7. CASE ~job[w].content
  <2>1. label = "invalidate"
    BY <1>4, <1>7 DEF AfterTitle
  <2>. QED  BY <1>1, <1>2, <1>4, <1>7, <2>1 DEF Continue, Goto, TypeOK
<1>. QED  BY <1>3, <1>5, <1>6, <1>7

LEMMA ContentLeads ==
  ASSUME TypeOK, HeldJobs, NEW w \in Workers, StoreContent(w)
  PROVE  LET p == job[w].post IN
         /\ p \in Posts /\ Live(p) /\ pc[w] = "storeContent" /\ pc'[w] = "invalidate"
         /\ chunks' = [chunks EXCEPT ![p] = snap[w].content]
         /\ UNCHANGED <<queue, failed, job, row, titleEmb, asking, answerCache, edits,
                       faults, lost>>
BY DEF StoreContent, HeldJobs, InJob, Goto, TypeOK, redisVars, boundVars, history

-----------------------------------------------------------------------------
(* Versions only grow.                                                     *)

\* A step that changes no text and no embedding, and neither loads nor stores.
LEMMA AscendingElsewhere ==
  ASSUME OneWorker, Ascending, NEW w \in Workers, UNCHANGED <<row, titleEmb, chunks, edits>>,
         \/ pc'[w] \notin {"storeTitle", "storeContent"}
         \/ UNCHANGED <<pc, job, snap>>
  PROVE  Ascending'
<1>1. RowsAhead'
  BY DEF Ascending, RowsAhead
<1>2. SnapBetween(w)'
  BY DEF Ascending, SnapBetween
<1>. QED  BY <1>1, <1>2 DEF Ascending, OneWorker

\* What the three awaits and the backend do not do leaves the texts alone.
LEMMA OtherSteps ==
  ASSUME TypeOK, NEW w \in Workers, Step(w) \/ Fault(w),
         ~FindPost(w), ~StoreTitle(w), ~StoreContent(w)
  PROVE  /\ UNCHANGED <<row, titleEmb, chunks, edits>>
         /\ \/ pc'[w] \notin {"storeTitle", "storeContent"}
            \/ UNCHANGED <<pc, job, snap>>
<1>1. CASE Take(w)
  BY <1>1 DEF Take, TakeMalformed, TakeNull, TakeInvalid, TakeUntargeted, TakeJob, Throw, Finish,
              Goto, LoopTop, TypeOK, dbVars, boundVars
<1>2. CASE Process(w)
  BY <1>2 DEF Process, InvalidateCache, JobError, Throw, Finish, Goto, LoopTop, TypeOK,
              dbVars, boundVars
<1>3. CASE Settle(w) \/ Restart(w)
  BY <1>3 DEF Settle, Requeue, RequeueFails, Resume, PushFailed, PushFailedSwallowed,
              Restart, Goto, LoopTop, TypeOK, dbVars, boundVars
<1>4. CASE Fault(w)
  BY <1>4 DEF Fault, InvalidateFails, ReplyUnread, ReplyLost, Signal, Exit, Finish, Goto,
              LoopTop, TypeOK, workerVars, dbVars, boundVars
<1>. QED  BY <1>1, <1>2, <1>3, <1>4 DEF Step

LEMMA VersionsNat ==
  ASSUME TypeOK
  PROVE  /\ edits \in Nat
         /\ \A p \in Posts : /\ titleEmb[p] \in Nat /\ chunks[p] \in Nat
                             /\ row[p].title \in Nat /\ row[p].content \in Nat
         /\ \A w \in Workers : snap[w].title \in Nat /\ snap[w].content \in Nat
<1>1. /\ edits \in 0 .. MaxEdits /\ titleEmb \in [Posts -> Version]
      /\ chunks \in [Posts -> Version] /\ row \in [Posts -> Row]
      /\ snap \in [Workers -> Row]
  BY DEF TypeOK
<1>2. Version \subseteq Nat /\ edits \in Nat
  BY <1>1, WorkerAssumption DEF Version
<1>3. \A r \in Row : r.title \in Nat /\ r.content \in Nat
  BY <1>2 DEF Row
<1>. QED  BY <1>1, <1>2, <1>3

LEMMA AscendingInit == Init => Ascending
BY WorkerAssumption DEF Init, Ascending, RowsAhead, SnapBetween, NoRow

LEMMA AscendingStep ==
  ASSUME OneWorker, TypeOK, HeldJobs, Ascending, [Next]_vars
  PROVE  Ascending'
<1>0. /\ edits \in Nat
      /\ \A p \in Posts : /\ titleEmb[p] \in Nat /\ chunks[p] \in Nat
                          /\ row[p].title \in Nat /\ row[p].content \in Nat
      /\ \A w \in Workers : snap[w].title \in Nat /\ snap[w].content \in Nat
      /\ \A w \in Workers : pc[w] \in InJob => job[w].post \in Posts
  BY VersionsNat DEF HeldJobs
<1>1. ASSUME NEW p \in Posts, SavePost(p) PROVE Ascending'
  <2>1. PICK t \in {row[p].title, 0, edits + 1}, c \in {row[p].content, 0, edits + 1} :
          row' = [row EXCEPT ![p] = [state |-> "live", title |-> t, content |-> c]]
    BY <1>1 DEF SavePost
  <2>2. edits' = edits + 1 /\ UNCHANGED <<titleEmb, chunks, pc, job, snap>>
    BY <1>1 DEF SavePost, workerVars
  <2>3. /\ row'[p].title = t /\ row'[p].content = c
        /\ \A q \in Posts : q # p => row'[q] = row[q]
    BY <2>1 DEF TypeOK
  <2>4. RowsAhead'
    BY <1>0, <2>2, <2>3 DEF Ascending, RowsAhead
  <2>5. ASSUME NEW w \in Workers PROVE SnapBetween(w)'
    <3>1. CASE pc[w] \in {"storeTitle", "storeContent"}
      <4>1. job[w].post \in Posts /\ SnapBetween(w)
        BY <1>0, <3>1 DEF InJob, Ascending
      <4>. QED  BY <1>0, <2>2, <2>3, <4>1 DEF SnapBetween
    <3>2. CASE pc[w] \notin {"storeTitle", "storeContent"}
      BY <2>2, <3>2 DEF SnapBetween
    <3>. QED  BY <3>1, <3>2
  <2>. QED  BY <2>4, <2>5 DEF Ascending
<1>2. ASSUME NEW p \in Posts, DeletePost(p) PROVE Ascending'
  <2>1. /\ edits' = edits + 1 /\ UNCHANGED <<pc, job, snap>>
        /\ row'[p].title = 0 /\ row'[p].content = 0 /\ titleEmb'[p] = 0 /\ chunks'[p] = 0
        /\ \A q \in Posts : q # p => /\ row'[q] = row[q]
                                     /\ titleEmb'[q] = titleEmb[q] /\ chunks'[q] = chunks[q]
    BY <1>2 DEF DeletePost, TypeOK, NoRow, workerVars
  <2>2. RowsAhead'
    BY <1>0, <2>1 DEF Ascending, RowsAhead
  <2>3. ASSUME NEW w \in Workers PROVE SnapBetween(w)'
    <3>1. CASE pc[w] \in {"storeTitle", "storeContent"}
      <4>1. job[w].post \in Posts /\ SnapBetween(w)
        BY <1>0, <3>1 DEF InJob, Ascending
      <4>. QED  BY <1>0, <2>1, <4>1 DEF SnapBetween
    <3>2. CASE pc[w] \notin {"storeTitle", "storeContent"}
      BY <2>1, <3>2 DEF SnapBetween
    <3>. QED  BY <3>1, <3>2
  <2>. QED  BY <2>2, <2>3 DEF Ascending
<1>3. ASSUME PushUnusable \/ AskNext \/ UNCHANGED vars
      PROVE  Ascending'
  <2>1. UNCHANGED <<row, titleEmb, chunks, edits, pc, job, snap>>
    BY <1>3 DEF PushUnusable, AskNext, AskReads, AskCaches, vars, workerVars, dbVars,
                boundVars
  <2>. QED  BY <2>1, WorkerAssumption, AscendingElsewhere
<1>4. ASSUME NEW w \in Workers, FindPost(w) PROVE Ascending'
  <2>1. job[w].post \in Posts /\ UNCHANGED <<row, titleEmb, chunks, edits>>
    BY <1>4, FindLeads DEF dbVars
  <2>2. RowsAhead'
    BY <2>1 DEF Ascending, RowsAhead
  <2>3. SnapBetween(w)'
    BY <1>0, <1>4, <2>1, FindLeads DEF SnapBetween, Ascending, RowsAhead
  <2>. QED  BY <2>2, <2>3 DEF Ascending, OneWorker
<1>5. ASSUME NEW w \in Workers, StoreTitle(w) PROVE Ascending'
  <2>1. /\ job[w].post \in Posts /\ UNCHANGED <<row, chunks, edits>>
        /\ pc[w] = "storeTitle"
        /\ titleEmb'[job[w].post] = snap[w].title
        /\ \A q \in Posts : q # job[w].post => titleEmb'[q] = titleEmb[q]
    BY <1>5, TitleLeads DEF TypeOK
  <2>2. RowsAhead'
    BY <1>0, <2>1 DEF Ascending, RowsAhead, SnapBetween
  <2>3. SnapBetween(w)'
    BY <1>5, <2>1, TitleLeads DEF SnapBetween, Ascending
  <2>. QED  BY <2>2, <2>3 DEF Ascending, OneWorker
<1>6. ASSUME NEW w \in Workers, StoreContent(w) PROVE Ascending'
  <2>1. /\ job[w].post \in Posts /\ UNCHANGED <<row, titleEmb, edits>>
        /\ pc[w] = "storeContent" /\ pc'[w] = "invalidate"
        /\ chunks'[job[w].post] = snap[w].content
        /\ \A q \in Posts : q # job[w].post => chunks'[q] = chunks[q]
    BY <1>6, ContentLeads DEF TypeOK
  <2>2. RowsAhead'
    BY <1>0, <2>1 DEF Ascending, RowsAhead, SnapBetween
  <2>3. SnapBetween(w)'
    BY <2>1 DEF SnapBetween
  <2>. QED  BY <2>2, <2>3 DEF Ascending, OneWorker
<1>7. ASSUME NEW w \in Workers, Step(w) \/ Fault(w),
             ~FindPost(w), ~StoreTitle(w), ~StoreContent(w)
      PROVE  Ascending'
  BY <1>7, OtherSteps, AscendingElsewhere
<1>. QED  BY <1>1, <1>2, <1>3, <1>4, <1>5, <1>6, <1>7 DEF Next, WorkerNext, BackendNext

\* A step never takes the embeddings of a live post back to an older text.
LEMMA AscendingRegress ==
  ASSUME OneWorker, TypeOK, HeldJobs, Ascending, [Next]_vars, NEW p \in Posts, Live(p)'
  PROVE  titleEmb'[p] >= titleEmb[p] /\ chunks'[p] >= chunks[p]
<1>0. titleEmb[p] \in Nat /\ chunks[p] \in Nat
  BY WorkerAssumption DEF TypeOK, Version
<1>1. CASE UNCHANGED <<titleEmb, chunks>>
  BY <1>0, <1>1
<1>2. ASSUME NEW q \in Posts, DeletePost(q)
      PROVE  titleEmb'[p] = titleEmb[p] /\ chunks'[p] = chunks[p]
  <2>1. p # q
    BY <1>2 DEF DeletePost, Live, TypeOK, NoRow
  <2>. QED  BY <1>2, <2>1 DEF DeletePost, TypeOK
<1>3. ASSUME NEW w \in Workers, StoreTitle(w)
      PROVE  titleEmb'[p] >= titleEmb[p] /\ chunks'[p] >= chunks[p]
  <2>1. SnapBetween(w) /\ snap[w].title \in Nat
    BY WorkerAssumption DEF Ascending, TypeOK, Row, Version
  <2>2. /\ pc[w] = "storeTitle" /\ chunks' = chunks
        /\ titleEmb'[p] = IF p = job[w].post THEN snap[w].title ELSE titleEmb[p]
    BY <1>3, TitleLeads DEF TypeOK
  <2>3. p = job[w].post => titleEmb[p] <= snap[w].title
    BY <2>1, <2>2 DEF SnapBetween
  <2>. QED  BY <1>0, <2>1, <2>2, <2>3
<1>4. ASSUME NEW w \in Workers, StoreContent(w)
      PROVE  titleEmb'[p] >= titleEmb[p] /\ chunks'[p] >= chunks[p]
  <2>1. SnapBetween(w) /\ snap[w].content \in Nat
    BY WorkerAssumption DEF Ascending, TypeOK, Row, Version
  <2>2. /\ pc[w] = "storeContent" /\ titleEmb' = titleEmb
        /\ chunks'[p] = IF p = job[w].post THEN snap[w].content ELSE chunks[p]
    BY <1>4, ContentLeads DEF TypeOK
  <2>3. p = job[w].post => chunks[p] <= snap[w].content
    BY <2>1, <2>2 DEF SnapBetween
  <2>. QED  BY <1>0, <2>1, <2>2, <2>3
<1>5. ASSUME NEW w \in Workers, Step(w) \/ Fault(w), ~StoreTitle(w), ~StoreContent(w)
      PROVE  UNCHANGED <<titleEmb, chunks>>
  BY <1>5, OtherSteps, FindLeads DEF dbVars
<1>6. CASE (\E q \in Posts : SavePost(q)) \/ AskNext \/ PushUnusable \/ UNCHANGED vars
  BY <1>1, <1>6 DEF SavePost, AskNext, AskReads, AskCaches, PushUnusable, vars, dbVars
<1>. QED  BY <1>0, <1>1, <1>2, <1>3, <1>4, <1>5, <1>6 DEF Next, WorkerNext, BackendNext

-----------------------------------------------------------------------------
(* How the steps of a worker move a job.                                   *)

LEMMA QueuedAppend ==
  ASSUME TypeOK, NEW e \in Payload, queue' = Append(queue, e)
  PROVE  Queued' = Queued \cup {e}
<1>1. /\ DOMAIN Append(queue, e) = 1 .. Len(queue) + 1
      /\ \A n \in 1 .. Len(queue) : Append(queue, e)[n] = queue[n]
      /\ Append(queue, e)[Len(queue) + 1] = e
      /\ DOMAIN queue = 1 .. Len(queue) /\ Len(queue) \in Nat
  BY AppendProperties DEF TypeOK
<1>. QED  BY <1>1 DEF Queued

LEMMA QueuedTail ==
  ASSUME TypeOK, queue # <<>>, queue' = Tail(queue)
  PROVE  Queued = Queued' \cup {Head(queue)} /\ Head(queue) \in Payload
<1>1. /\ Head(queue) \in Payload /\ Head(queue) = queue[1] /\ Len(queue) \in Nat \ {0}
      /\ DOMAIN queue = 1 .. Len(queue) /\ DOMAIN Tail(queue) = 1 .. Len(queue) - 1
      /\ \A n \in 1 .. Len(queue) - 1 : Tail(queue)[n] = queue[n + 1]
  BY HeadTailProperties, LenProperties DEF TypeOK
<1>2. ASSUME NEW n \in 1 .. Len(queue)
      PROVE  queue[n] = Head(queue) \/ \E m \in 1 .. Len(queue) - 1 : queue[n] = Tail(queue)[m]
  <2>1. CASE n = 1
    BY <1>1, <2>1
  <2>2. CASE n # 1
    <3>1. n - 1 \in 1 .. Len(queue) - 1 /\ (n - 1) + 1 = n
      BY <1>1, <2>2
    <3>2. Tail(queue)[n - 1] = queue[n]
      BY <1>1, <3>1
    <3>. QED  BY <3>1, <3>2
  <2>. QED  BY <2>1, <2>2
<1>3. Queued \subseteq Queued' \cup {Head(queue)}
  <2>1. Queued' = {Tail(queue)[m] : m \in 1 .. Len(queue) - 1}
    BY <1>1 DEF Queued
  <2>. QED  BY ZenonT(30), <1>1, <1>2, <2>1 DEF Queued
<1>4. Head(queue) \in Queued
  BY <1>1 DEF Queued
<1>5. ASSUME NEW m \in 1 .. Len(queue) - 1 PROVE Tail(queue)[m] \in Queued
  BY <1>1 DEF Queued
<1>6. Queued' \subseteq Queued
  BY <1>1, <1>5 DEF Queued
<1>. QED  BY <1>1, <1>3, <1>4, <1>6

Useful(e) == e.json /\ e.post \in Posts /\ (e.title \/ e.content)

\* BRPOP returns a payload that asks for no work, or one that is taken.
Discards(w) == /\ Pop(w) /\ ~Useful(Head(queue))
               /\ pc'[w] \notin {"storeTitle", "storeContent"}
Takes(w) == /\ Pop(w) /\ Useful(Head(queue))
            /\ job'[w] = Head(queue) /\ pc'[w] = "find"

\* A run fails, and the payload will be pushed again, to one list or the other.
Throws(w) == /\ pc[w] \in {"find", "storeTitle", "storeContent"}
             /\ pc'[w] \in {"backoff", "lpushFailed"}
             /\ job'[w].post = job[w].post
             /\ job'[w].title = job[w].title /\ job'[w].content = job[w].content
             /\ queue' = queue

Requeues(w) == /\ pc[w] = "backoff" /\ job[w].json /\ queue' = Append(queue, job[w])
               /\ pc'[w] = "brpop"

\* A payload is added while the worker waits to requeue its own.
Grows(w) == /\ pc[w] = "backoff" /\ UNCHANGED <<pc, job, snap>>
            /\ \E e \in Payload : queue' = Append(queue, e)

\* Nothing was held, nothing is; or nothing at all moves.
Idles(w) == /\ pc[w] \notin Holding /\ pc'[w] \notin Holding /\ queue' = queue
Rests == UNCHANGED <<pc, job, snap, queue>>

\* Every step of a worker other than the awaits of a running processJob.
LEMMA Movements ==
  ASSUME TypeOK, HeldJobs, NEW w \in Workers, Step(w) \/ Fault(w),
         ~FindPost(w), ~StoreTitle(w), ~StoreContent(w), ~InvalidateCache(w),
         ~InvalidateFails(w)
  PROVE  /\ UNCHANGED <<row, titleEmb, chunks, asking, answerCache>>
         /\ faults'["cache"] = faults["cache"]
         /\ \/ failed' # <<>> \/ lost' # {}
            \/ /\ failed' = failed /\ lost' = lost
               /\ \/ Discards(w) \/ Takes(w) \/ Throws(w) \/ Requeues(w) \/ Idles(w)
                  \/ Rests \/ Grows(w)
<1>0. /\ job[w] \in Payload
      /\ queue # <<>> => Head(queue) \in Payload
  BY IdsTail DEF TypeOK
<1>1. UNCHANGED <<row, titleEmb, chunks, asking, answerCache>>
  BY DEF Step, Fault, Take, TakeMalformed, TakeNull, TakeInvalid, TakeUntargeted, TakeJob,
         Process, JobError, Settle, Requeue, RequeueFails, Resume, PushFailed,
         PushFailedSwallowed, Restart, ReplyUnread, ReplyLost, Signal, Exit, dbVars
<1>2. \/ faults' = faults
      \/ \E k \in FaultKinds \ {"cache"} : Spend(k)
  BY DEF Step, Fault, Take, TakeMalformed, TakeNull, TakeInvalid, TakeUntargeted, TakeJob,
         Process, JobError, Settle, Requeue, RequeueFails, Resume, PushFailed,
         PushFailedSwallowed, Restart, ReplyUnread, ReplyLost, Signal, Exit, RedisRejects,
         FaultKinds
<1>3. faults'["cache"] = faults["cache"]
  BY <1>2 DEF Spend, TypeOK, FaultKinds
<1>4. CASE TakeMalformed(w)
  <2>1. Discards(w) /\ failed' = failed /\ lost' = lost
    BY <1>4 DEF TakeMalformed, Discards, Useful, Goto, TypeOK, history
  <2>. QED  BY <1>1, <1>3, <2>1
<1>5. CASE TakeInvalid(w)
  <2>1. Discards(w) /\ failed' = failed /\ lost' = lost
    BY <1>5, WorkerAssumption DEF TakeInvalid, Discards, Useful, Throw, Goto, TypeOK
  <2>. QED  BY <1>1, <1>3, <2>1
<1>6. CASE TakeUntargeted(w)
  <2>1. Discards(w) /\ failed' = failed /\ lost' = lost
    BY <1>6 DEF TakeUntargeted, Discards, Useful, Finish, Goto, LoopTop, TypeOK
  <2>. QED  BY <1>1, <1>3, <2>1
<1>7. CASE TakeJob(w)
  <2>1. Takes(w) /\ failed' = failed /\ lost' = lost
    BY <1>0, <1>7 DEF TakeJob, Takes, Useful, Goto, Pop, TypeOK
  <2>. QED  BY <1>1, <1>3, <2>1
<1>8. CASE JobError(w)
  <2>1. Throws(w) /\ failed' = failed /\ lost' = lost
    BY <1>0, <1>8 DEF JobError, Throws, Throw, Goto, TypeOK, Payload, redisVars, history
  <2>. QED  BY <1>1, <1>3, <2>1
<1>9. CASE Requeue(w)
  <2>1. Requeues(w) /\ failed' = failed /\ lost' = lost
    BY <1>9 DEF Requeue, Requeues, HeldJobs, Goto, TypeOK, history
  <2>. QED  BY <1>1, <1>3, <2>1
<1>10. CASE RequeueFails(w) \/ PushFailedSwallowed(w) \/ ReplyLost(w) \/ TakeNull(w)
  <2>1. lost' # {}
    BY <1>10 DEF RequeueFails, PushFailedSwallowed, ReplyLost, TakeNull, Lose
  <2>. QED  BY <1>1, <1>3, <2>1
<1>11. CASE PushFailed(w)
  <2>1. failed' = Append(failed, job[w]) /\ failed \in Seq(Payload)
    BY <1>11 DEF PushFailed, TypeOK
  <2>2. Len(failed') = Len(failed) + 1 /\ Len(failed) \in Nat /\ Len(<<>>) = 0
    BY <1>0, <2>1, AppendProperties
  <2>3. failed' # <<>>
    BY <2>2
  <2>. QED  BY <1>1, <1>3, <2>3
<1>12. CASE Resume(w) \/ Restart(w)
  <2>1. Idles(w) /\ failed' = failed /\ lost' = lost
    BY <1>12 DEF Resume, Restart, Idles, Goto, LoopTop, TypeOK, Holding, InJob, redisVars,
                 history
  <2>. QED  BY <1>1, <1>3, <2>1
<1>13. CASE Signal(w)
  <2>1. (Idles(w) \/ Rests) /\ failed' = failed /\ lost' = lost
    BY <1>13 DEF Signal, Idles, Rests, Goto, TypeOK, Holding, InJob, redisVars, history
  <2>. QED  BY <1>1, <1>3, <2>1
<1>14. CASE Exit(w)
  <2>1. lost' # {} \/ (Idles(w) /\ failed' = failed /\ lost' = lost)
    BY <1>14 DEF Exit, Idles, Lose, Goto, TypeOK, Holding, InJob, redisVars
  <2>. QED  BY <1>1, <1>3, <2>1
<1>15. CASE ReplyUnread(w)
  <2>1. PICK e \in Payload :
          \/ pc[w] = "backoff" /\ queue' = Append(queue, e) /\ failed' = failed
          \/ pc[w] = "lpushFailed" /\ failed' = Append(failed, e) /\ queue' = queue
    BY <1>15, CopyTyped DEF ReplyUnread
  <2>2. lost' = lost /\ UNCHANGED <<pc, job, snap>>
    BY <1>15 DEF ReplyUnread, workerVars
  <2>3. CASE pc[w] = "backoff" /\ queue' = Append(queue, e) /\ failed' = failed
    <3>1. Grows(w)
      BY <2>2, <2>3 DEF Grows
    <3>. QED  BY <1>1, <1>3, <2>2, <2>3, <3>1
  <2>4. CASE failed' = Append(failed, e)
    <3>1. Len(failed') = Len(failed) + 1 /\ Len(failed) \in Nat /\ Len(<<>>) = 0
      BY <2>4, AppendProperties DEF TypeOK
    <3>2. failed' # <<>>
      BY <3>1
    <3>. QED  BY <1>1, <1>3, <3>2
  <2>. QED  BY <2>1, <2>3, <2>4
<1>. QED  BY <1>4, <1>5, <1>6, <1>7, <1>8, <1>9, <1>10, <1>11, <1>12, <1>13, <1>14, <1>15
          DEF Step, Fault, Take, Process, Settle

-----------------------------------------------------------------------------
(* A text that is not embedded yet has a job.                              *)

LEMMA PendingMoves ==
  ASSUME OneWorker, TypeOK, HeldJobs, NEW w \in Workers, NEW p \in Posts, row' = row,
         \/ Discards(w) \/ Takes(w) \/ Throws(w) \/ Requeues(w) \/ Idles(w)
         \/ Rests \/ Grows(w)
  PROVE  /\ TitlePending(p) => TitlePending(p)'
         /\ ContentPending(p) => ContentPending(p)'
<1>0. /\ TitlePending(p) <=> \/ \E e \in Queued : e.json /\ e.post = p /\ e.title
                             \/ TitleHeld(w, p)
      /\ ContentPending(p) <=> \/ \E e \in Queued : e.json /\ e.post = p /\ e.content
                               \/ ContentHeld(w, p)
  BY DEF OneWorker, TitlePending, ContentPending
<1>1. CASE Discards(w)
  <2>1. pc[w] = "brpop" /\ ~Useful(Head(queue)) /\ Queued = Queued' \cup {Head(queue)}
    BY <1>1, QueuedTail DEF Discards, Pop
  <2>2. ~TitleHeld(w, p) /\ ~ContentHeld(w, p)
    BY <2>1 DEF TitleHeld, ContentHeld
  <2>3. ASSUME NEW e \in Queued, e.json, e.post = p, e.title \/ e.content
        PROVE  e \in Queued'
    BY <2>1, <2>3 DEF Useful
  <2>. QED  BY <1>0, <2>2, <2>3 DEF TitlePending, ContentPending
<1>2. CASE Takes(w)
  <2>1. /\ pc[w] = "brpop" /\ Queued = Queued' \cup {Head(queue)}
        /\ job'[w] = Head(queue) /\ pc'[w] = "find"
    BY <1>2, QueuedTail DEF Takes, Pop
  <2>2. ~TitleHeld(w, p) /\ ~ContentHeld(w, p)
    BY <2>1 DEF TitleHeld, ContentHeld
  <2>3. ASSUME NEW e \in Queued, e.json, e.post = p, e.title
        PROVE  e \in Queued' \/ TitleHeld(w, p)'
    BY <2>1, <2>3 DEF TitleHeld
  <2>4. ASSUME NEW e \in Queued, e.json, e.post = p, e.content
        PROVE  e \in Queued' \/ ContentHeld(w, p)'
    BY <2>1, <2>4 DEF ContentHeld
  <2>. QED  BY <1>0, <2>2, <2>3, <2>4 DEF TitlePending, ContentPending
<1>3. CASE Throws(w)
  <2>1. Queued' = Queued
    BY <1>3 DEF Throws, Queued
  <2>2. TitleHeld(w, p) => TitleHeld(w, p)'
    BY <1>3 DEF Throws, TitleHeld
  <2>3. ContentHeld(w, p) => ContentHeld(w, p)'
    BY <1>3 DEF Throws, ContentHeld
  <2>. QED  BY <1>0, <2>1, <2>2, <2>3 DEF TitlePending, ContentPending
<1>4. CASE Requeues(w)
  <2>1. Queued' = Queued \cup {job[w]} /\ job[w].json
    BY <1>4, QueuedAppend DEF Requeues, TypeOK
  <2>. QED  BY <1>0, <2>1 DEF TitlePending, ContentPending, TitleHeld, ContentHeld
<1>5. CASE Idles(w)
  <2>1. Queued' = Queued
    BY <1>5 DEF Idles, Queued
  <2>2. ~TitleHeld(w, p) /\ ~ContentHeld(w, p)
    BY <1>5 DEF Idles, TitleHeld, ContentHeld, Holding, InJob
  <2>. QED  BY <1>0, <2>1, <2>2 DEF TitlePending, ContentPending
<1>6. CASE Rests
  BY <1>6 DEF Rests, Queued, TitlePending, ContentPending, TitleHeld, ContentHeld
<1>7. CASE Grows(w)
  <2>1. PICK e \in Payload : Queued' = Queued \cup {e}
    BY <1>7, QueuedAppend DEF Grows
  <2>. QED  BY <1>0, <1>7, <2>1 DEF Grows, TitlePending, ContentPending, TitleHeld, ContentHeld
<1>. QED  BY <1>1, <1>2, <1>3, <1>4, <1>5, <1>6, <1>7

LEMMA FreshInit == Init => FreshOrPending
BY DEF Init, FreshOrPending, NoRow

LEMMA FreshStep ==
  ASSUME OneWorker, TypeOK, HeldJobs, Ascending, FreshOrPending, [Next]_vars
  PROVE  FreshOrPending'
<1>. SUFFICES ASSUME failed' = <<>>, lost' = {}, NEW p \in Posts
              PROVE  /\ row'[p].title # 0 /\ titleEmb'[p] # row'[p].title => TitlePending(p)'
                     /\ row'[p].content # 0 /\ chunks'[p] # row'[p].content => ContentPending(p)'
  BY DEF FreshOrPending
<1>. DEFINE TitleFresh == row[p].title # 0 /\ titleEmb[p] # row[p].title => TitlePending(p)
            ContentFresh == row[p].content # 0 /\ chunks[p] # row[p].content => ContentPending(p)
<1>0. /\ titleEmb[p] \in Nat /\ chunks[p] \in Nat
      /\ row[p].title \in Nat /\ row[p].content \in Nat
      /\ \A w \in Workers : snap[w].title \in Nat /\ snap[w].content \in Nat
  BY VersionsNat
<1>a. failed = <<>> /\ lost = {} => TitleFresh /\ ContentFresh
  BY DEF FreshOrPending
<1>1. ASSUME NEW q \in Posts, SavePost(q)
      PROVE  TitleFresh' /\ ContentFresh'
  <2>1. PICK t \in {row[q].title, 0, edits + 1}, c \in {row[q].content, 0, edits + 1} :
          /\ row' = [row EXCEPT ![q] = [state |-> "live", title |-> t, content |-> c]]
          /\ Push(TRUE, q, t # row[q].title, c # row[q].content)
    BY <1>1 DEF SavePost
  <2>. DEFINE e == [id |-> pushed + 1, json |-> TRUE, post |-> q, title |-> t # row[q].title,
                    content |-> c # row[q].content, attempt |-> 0]
  <2>2. e \in Payload /\ queue' = Append(queue, e)
    BY <2>1, WorkerAssumption DEF Push, Payload, TypeOK
  <2>3. /\ Queued' = Queued \cup {e}
        /\ e.json /\ e.post = q
        /\ (e.title <=> t # row[q].title) /\ (e.content <=> c # row[q].content)
    BY <2>2, QueuedAppend
  <2>. HIDE DEF e
  <2>4. /\ UNCHANGED <<failed, lost, titleEmb, chunks, pc, job, snap>>
        /\ row'[q].title = t /\ row'[q].content = c
        /\ p # q => row'[p] = row[p]
    BY <1>1, <2>1 DEF SavePost, TypeOK, workerVars, history
  <2>5. CASE p = q
    <3>1. row'[p].title = row[p].title /\ TitlePending(p) => TitlePending(p)'
      BY <2>3, <2>4 DEF TitlePending, TitleHeld
    <3>2. row'[p].content = row[p].content /\ ContentPending(p) => ContentPending(p)'
      BY <2>3, <2>4 DEF ContentPending, ContentHeld
    <3>3. row'[p].title # row[p].title => TitlePending(p)'
      BY <2>3, <2>4, <2>5 DEF TitlePending
    <3>4. row'[p].content # row[p].content => ContentPending(p)'
      BY <2>3, <2>4, <2>5 DEF ContentPending
    <3>. QED  BY <1>a, <2>4, <3>1, <3>2, <3>3, <3>4
  <2>6. CASE p # q
    <3>1. TitlePending(p) => TitlePending(p)'
      BY <2>3, <2>4, <2>6 DEF TitlePending, TitleHeld
    <3>2. ContentPending(p) => ContentPending(p)'
      BY <2>3, <2>4, <2>6 DEF ContentPending, ContentHeld
    <3>. QED  BY <1>a, <2>4, <2>6, <3>1, <3>2
  <2>. QED  BY <2>5, <2>6
<1>2. ASSUME NEW q \in Posts, DeletePost(q)
      PROVE  TitleFresh' /\ ContentFresh'
  <2>1. PICK e \in Payload : queue' = Append(queue, e)
    BY <1>2, PushTyped DEF DeletePost
  <2>2. /\ Queued' = Queued \cup {e}
        /\ UNCHANGED <<failed, lost, pc, job, snap>>
        /\ row'[q].title = 0 /\ row'[q].content = 0
        /\ p # q => row'[p] = row[p] /\ titleEmb'[p] = titleEmb[p] /\ chunks'[p] = chunks[p]
    BY <1>2, <2>1, QueuedAppend DEF DeletePost, TypeOK, workerVars, history, NoRow
  <2>3. CASE p # q
    <3>1. TitlePending(p) => TitlePending(p)'
      BY <2>2, <2>3 DEF TitlePending, TitleHeld
    <3>2. ContentPending(p) => ContentPending(p)'
      BY <2>2, <2>3 DEF ContentPending, ContentHeld
    <3>. QED  BY <1>a, <2>2, <2>3, <3>1, <3>2
  <2>. QED  BY <2>2, <2>3
<1>3. CASE PushUnusable
  <2>1. PICK e \in Payload : queue' = Append(queue, e)
    BY <1>3, PushTyped DEF PushUnusable
  <2>2. /\ Queued' = Queued \cup {e}
        /\ UNCHANGED <<failed, lost, row, titleEmb, chunks, pc, job, snap>>
    BY <1>3, <2>1, QueuedAppend DEF PushUnusable, workerVars, dbVars, history
  <2>3. TitlePending(p) => TitlePending(p)'
    BY <2>2 DEF TitlePending, TitleHeld
  <2>4. ContentPending(p) => ContentPending(p)'
    BY <2>2 DEF ContentPending, ContentHeld
  <2>. QED  BY <1>a, <2>2, <2>3, <2>4
<1>4. CASE AskNext \/ UNCHANGED vars
  <2>1. UNCHANGED <<queue, failed, lost, row, titleEmb, chunks, pc, job, snap>>
    BY <1>4 DEF AskNext, AskReads, AskCaches, vars, redisVars, workerVars, dbVars, history
  <2>. QED  BY <1>a, <2>1 DEF TitlePending, ContentPending, TitleHeld, ContentHeld, Queued
<1>5. ASSUME NEW w \in Workers, FindPost(w)
      PROVE  TitleFresh' /\ ContentFresh'
  <2>1. /\ Queued' = Queued
        /\ UNCHANGED <<failed, lost, row, titleEmb, chunks>>
    BY <1>5, FindLeads DEF Queued, dbVars
  <2>2. row[p].title # 0 /\ TitleHeld(w, p) => TitleHeld(w, p)'
    BY <1>5, FindLeads DEF TitleHeld, FindPost, dbVars
  <2>3. row[p].content # 0 /\ ContentHeld(w, p) => ContentHeld(w, p)'
    BY <1>5, FindLeads DEF ContentHeld, FindPost, dbVars
  <2>. QED  BY <1>a, <2>1, <2>2, <2>3 DEF TitlePending, ContentPending, OneWorker
<1>6. ASSUME NEW w \in Workers, StoreTitle(w)
      PROVE  TitleFresh' /\ ContentFresh'
  <2>1. /\ Queued' = Queued /\ job[w].post \in Posts /\ pc[w] = "storeTitle"
        /\ UNCHANGED <<failed, lost, row, chunks>>
        /\ titleEmb'[p] = IF p = job[w].post THEN snap[w].title ELSE titleEmb[p]
    BY SMTT(20), <1>6, TitleLeads DEF Queued, TypeOK
  <2>2. /\ TitleHeld(w, p) => titleEmb'[p] = row[p].title
        /\ row[p].title # 0 /\ titleEmb[p] = row[p].title => titleEmb'[p] = row[p].title
    BY <1>0, <2>1 DEF TitleHeld, Ascending, SnapBetween
  <2>3. row[p].content # 0 /\ ContentHeld(w, p) => ContentHeld(w, p)'
    BY <1>6, TitleLeads DEF ContentHeld, Skipping
  <2>. QED  BY <1>a, <2>1, <2>2, <2>3 DEF TitlePending, ContentPending, OneWorker
<1>7. ASSUME NEW w \in Workers, StoreContent(w)
      PROVE  TitleFresh' /\ ContentFresh'
  <2>1. /\ Queued' = Queued /\ job[w].post \in Posts /\ pc[w] = "storeContent"
        /\ UNCHANGED <<failed, lost, row, titleEmb>>
        /\ chunks'[p] = IF p = job[w].post THEN snap[w].content ELSE chunks[p]
    BY <1>7, ContentLeads DEF Queued, TypeOK
  <2>2. /\ ContentHeld(w, p) => chunks'[p] = row[p].content
        /\ row[p].content # 0 /\ chunks[p] = row[p].content => chunks'[p] = row[p].content
    BY <1>0, <2>1 DEF ContentHeld, Ascending, SnapBetween
  <2>3. ~TitleHeld(w, p)
    BY <2>1 DEF TitleHeld
  <2>. QED  BY <1>a, <2>1, <2>2, <2>3 DEF TitlePending, ContentPending, OneWorker
<1>8. ASSUME NEW w \in Workers, InvalidateCache(w) \/ InvalidateFails(w)
      PROVE  TitleFresh' /\ ContentFresh'
  <2>1. /\ UNCHANGED <<queue, failed, lost, row, titleEmb, chunks>>
        /\ pc[w] = "invalidate"
    BY <1>8 DEF InvalidateCache, InvalidateFails, redisVars, dbVars
  <2>2. ~TitleHeld(w, p) /\ ~ContentHeld(w, p)
    BY <2>1 DEF TitleHeld, ContentHeld
  <2>. QED  BY <1>a, <2>1, <2>2 DEF TitlePending, ContentPending, OneWorker, Queued
<1>9. ASSUME NEW w \in Workers, Step(w) \/ Fault(w),
             ~FindPost(w), ~StoreTitle(w), ~StoreContent(w), ~InvalidateCache(w),
             ~InvalidateFails(w)
      PROVE  TitleFresh' /\ ContentFresh'
  <2>1. /\ UNCHANGED <<row, titleEmb, chunks, failed, lost>>
        /\ \/ Discards(w) \/ Takes(w) \/ Throws(w) \/ Requeues(w) \/ Idles(w)
           \/ Rests \/ Grows(w)
    BY <1>9, Movements
  <2>2. /\ TitlePending(p) => TitlePending(p)'
        /\ ContentPending(p) => ContentPending(p)'
    BY <2>1, PendingMoves
  <2>. QED  BY <1>a, <2>1, <2>2
<1>. QED  BY <1>1, <1>2, <1>3, <1>4, <1>5, <1>6, <1>7, <1>8, <1>9
          DEF Next, WorkerNext, BackendNext

-----------------------------------------------------------------------------
(* A stale cached answer will be deleted.                                  *)

LEMMA DeletionMoves ==
  ASSUME OneWorker, TypeOK, HeldJobs, NEW w \in Workers, UNCHANGED row,
         \/ Discards(w) \/ Takes(w) \/ Throws(w) \/ Requeues(w) \/ Idles(w)
         \/ Rests \/ Grows(w)
  PROVE  /\ ContentQueued \/ Deleting(w) => ContentQueued' \/ Deleting(w)'
         /\ Skipping(w)' => Skipping(w) /\ Queued' = Queued
<1>1. CASE Discards(w)
  <2>1. /\ pc[w] = "brpop" /\ ~Useful(Head(queue)) /\ Queued = Queued' \cup {Head(queue)}
        /\ pc'[w] # "storeTitle"
    BY <1>1, QueuedTail DEF Discards, Pop
  <2>2. ~Deleting(w) /\ ~Skipping(w)'
    BY <2>1 DEF Deleting, Skipping
  <2>3. ContentQueued => ContentQueued'
    BY <2>1 DEF ContentQueued, Useful
  <2>. QED  BY <2>2, <2>3
<1>2. CASE Takes(w)
  <2>1. /\ pc[w] = "brpop" /\ Queued = Queued' \cup {Head(queue)}
        /\ job'[w] = Head(queue) /\ pc'[w] = "find"
    BY <1>2, QueuedTail DEF Takes, Pop
  <2>2. ~Deleting(w) /\ ~Skipping(w)'
    BY <2>1 DEF Deleting, Skipping
  <2>3. ContentQueued => ContentQueued' \/ Deleting(w)'
    BY <2>1 DEF ContentQueued, Deleting
  <2>. QED  BY <2>2, <2>3
<1>3. CASE Throws(w)
  BY <1>3 DEF Throws, Deleting, Skipping, ContentQueued, Queued
<1>4. CASE Requeues(w)
  <2>1. Queued' = Queued \cup {job[w]} /\ job[w].json /\ pc[w] = "backoff" /\ pc'[w] = "brpop"
    BY <1>4, QueuedAppend DEF Requeues, TypeOK
  <2>2. ~Skipping(w)' /\ (ContentQueued => ContentQueued')
    BY <2>1 DEF Skipping, ContentQueued
  <2>3. Deleting(w) => ContentQueued'
    BY <2>1 DEF Deleting, ContentQueued
  <2>. QED  BY <2>2, <2>3
<1>5. CASE Idles(w)
  BY <1>5 DEF Idles, Deleting, Skipping, ContentQueued, Queued, Holding, InJob
<1>6. CASE Rests
  BY <1>6 DEF Rests, Deleting, Skipping, ContentQueued, Queued
<1>7. CASE Grows(w)
  <2>1. PICK e \in Payload : Queued' = Queued \cup {e}
    BY <1>7, QueuedAppend DEF Grows
  <2>. QED  BY <1>7, <2>1 DEF Grows, Deleting, Skipping, ContentQueued
<1>. QED  BY <1>1, <1>2, <1>3, <1>4, <1>5, <1>6, <1>7

LEMMA StaleInit == Init => StaleGoes
BY DEF Init, StaleGoes, Skipping, Answers

\* A new payload and a change of some rows: what was to be deleted still is.
LEMMA StalePush ==
  ASSUME TypeOK, StaleGoes, NEW e \in Payload, queue' = Append(queue, e),
         UNCHANGED <<failed, lost, faults, asking, answerCache, pc, job, snap>>,
         \A a \in Answers : row'[a.post].state # "absent",
         \A a \in Answers : Current(a) => Current(a)',
         BlankBody => BlankBody' \/ (e.json /\ e.post \in Posts /\ e.content)
  PROVE  StaleGoes'
<1>1. Queued' = Queued \cup {e}
  BY QueuedAppend
<1>2. ContentQueued \/ BlankBody => ContentQueued' \/ BlankBody'
  BY <1>1 DEF ContentQueued
<1>3. \A w \in Workers : (Deleting(w)' <=> Deleting(w)) /\ (Skipping(w)' <=> Skipping(w))
  BY DEF Deleting, Skipping
<1>4. NothingFailed' => NothingFailed
  BY DEF NothingFailed
<1>5. Answers' = Answers
  BY DEF Answers
<1>6. (\A a \in Answers : Kept(a)) => \A a \in Answers : Kept(a)'
  BY DEF Kept
<1>. QED  BY <1>2, <1>3, <1>4, <1>5, <1>6 DEF StaleGoes

LEMMA StaleStep ==
  ASSUME OneWorker, TypeOK, HeldJobs, FaultsSpent, StaleGoes, [Next]_vars
  PROVE  StaleGoes'
<1>0. \A a \in Answers : a.post \in Posts
  BY DEF TypeOK, Answer, Answers
<1>1. ASSUME NEW q \in Posts, SavePost(q) PROVE StaleGoes'
  <2>1. PICK t \in {row[q].title, 0, edits + 1}, c \in {row[q].content, 0, edits + 1} :
          /\ row' = [row EXCEPT ![q] = [state |-> "live", title |-> t, content |-> c]]
          /\ Push(TRUE, q, t # row[q].title, c # row[q].content)
    BY <1>1 DEF SavePost
  <2>. DEFINE e == [id |-> pushed + 1, json |-> TRUE, post |-> q, title |-> t # row[q].title,
                    content |-> c # row[q].content, attempt |-> 0]
  <2>2. e \in Payload /\ queue' = Append(queue, e)
    BY <2>1, WorkerAssumption DEF Push, Payload, TypeOK
  <2>3. e.json /\ e.post = q /\ (e.content <=> c # row[q].content)
    OBVIOUS
  <2>. HIDE DEF e
  <2>4. /\ UNCHANGED <<failed, lost, faults, asking, answerCache, titleEmb, chunks, pc, job, snap>>
        /\ row[q].state # "deleted"
        /\ row'[q].state = "live" /\ row'[q].content = c
        /\ \A p \in Posts : p # q => row'[p] = row[p]
    BY <1>1, <2>1 DEF SavePost, TypeOK, workerVars, history
  <2>5. \A a \in Answers : row[a.post].state # "absent" /\ row'[a.post].state # "absent"
    BY <1>0, <2>4 DEF StaleGoes
  <2>6. \A p \in Posts : row[p].state \in {"absent", "live", "deleted"}
    BY DEF TypeOK, Row
  <2>7. \A a \in Answers : Current(a) => Current(a)'
    BY <1>0, <2>4, <2>5, <2>6 DEF Current, Live
  <2>8. BlankBody => BlankBody' \/ e.content
    BY <2>3, <2>4 DEF BlankBody, Live
  <2>. QED  BY <2>2, <2>3, <2>4, <2>5, <2>7, <2>8, StalePush
<1>2. ASSUME NEW q \in Posts, DeletePost(q) PROVE StaleGoes'
  <2>. DEFINE e == [id |-> pushed + 1, json |-> TRUE, post |-> q, title |-> TRUE,
                    content |-> TRUE, attempt |-> 0]
  <2>1. e \in Payload /\ queue' = Append(queue, e)
    BY SMTT(20), <1>2, WorkerAssumption DEF DeletePost, Push, Payload, TypeOK
  <2>2. e.json /\ e.post \in Posts /\ e.content
    OBVIOUS
  <2>. HIDE DEF e
  <2>3. /\ UNCHANGED <<failed, lost, faults, asking, answerCache, pc, job, snap>>
        /\ row'[q].state = "deleted"
        /\ \A p \in Posts : p # q => /\ row'[p] = row[p] /\ titleEmb'[p] = titleEmb[p]
                                     /\ chunks'[p] = chunks[p]
    BY <1>2 DEF DeletePost, TypeOK, workerVars, history, NoRow
  <2>4. \A a \in Answers : Current(a) => Current(a)'
    BY <1>0, <2>3 DEF Current, Live
  <2>5. \A a \in Answers : row'[a.post].state # "absent"
    BY <1>0, <2>3 DEF StaleGoes
  <2>. QED  BY <2>1, <2>2, <2>3, <2>4, <2>5, StalePush
<1>3. CASE PushUnusable
  <2>1. PICK e \in Payload : queue' = Append(queue, e)
    BY <1>3, PushTyped DEF PushUnusable
  <2>2. UNCHANGED <<failed, lost, faults, row, titleEmb, chunks, asking, answerCache, pc, job,
                  snap>>
    BY <1>3 DEF PushUnusable, workerVars, dbVars, history
  <2>3. /\ \A a \in Answers : row'[a.post].state # "absent"
        /\ \A a \in Answers : Current(a) => Current(a)'
        /\ BlankBody => BlankBody'
    BY <2>2 DEF StaleGoes, Current, Live, BlankBody
  <2>. QED  BY <2>1, <2>2, <2>3, StalePush
<1>4. CASE AskNext
  <2>1. UNCHANGED <<queue, failed, lost, faults, row, titleEmb, chunks, pc, job, snap>>
    BY <1>4 DEF AskNext, AskReads, AskCaches, redisVars, workerVars, history
  <2>2. \A a \in Answers' : a \in Answers \/ (Live(a.post) /\ Current(a))
    <3>1. ASSUME NEW p \in Posts, AskReads(p)
          PROVE  \A a \in Answers' : a \in Answers \/ (Live(a.post) /\ Current(a))
      <4>. DEFINE b == [post |-> p, title |-> titleEmb[p], content |-> chunks[p],
                        overlapped |-> FALSE]
      <4>1. Answers' = Answers \cup {b} /\ Live(b.post) /\ Current(b)
        BY <3>1 DEF AskReads, Answers, Current
      <4>. QED  BY <4>1
    <3>2. ASSUME NEW a \in asking, AskCaches(a) PROVE Answers' = Answers
      BY <3>2 DEF AskCaches, Answers
    <3>. QED  BY <1>4, <3>1, <3>2 DEF AskNext
  <2>3. \A a \in Answers' : row[a.post].state # "absent"
    BY <2>2 DEF StaleGoes, Live
  <2>4. (\A a \in Answers : Kept(a)) => \A a \in Answers' : Kept(a)'
    BY <2>1, <2>2 DEF Kept, Current, Live
  <2>5. /\ NothingFailed' = NothingFailed /\ ContentQueued' = ContentQueued
        /\ BlankBody' = BlankBody
        /\ \A w \in Workers : Deleting(w)' = Deleting(w) /\ Skipping(w)' = Skipping(w)
    BY <2>1 DEF NothingFailed, ContentQueued, Queued, BlankBody, Live, Deleting, Skipping
  <2>. QED  BY <2>1, <2>3, <2>4, <2>5 DEF StaleGoes
<1>5. CASE UNCHANGED vars
  BY <1>5 DEF vars, redisVars, workerVars, dbVars, history, StaleGoes, NothingFailed,
              ContentQueued, Queued, BlankBody, Deleting, Skipping, Current, Live,
              Answers, Kept
<1>6. ASSUME NEW w \in Workers, FindPost(w) PROVE StaleGoes'
  <2>1. UNCHANGED <<queue, failed, row, titleEmb, chunks, asking, answerCache, faults, lost>>
    BY <1>6, FindLeads DEF dbVars
  <2>2. /\ NothingFailed' = NothingFailed /\ ContentQueued' = ContentQueued
        /\ BlankBody' = BlankBody
        /\ Answers' = Answers /\ \A a \in Answers : Kept(a)' = Kept(a)
    BY <2>1 DEF NothingFailed, ContentQueued, Queued, BlankBody, Live, Current, Kept, Answers
  <2>3. Deleting(w) => Deleting(w)' \/ BlankBody
    BY <1>6, FindLeads DEF FindPost, Deleting, BlankBody
  <2>4. Skipping(w)' => BlankBody
    BY <1>6, FindLeads DEF Skipping, BlankBody
  <2>. QED  BY <2>1, <2>2, <2>3, <2>4 DEF StaleGoes, OneWorker
<1>7. ASSUME NEW w \in Workers, StoreTitle(w) PROVE StaleGoes'
  <2>1. UNCHANGED <<queue, failed, row, asking, answerCache, faults, lost>>
    BY <1>7, TitleLeads
  <2>2. /\ NothingFailed' = NothingFailed /\ ContentQueued' = ContentQueued
        /\ BlankBody' = BlankBody /\ Answers' = Answers
    BY <2>1 DEF NothingFailed, ContentQueued, Queued, BlankBody, Live, Answers
  <2>3. Deleting(w)' \/ Skipping(w)
    BY <1>7, TitleLeads DEF Deleting
  <2>4. ~Skipping(w)'
    BY <1>7, TitleLeads DEF Skipping
  <2>. QED  BY <2>1, <2>2, <2>3, <2>4 DEF StaleGoes, OneWorker
<1>8. ASSUME NEW w \in Workers, StoreContent(w) PROVE StaleGoes'
  <2>1. UNCHANGED <<failed, row, faults, lost>> /\ Answers' = Answers /\ pc'[w] = "invalidate"
    BY <1>8, ContentLeads DEF Answers
  <2>2. Deleting(w)' /\ ~Skipping(w)'
    BY <2>1 DEF Deleting, Skipping
  <2>. QED  BY <2>1, <2>2 DEF StaleGoes, OneWorker
<1>9. ASSUME NEW w \in Workers, InvalidateCache(w) PROVE StaleGoes'
  <2>1. row' = row /\ pc'[w] # "storeTitle"
        /\ \A a \in Answers' : a.overlapped /\ \E b \in Answers : b.post = a.post
    <3>1. row' = row /\ pc'[w] # "storeTitle"
      BY <1>9 DEF InvalidateCache, Finish, Goto, LoopTop, TypeOK
    <3>2. asking \subseteq Answer /\ Answers' = {[a EXCEPT !.overlapped = TRUE] : a \in asking}
      BY <1>9 DEF InvalidateCache, Answers, TypeOK
    <3>3. \A a \in Answer : LET b == [a EXCEPT !.overlapped = TRUE] IN
            b.overlapped /\ b.post = a.post
      BY DEF Answer
    <3>. QED  BY <3>1, <3>2, <3>3 DEF Answers
  <2>2. ~Skipping(w)'
    BY <2>1 DEF Skipping
  <2>. QED  BY <2>1, <2>2 DEF StaleGoes, OneWorker, Kept
<1>10. ASSUME NEW w \in Workers, InvalidateFails(w) PROVE StaleGoes'
  <2>1. row' = row /\ Answers' = Answers
    BY <1>10 DEF InvalidateFails, dbVars, Answers
  <2>2. faults'["cache"] < FaultBudget["cache"]
    BY <1>10, SpendLess DEF InvalidateFails, FaultKinds
  <2>3. ~NothingFailed'
    BY <2>2, WorkerAssumption DEF NothingFailed, FaultKinds
  <2>. QED  BY <2>1, <2>3 DEF StaleGoes
<1>11. ASSUME NEW w \in Workers, Step(w) \/ Fault(w),
              ~FindPost(w), ~StoreTitle(w), ~StoreContent(w), ~InvalidateCache(w),
              ~InvalidateFails(w)
       PROVE  StaleGoes'
  <2>1. /\ UNCHANGED <<row, titleEmb, chunks, asking, answerCache>>
        /\ NothingFailed' => /\ NothingFailed
                             /\ \/ Discards(w) \/ Takes(w) \/ Throws(w) \/ Requeues(w)
                                \/ Idles(w) \/ Rests \/ Grows(w)
    BY <1>11, Movements DEF NothingFailed
  <2>2. /\ BlankBody' = BlankBody /\ Answers' = Answers
        /\ \A a \in Answers : Kept(a)' = Kept(a)
    BY <2>1 DEF BlankBody, Live, Current, Kept, Answers
  <2>3. ASSUME NothingFailed'
        PROVE  /\ \/ \A a \in Answers' : Kept(a)'
                  \/ ContentQueued' \/ BlankBody' \/ Deleting(w)'
               /\ Skipping(w)' => ContentQueued' \/ BlankBody'
    <3>1. /\ ContentQueued \/ Deleting(w) => ContentQueued' \/ Deleting(w)'
          /\ Skipping(w)' => Skipping(w) /\ Queued' = Queued
      BY <2>1, <2>3, DeletionMoves
    <3>2. Queued' = Queued => ContentQueued' = ContentQueued
      BY DEF ContentQueued
    <3>. QED  BY <2>1, <2>2, <2>3, <3>1, <3>2 DEF StaleGoes, OneWorker
  <2>. QED  BY <2>1, <2>2, <2>3 DEF StaleGoes, OneWorker
<1>. QED  BY <1>1, <1>2, <1>3, <1>4, <1>5, <1>6, <1>7, <1>8, <1>9, <1>10, <1>11
          DEF Next, WorkerNext, BackendNext

-----------------------------------------------------------------------------
(* Theorems.                                                               *)

\* With one worker, the embeddings of a live post never go back to an older
\* text, whatever fails: processJob loads the row before it stores.
THEOREM NeverBack == ASSUME OneWorker PROVE Spec => NoRegress
<1>1. TypeOK /\ HeldJobs /\ Ascending /\ [Next]_vars => Ascending'
  BY AscendingStep
<1>2. IInv => TypeOK /\ HeldJobs
  BY DEF IInv
<1>3. TypeOK /\ HeldJobs /\ Ascending /\ [Next]_vars
        => [\A p \in Posts : Live(p)' => /\ titleEmb'[p] >= titleEmb[p]
                                         /\ chunks'[p] >= chunks[p]]_vars
  BY AscendingRegress
<1>4. Spec => []Ascending
  BY <1>1, <1>2, AscendingInit, Inductive, PTL DEF Spec
<1>. QED  BY <1>2, <1>3, <1>4, Inductive, PTL DEF Spec, NoRegress

LEMMA NothingBlankLeft ==
  ASSUME StaleGoes PROVE CacheFollowsUnlessSkipped
<1>. SUFFICES ASSUME NothingFailed, \A p \in Posts : Live(p) => row[p].content # 0, Drained
              PROVE  \A a \in answerCache : Kept(a)
  BY DEF CacheFollowsUnlessSkipped, CacheFollowsEmbeddings, NothingFailed, Kept
<1>1. Queued = {} /\ ~BlankBody
  BY DEF Drained, Queued, BlankBody
<1>2. \A w \in Workers : ~Deleting(w)
  BY DEF Drained, AllIdle, Deleting
<1>. QED  BY <1>1, <1>2 DEF StaleGoes, ContentQueued, Answers

\* With one worker, every job done and none failed or lost, a drained queue
\* means that every text of a live post that is not blank is embedded as it is.
THEOREM DrainedIsFresh == ASSUME OneWorker PROVE Spec => []FreshWhenDrained
<1>1. TypeOK /\ HeldJobs /\ Ascending /\ [Next]_vars => Ascending'
  BY AscendingStep
<1>2. TypeOK /\ HeldJobs /\ Ascending /\ FreshOrPending /\ [Next]_vars => FreshOrPending'
  BY FreshStep
<1>3. IInv => TypeOK /\ HeldJobs
  BY DEF IInv
<1>4. FreshOrPending => FreshWhenDrained
  BY DEF FreshOrPending, FreshWhenDrained, Drained, AllIdle, TitlePending, ContentPending,
         TitleHeld, ContentHeld, Queued
<1>. QED  BY <1>1, <1>2, <1>3, <1>4, AscendingInit, FreshInit, Inductive, PTL DEF Spec

\* With one worker, unless a job or a deletion failed or a body was blank, no
\* answer made from other embeddings than the present ones outlives the queue, but
\* for those whose ask read the embeddings before a deletion and cached after it.
THEOREM DrainedCacheFollows == ASSUME OneWorker PROVE Spec => []CacheFollowsUnlessSkipped
<1>1. TypeOK /\ HeldJobs /\ FaultsSpent /\ StaleGoes /\ [Next]_vars => StaleGoes'
  BY StaleStep
<1>2. TypeOK /\ TypeOK' /\ NullsRecorded /\ FaultsSpent /\ [Next]_vars => FaultsSpent'
  BY FaultsStep
<1>5. TypeOK /\ HeldJobs /\ NullsRecorded /\ [Next]_vars => NullsRecorded'
  BY NullsStep
<1>3. IInv => TypeOK /\ HeldJobs
  BY DEF IInv
<1>4. StaleGoes => CacheFollowsUnlessSkipped
  BY NothingBlankLeft
<1>. QED  BY <1>1, <1>2, <1>3, <1>4, <1>5, StaleInit, FaultsInit, NullsInit, Inductive, PTL
          DEF Spec
=============================================================================
