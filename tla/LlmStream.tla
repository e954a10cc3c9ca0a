------------------------------ MODULE LlmStream ------------------------------
(***************************************************************************)
(* One call of `generate` (src/llm): the provider and its fallbacks, the   *)
(* PassThrough they write to, the wrapper that cuts what comes through     *)
(* into whole SSE events, and the caller that reads the outer stream and   *)
(* collects the text of the answer.                                        *)
(*                                                                         *)
(* pc is the await the provider function is parked on:                     *)
(*   "responses"  openai.responses.stream (models of the gpt-5 family)     *)
(*   "create"     openai.responses.create, the first fallback              *)
(*   "chat"       openai.chat.completions.create, the last one, and the    *)
(*                only one for other models                                *)
(*   "gemini"     generateContent                                          *)
(*   "unknown"    no such provider                                         *)
(*   "returned"   the stream was returned to generate                      *)
(*                                                                         *)
(* An SSE event is written in two halves, its event line and its data      *)
(* line; Node.js hands on what was written in order, maybe several writes  *)
(* at once, and never cuts one.  A piece of text is the call it comes from *)
(* and its number there.                                                   *)
(***************************************************************************)
EXTENDS Naturals, SequencesExt

CONSTANTS
  MaxPieces   \* bound: the pieces an answer comes in

ASSUME PieceAssumption == MaxPieces \in Nat

Calls == {"responses", "create", "chat", "gemini"}
Piece == Calls \X (1 .. MaxPieces)
NoPiece == <<>>
Outcomes == {"end", "error"}

\* A half of an event, and an event as a whole.
Half == [part : {"event"}, is : {"answer"} \cup Outcomes]
        \cup [part : {"data"}, is : Piece \cup {NoPiece}]
Event == [kind : {"answer", "none"} \cup Outcomes, piece : Piece \cup {NoPiece}]

VARIABLES
  pc,        \* the await of the provider function
  source,    \* the SDK stream that is answering: a call, or "none"
  upstream,  \* what it has done: "open", "completed", "failed", "cutoff"
  said,      \* the pieces of the answer it has come up with
  outcome,   \* how the provider stream was ended, "none" as long as it was not
  pipe,      \* halves written to the provider stream and not handed on yet
  wrapped,   \* generate has attached its handlers to the provider stream
  buffer,    \* its buffer: halves that make no whole event yet
  outer,     \* events written to the outer stream and not handed on yet
  ended,     \* outer.end() was called
  reading,   \* the caller has attached its handlers to the outer stream
  text,      \* bufferedAnswer: the pieces the caller has extracted
  told,      \* the outcomes among the events the caller has read
  finished   \* the caller's 'end' handler has run

providerVars == <<pc, source, upstream, said, outcome, pipe>>
callerVars == <<reading, text, told, finished>>
vars == <<providerVars, wrapped, buffer, outer, ended, callerVars>>

TypeOK ==
  /\ pc \in Calls \cup {"unknown", "returned"}
  /\ source \in {"none", "responses", "chat"}
  /\ upstream \in {"open", "completed", "failed", "cutoff"}
  /\ said \in Seq(Piece)
  /\ outcome \in Outcomes \cup {"none"}
  /\ pipe \in Seq(Half)
  /\ buffer \in Seq(Half)
  /\ outer \in Seq(Event)
  /\ text \in Seq(Piece)
  /\ told \in Seq(Outcomes)
  /\ {wrapped, ended, reading, finished} \subseteq BOOLEAN

Init ==
  /\ pc \in {"responses", "chat", "gemini", "unknown"}
  /\ source = "none"
  /\ upstream = "open"
  /\ said = <<>>
  /\ outcome = "none"
  /\ pipe = <<>>
  /\ wrapped = FALSE
  /\ buffer = <<>>
  /\ outer = <<>>
  /\ ended = FALSE
  /\ reading = FALSE
  /\ text = <<>>
  /\ told = <<>>
  /\ finished = FALSE

-----------------------------------------------------------------------------
(***************************************************************************)
(* Writing events.                                                         *)
(***************************************************************************)

Answer(piece) == [kind |-> "answer", piece |-> piece]
LastEvent(v) == [kind |-> v, piece |-> NoPiece]

Halves(event) == <<[part |-> "event", is |-> event.kind],
                   [part |-> "data", is |-> event.piece]>>

\* The writes of some events.
HalvesOf(events) ==
  [n \in 1 .. 2 * Len(events) |-> Halves(events[(n + 1) \div 2])[2 - (n % 2)]]

\* Mutant of Write: the data line goes first.
WriteDataFirst(events) ==
  pipe' = IF outcome # "none" THEN pipe
          ELSE pipe \o [n \in 1 .. 2 * Len(events) |->
                          Halves(events[(n + 1) \div 2])[1 + (n % 2)]]

\* safeWrite: nothing is written to a stream that was ended.
Write(events) ==
  pipe' = IF outcome # "none" THEN pipe
          ELSE pipe \o HalvesOf(events)

\* Mutant of Conclude: a stream that was ended is written to and ended again.
ConcludeAgain(answers, v) ==
  /\ pipe' = pipe \o HalvesOf(Append(answers, LastEvent(v)))
  /\ outcome' = v

\* The last events of a stream, and safeEnd.
Conclude(answers, v) ==
  /\ Write(Append(answers, LastEvent(v)))
  /\ outcome' = IF outcome # "none" THEN outcome ELSE v

-----------------------------------------------------------------------------
(***************************************************************************)
(* The calls, from the first choice to the last fallback.                  *)
(***************************************************************************)

Return == pc' = "returned"

\* A whole answer of call, in pieces.
AnswerAtOnce(call) ==
  /\ \E n \in 0 .. MaxPieces :
       LET pieces == [i \in 1 .. n |-> <<call, i>>] IN
       /\ said' = said \o pieces
       /\ Conclude([i \in 1 .. n |-> Answer(pieces[i])], "end")
  /\ Return
  /\ UNCHANGED <<source, upstream, wrapped, buffer, outer, ended, callerVars>>

\* The error event of a call that rejected, where no other is tried.
FailAtOnce ==
  /\ Conclude(<<>>, "error")
  /\ Return
  /\ UNCHANGED <<source, upstream, said, wrapped, buffer, outer, ended, callerVars>>

StreamOpens ==
  /\ pc = "responses"
  /\ source' = "responses"
  /\ Return
  /\ UNCHANGED <<upstream, said, outcome, pipe, wrapped, buffer, outer, ended, callerVars>>

StreamThrows ==
  /\ pc = "responses"
  /\ pc' = "create"
  /\ UNCHANGED <<source, upstream, said, outcome, pipe, wrapped, buffer, outer, ended,
                 callerVars>>

CreateAnswers == pc = "create" /\ AnswerAtOnce("create")

\* Mutant of CreateThrows: the failure comes after the first piece was written.
CreateThrowsLate ==
  /\ pc = "create"
  /\ said' = Append(said, <<"create", 1>>)
  /\ Write(<<Answer(<<"create", 1>>)>>)
  /\ pc' = "chat"
  /\ UNCHANGED <<source, upstream, outcome, wrapped, buffer, outer, ended, callerVars>>

CreateThrows ==
  /\ pc = "create"
  /\ pc' = "chat"
  /\ UNCHANGED <<source, upstream, said, outcome, pipe, wrapped, buffer, outer, ended,
                 callerVars>>

ChatOpens ==
  /\ pc = "chat"
  /\ source' = "chat"
  /\ Return
  /\ UNCHANGED <<upstream, said, outcome, pipe, wrapped, buffer, outer, ended, callerVars>>

ChatThrows == pc = "chat" /\ FailAtOnce

GeminiAnswers == pc = "gemini" /\ AnswerAtOnce("gemini")

GeminiThrows == pc = "gemini" /\ FailAtOnce

UnknownProvider == pc = "unknown" /\ FailAtOnce

-----------------------------------------------------------------------------
(***************************************************************************)
(* The events of an SDK stream, after the provider function has returned.  *)
(***************************************************************************)

\* A delta of text, or of the arguments of a tool call.
NextPiece(call) ==
  /\ source = call
  /\ upstream = "open"
  /\ Len(said) < MaxPieces
  /\ LET piece == <<call, Len(said) + 1>> IN
     /\ said' = Append(said, piece)
     /\ Write(<<Answer(piece)>>)
  /\ UNCHANGED <<pc, source, upstream, outcome, wrapped, buffer, outer, ended, callerVars>>

SourceEnds(v, how) ==
  /\ Conclude(<<>>, v)
  /\ upstream' = how
  /\ UNCHANGED <<pc, source, said, wrapped, buffer, outer, ended, callerVars>>

Delta == NextPiece("responses")

ResponseCompleted ==
  source = "responses" /\ upstream = "open" /\ SourceEnds("end", "completed")

\* 'error': the connection can fail after 'response.completed', too.
ResponseError ==
  source = "responses" /\ upstream \in {"open", "completed"} /\ SourceEnds("error", "failed")

ChatChunk == NextPiece("chat")

ChatFinished ==
  source = "chat" /\ upstream = "open" /\ SourceEnds("end", "completed")

ChatError ==
  source = "chat" /\ upstream = "open" /\ SourceEnds("error", "failed")

\* response.incomplete, or chunks that stop without a finish_reason.
CutOff ==
  /\ source # "none"
  /\ upstream = "open"
  /\ upstream' = "cutoff"
  /\ UNCHANGED <<pc, source, said, outcome, pipe, wrapped, buffer, outer, ended, callerVars>>

-----------------------------------------------------------------------------
(***************************************************************************)
(* generate: from the provider stream to the outer stream.                 *)
(***************************************************************************)

Wrap ==
  /\ pc = "returned"
  /\ ~wrapped
  /\ wrapped' = TRUE
  /\ UNCHANGED <<providerVars, buffer, outer, ended, callerVars>>

\* Some places in a sequence, in order.
Places(D) == [i \in 1 .. Cardinality(D) |->
                CHOOSE n \in D : Cardinality({m \in D : m <= n}) = i]

DataLines(halves) == Places({n \in DOMAIN halves : halves[n].part = "data"})

\* The event whose data line is the n-th half.
EventAt(halves, n) ==
  [kind |-> IF n > 1 /\ halves[n - 1].part = "event" THEN halves[n - 1].is ELSE "none",
   piece |-> halves[n].is]

\* The blocks up to the last blank line, which a data line is followed by.
Blocks(halves) == [i \in DOMAIN DataLines(halves) |-> EventAt(halves, DataLines(halves)[i])]

\* What is left behind the last of them.
Rest(halves) ==
  LET lines == DataLines(halves) IN
  IF lines = <<>> THEN halves ELSE SubSeq(halves, Last(lines) + 1, Len(halves))

FlushBuffer(halves) ==
  /\ outer' = outer \o Blocks(halves)
  /\ buffer' = Rest(halves)

Deliver ==
  /\ wrapped
  /\ \E n \in 1 .. Len(pipe) :
       /\ FlushBuffer(buffer \o SubSeq(pipe, 1, n))
       /\ pipe' = SubSeq(pipe, n + 1, Len(pipe))
  /\ UNCHANGED <<pc, source, upstream, said, outcome, wrapped, ended, callerVars>>

\* Mutant of PipeEnds: the outer stream is left open.
PipeEndsOnly ==
  /\ wrapped /\ outcome # "none" /\ pipe = <<>>
  /\ buffer # <<>>
  /\ outer' = Append(outer, [kind |-> "none", piece |-> NoPiece])
  /\ buffer' = <<>>
  /\ UNCHANGED <<providerVars, wrapped, ended, callerVars>>

PipeEnds ==
  /\ wrapped /\ outcome # "none" /\ pipe = <<>>
  /\ ~ended
  /\ outer' = IF buffer = <<>> THEN outer
              ELSE Append(outer, [kind |-> "none", piece |-> NoPiece])
  /\ buffer' = <<>>
  /\ ended' = TRUE
  /\ UNCHANGED <<providerVars, wrapped, callerVars>>

-----------------------------------------------------------------------------
(***************************************************************************)
(* The caller: answerStream, answerStreamV2 or rewriteTone.                *)
(***************************************************************************)

Attach ==
  /\ wrapped
  /\ ~reading
  /\ reading' = TRUE
  /\ UNCHANGED <<providerVars, wrapped, buffer, outer, ended, text, told, finished>>

\* extractAnswerText of a chunk.
ExtractAnswerText(events) ==
  LET answers == Places({n \in DOMAIN events : events[n].kind = "answer"}) IN
  [i \in DOMAIN answers |-> events[answers[i]].piece]

OutcomesOf(events) ==
  LET last == Places({n \in DOMAIN events : events[n].kind \in Outcomes}) IN
  [i \in DOMAIN last |-> events[last[i]].kind]

Read ==
  /\ reading
  /\ \E n \in 1 .. Len(outer) :
       LET chunk == SubSeq(outer, 1, n) IN
       /\ text' = text \o ExtractAnswerText(chunk)
       /\ told' = told \o OutcomesOf(chunk)
       /\ outer' = SubSeq(outer, n + 1, Len(outer))
  /\ UNCHANGED <<providerVars, wrapped, buffer, ended, reading, finished>>

Finish ==
  /\ reading /\ ended /\ outer = <<>>
  /\ ~finished
  /\ finished' = TRUE
  /\ UNCHANGED <<providerVars, wrapped, buffer, outer, ended, reading, text, told>>

-----------------------------------------------------------------------------
Call == \/ StreamOpens \/ StreamThrows \/ CreateAnswers \/ CreateThrows
        \/ ChatOpens \/ ChatThrows \/ GeminiAnswers \/ GeminiThrows \/ UnknownProvider

Source == \/ Delta \/ ResponseCompleted \/ ResponseError
          \/ ChatChunk \/ ChatFinished \/ ChatError

Node == Wrap \/ Deliver \/ PipeEnds \/ Attach \/ Read \/ Finish

Next == Call \/ Source \/ CutOff \/ Node

Spec == Init /\ [][Next]_vars

\* Awaits settle, an SDK stream goes on until it ends or is cut off, and
\* Node.js hands on what was written.
FairSpec == Spec /\ WF_vars(Call) /\ WF_vars(Source) /\ WF_vars(Node)

-----------------------------------------------------------------------------
(***************************************************************************)
(* Properties.                                                             *)
(***************************************************************************)

\* The text the caller collects comes from one call only, from its first piece
\* on and without a gap: a fallback never repeats or continues what another
\* call wrote, however the writes are handed on.
OneSource ==
  \A n \in DOMAIN text : text[n] = <<text[1][1], n>>

\* The stream generate returns keeps what AnswerChannel promises: all pieces in
\* order, one outcome after them, and nothing behind it.
Channel == INSTANCE AnswerChannel WITH heard <- text
KeepsChannel == Channel!Spec

\* The caller sees the end of every stream that its provider did not cut off.
EveryCallEnds == <>(finished \/ upstream = "cutoff")
=============================================================================
