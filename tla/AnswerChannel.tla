--------------------------- MODULE AnswerChannel ---------------------------
(***************************************************************************)
(* What `generate` of src/llm/index.ts promises the caller that reads its  *)
(* stream: the pieces of one answer, in order and each once, then one      *)
(* outcome ("end" or "error"), then the end of the stream.  LlmStream      *)
(* implements it.                                                          *)
(***************************************************************************)
EXTENDS SequencesExt

VARIABLES
  said,      \* the pieces of the answer the provider has produced
  outcome,   \* how the provider ended it: "none" as long as it has not
  heard,     \* the pieces the caller has read
  told,      \* the outcomes the caller has read
  finished   \* the caller has seen the end of the stream

vars == <<said, outcome, heard, told, finished>>

Init ==
  /\ said = <<>>
  /\ outcome = "none"
  /\ heard = <<>>
  /\ told = <<>>
  /\ finished = FALSE

Produce ==
  /\ outcome = "none"
  /\ IsPrefix(said, said')
  /\ outcome' \in {"none", "end", "error"}
  /\ UNCHANGED <<heard, told, finished>>

Hear ==
  /\ told = <<>>
  /\ IsPrefix(heard, heard')
  /\ IsPrefix(heard', said)
  /\ \/ told' = <<>>
     \/ outcome # "none" /\ heard' = said /\ told' = << outcome >>
  /\ UNCHANGED <<said, outcome, finished>>

Finish ==
  /\ told # <<>>
  /\ ~finished
  /\ finished' = TRUE
  /\ UNCHANGED <<said, outcome, heard, told>>

Next == Produce \/ Hear \/ Finish

Spec == Init /\ [][Next]_vars
=============================================================================
