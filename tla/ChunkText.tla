------------------------------ MODULE ChunkText ------------------------------
(***************************************************************************)
(* chunkText (src/services/embedding.service.ts): the body of a post is    *)
(* split into sentences and the sentences into chunks of tokens, each of   *)
(* which is to be embedded.                                                *)
(*                                                                         *)
(* The tokens of the sentences are numbered 0, 1, 2 ... in the order they  *)
(* are encoded in.  currentChunk always holds the last ones, from `from'   *)
(* to `fed', and a chunk is the numbers [from, to) of its tokens.  One     *)
(* step is one iteration of the loop over the sentences.  A sentence has at *)
(* least one token; only after white space at the end of the body, split   *)
(* leaves one more, empty, last one.                                       *)
(***************************************************************************)
EXTENDS Integers, Sequences

CONSTANTS
  Size,      \* CHUNK_SIZE (512)
  Overlap,   \* CHUNK_OVERLAP (50)
  Longest,   \* the length of the longest sentence, in tokens
  MaxTokens  \* bound: the tokens of the body

ASSUME ChunkAssumption ==
  /\ Size \in Nat \ {0} /\ Overlap \in Nat /\ Overlap < Size
  /\ Longest \in Nat /\ MaxTokens \in Nat

VARIABLES
  fed,     \* how many tokens have been encoded
  from,    \* the first token of currentChunk
  chunks,  \* the chunks pushed so far
  blank,   \* the empty last sentence was reached
  done     \* the function has returned

vars == <<fed, from, chunks, blank, done>>

TypeOK ==
  /\ fed \in Nat
  /\ from \in Nat
  /\ chunks \in Seq([from : Nat, to : Nat])
  /\ blank \in BOOLEAN
  /\ done \in BOOLEAN

Init ==
  /\ fed = 0
  /\ from = 0
  /\ chunks = <<>>
  /\ blank = FALSE
  /\ done = FALSE

Larger(x, y) == IF x > y THEN x ELSE y

-----------------------------------------------------------------------------
\* Mutant of SliceFrom: a negative start is not clamped.
SliceFromAnywhere(length, start) == IF start < 0 THEN length + start ELSE start

\* Where array.slice(start) begins in an array of this length: a negative
\* start counts from the end.
SliceFrom(length, start) ==
  IF start < 0 THEN Larger(length + start, 0)
  ELSE IF start > length THEN length ELSE start

Push == chunks' = Append(chunks, [from |-> from, to |-> fed])

\* Mutants of AddSentence: the sentence that did not fit is lost, the chunk is
\* pushed after the sentence was added, only the sentence is measured.
AddSentenceOrDropIt(n) ==
  /\ ~done /\ ~blank
  /\ IF fed - from + n > Size
     THEN Push /\ from' = fed + n
     ELSE UNCHANGED <<chunks, from>>
  /\ fed' = fed + n
  /\ blank' = (n = 0)
  /\ UNCHANGED done

AddSentenceFirst(n) ==
  /\ ~done /\ ~blank
  /\ IF fed - from + n > Size
     THEN /\ chunks' = Append(chunks, [from |-> from, to |-> fed + n])
          /\ from' = from + SliceFrom(fed + n - from, fed + n - from - Overlap)
     ELSE UNCHANGED <<chunks, from>>
  /\ fed' = fed + n
  /\ blank' = (n = 0)
  /\ UNCHANGED done

AddSentenceBySize(n) ==
  /\ ~done /\ ~blank
  /\ IF n > Size
     THEN Push /\ from' = from + SliceFrom(fed - from, fed - from - Overlap)
     ELSE UNCHANGED <<chunks, from>>
  /\ fed' = fed + n
  /\ blank' = (n = 0)
  /\ UNCHANGED done

\* Mutant of AddSentence: the next chunk starts without an overlap.
AddSentenceAfresh(n) ==
  /\ ~done /\ ~blank
  /\ IF fed - from + n > Size
     THEN Push /\ from' = fed
     ELSE UNCHANGED <<chunks, from>>
  /\ fed' = fed + n
  /\ blank' = (n = 0)
  /\ UNCHANGED done

\* A sentence of n tokens: if it does not fit, the chunk is pushed and the next
\* one starts with the tail of it.
AddSentence(n) ==
  /\ ~done /\ ~blank
  /\ IF fed - from + n > Size
     THEN Push /\ from' = from + SliceFrom(fed - from, fed - from - Overlap)
     ELSE UNCHANGED <<chunks, from>>
  /\ fed' = fed + n
  /\ blank' = (n = 0)
  /\ UNCHANGED done

\* After the last sentence the rest is pushed, if there is any.
Return ==
  /\ ~done
  /\ done' = TRUE
  /\ IF fed > from THEN Push ELSE UNCHANGED chunks
  /\ UNCHANGED <<fed, from, blank>>

Next == \/ \E n \in 0 .. Longest : fed + n <= MaxTokens /\ AddSentence(n)
        \/ Return

Spec == Init /\ [][Next]_vars

-----------------------------------------------------------------------------
(***************************************************************************)
(* Properties.                                                             *)
(***************************************************************************)

Length(chunk) == chunk.to - chunk.from

\* Every token of the body is in a chunk: the first chunk starts with the first
\* token, each chunk starts inside or right after the one before, and the last
\* one ends with the last token.
NothingSkipped ==
  /\ chunks = <<>> => from = 0
  /\ chunks # <<>> => /\ chunks[1].from = 0
                      /\ from <= chunks[Len(chunks)].to
  /\ \A k \in 1 .. Len(chunks) - 1 : chunks[k + 1].from <= chunks[k].to
  /\ done /\ fed > 0 => chunks # <<>> /\ chunks[Len(chunks)].to = fed

\* Each chunk ends later than the one before, so that no text is embedded twice
\* but as overlap and only the first chunk can be empty.  The exception: when an
\* over-long sentence and white space end the body, the last chunk repeats the
\* tail of the one before.
EndsIncrease ==
  /\ \A k \in 1 .. Len(chunks) - 1 :
       \/ chunks[k].to < chunks[k + 1].to
       \/ /\ blank /\ done /\ k + 1 = Len(chunks)
          /\ chunks[k].to = fed /\ Length(chunks[k]) > Size
  /\ \A k \in 2 .. Len(chunks) : Length(chunks[k]) > 0

\* A chunk is longer than CHUNK_SIZE only by the length of one sentence.
LongestBounds ==
  \A k \in 1 .. Len(chunks) : Length(chunks[k]) <= Larger(Size, Overlap + Longest)

\* Consecutive chunks share CHUNK_OVERLAP tokens, unless the first of them has
\* fewer: then the start of the slice is negative, and it hands on all of its
\* tokens or only some.
OverlapUnlessShort ==
  \A k \in 1 .. Len(chunks) - 1 :
    LET shared == chunks[k].to - chunks[k + 1].from IN
    shared = Overlap \/ Length(chunks[k]) < Overlap
=============================================================================
