--------------------------- MODULE ChunkText_proofs ---------------------------
(***************************************************************************)
(* Proofs about chunkText: for every chunk size, overlap and sentence      *)
(* length no token is skipped, every chunk brings new tokens, a chunk      *)
(* outgrows the size by no more than a sentence, and consecutive chunks    *)
(* overlap.                                                                *)
(***************************************************************************)
EXTENDS ChunkText, TLAPS

\* Where the function stands between two sentences: the current chunk is not
\* empty once a token was encoded, it has not outgrown its bound, and the last
\* chunk pushed ended before the last sentence, unless that is the empty one.
Position ==
  /\ from <= fed
  /\ fed > 0 /\ ~blank => from < fed
  /\ fed = 0 => chunks = <<>>
  /\ fed - from <= Larger(Size, Overlap + Longest)
  /\ ~done /\ chunks # <<>> =>
       LET last == chunks[Len(chunks)] IN
       \/ last.to < fed
       \/ blank /\ last.to = fed /\ Length(last) > Size

\* The inductive invariant behind the theorems.
Inv == TypeOK /\ Position /\ NothingSkipped /\ EndsIncrease /\ LongestBounds

\* An element of a sequence, and the last one of a sequence that has any.
LEMMA Elements ==
  ASSUME NEW S, NEW s \in Seq(S)
  PROVE  /\ \A k \in 1 .. Len(s) : s[k] \in S
         /\ s # <<>> => s[Len(s)] \in S
<1>1. \A k \in 1 .. Len(s) : s[k] \in S
  OBVIOUS
<1>2. s # <<>> => Len(s) \in 1 .. Len(s)
  OBVIOUS
<1> QED BY <1>1, <1>2

\* Where the chunks pushed so far end is a number.
LEMMA LastTo == TypeOK /\ chunks # <<>> => chunks[Len(chunks)].to \in Nat
<1> SUFFICES ASSUME TypeOK, chunks # <<>> PROVE chunks[Len(chunks)].to \in Nat
  OBVIOUS
<1>1. chunks[Len(chunks)] \in [from : Nat, to : Nat]
  BY Elements DEF TypeOK
<1> QED BY <1>1

\* Array.slice never begins outside the array, and slice(length - Overlap)
\* keeps at most Overlap tokens.
LEMMA SliceBounds ==
  ASSUME NEW length \in Nat
  PROVE  LET start == SliceFrom(length, length - Overlap) IN
         /\ start \in Nat
         /\ start <= length
         /\ length - start <= Overlap
BY ChunkAssumption DEF SliceFrom, Larger

LEMMA InitInv == Init => Inv
<1> SUFFICES ASSUME Init PROVE Inv
  OBVIOUS
<1>1. fed = 0 /\ from = 0 /\ chunks = <<>> /\ ~blank /\ ~done
  BY DEF Init
<1>2. Len(chunks) = 0 /\ chunks \in Seq([from : Nat, to : Nat])
  BY <1>1
<1>3. TypeOK
  <2>1. fed \in Nat /\ from \in Nat
    BY <1>1
  <2>2. blank \in BOOLEAN /\ done \in BOOLEAN
    BY Zenon DEF Init
  <2> QED BY <1>2, <2>1, <2>2 DEF TypeOK
<1>4. Position
  BY <1>1, ChunkAssumption DEF Position, Larger
<1>5. NothingSkipped /\ EndsIncrease /\ LongestBounds
  BY <1>1, <1>2 DEF NothingSkipped, EndsIncrease, LongestBounds
<1> QED BY <1>3, <1>4, <1>5 DEF Inv

\* Pushing the current chunk keeps everything that is said about the chunks.
LEMMA PushKeeps ==
  ASSUME Inv, ~done, Push, from < fed \/ chunks = <<>>
  PROVE  /\ chunks' \in Seq([from : Nat, to : Nat])
         /\ chunks' # <<>>
         /\ chunks'[1].from = 0
         /\ chunks'[Len(chunks')] = [from |-> from, to |-> fed]
         /\ \A k \in 1 .. Len(chunks') - 1 : chunks'[k + 1].from <= chunks'[k].to
         /\ \A k \in 1 .. Len(chunks') - 1 :
              \/ chunks'[k].to < chunks'[k + 1].to
              \/ /\ blank /\ k + 1 = Len(chunks')
                 /\ chunks'[k].to = fed /\ Length(chunks'[k]) > Size
         /\ \A k \in 2 .. Len(chunks') : Length(chunks'[k]) > 0
         /\ LongestBounds'
<1> DEFINE new == [from |-> from, to |-> fed]
<1>1. new \in [from : Nat, to : Nat] /\ chunks \in Seq([from : Nat, to : Nat])
  BY DEF Inv, TypeOK
<1>2. /\ chunks' = Append(chunks, new)
      /\ chunks' \in Seq([from : Nat, to : Nat])
      /\ Len(chunks') = Len(chunks) + 1
      /\ Len(chunks) \in Nat
      /\ \A k \in 1 .. Len(chunks) : chunks'[k] = chunks[k]
      /\ chunks'[Len(chunks')] = new
  BY <1>1 DEF Push
<1>3. chunks' # <<>>
  BY <1>2
<1>4. chunks'[1].from = 0
  <2>1. CASE chunks = <<>>
    <3>1. Len(chunks') = 1 /\ from = 0
      BY <2>1, <1>2 DEF Inv, NothingSkipped
    <3> QED BY <3>1, <1>2
  <2>2. CASE chunks # <<>>
    <3>1. 1 \in 1 .. Len(chunks) /\ chunks[1].from = 0
      BY <2>2, <1>1 DEF Inv, NothingSkipped
    <3> QED BY <3>1, <1>2
  <2> QED BY <2>1, <2>2
<1>5. \A k \in 1 .. Len(chunks) : chunks[k] \in [from : Nat, to : Nat]
  BY <1>1, Elements
<1>6. \A k \in 1 .. Len(chunks') - 1 : chunks'[k + 1].from <= chunks'[k].to
  <2> TAKE k \in 1 .. Len(chunks') - 1
  <2>1. CASE k < Len(chunks)
    BY <2>1, <1>2 DEF Inv, NothingSkipped
  <2>2. CASE k = Len(chunks)
    <3>1. chunks # <<>>
      BY <2>2, <1>2
    <3>2. from <= chunks[Len(chunks)].to
      BY <3>1 DEF Inv, NothingSkipped
    <3>3. chunks'[k + 1] = new /\ chunks'[k] = chunks[k]
      BY <2>2, <1>2
    <3> QED BY <2>2, <3>2, <3>3
  <2> QED BY <2>1, <2>2, <1>2
<1>7. \A k \in 1 .. Len(chunks') - 1 :
        \/ chunks'[k].to < chunks'[k + 1].to
        \/ /\ blank /\ k + 1 = Len(chunks')
           /\ chunks'[k].to = fed /\ Length(chunks'[k]) > Size
  <2> TAKE k \in 1 .. Len(chunks') - 1
  <2>1. CASE k < Len(chunks)
    <3>1. chunks[k].to < chunks[k + 1].to
      BY <2>1, <1>2 DEF Inv, EndsIncrease
    <3> QED BY <2>1, <3>1, <1>2
  <2>2. CASE k = Len(chunks)
    <3>1. chunks # <<>> /\ chunks'[k] = chunks[Len(chunks)] /\ chunks'[k + 1] = new
      BY <2>2, <1>2
    <3> QED BY <2>2, <3>1, <1>2 DEF Inv, Position
  <2> QED BY <2>1, <2>2, <1>2
<1>8. \A k \in 2 .. Len(chunks') : Length(chunks'[k]) > 0
  <2> TAKE k \in 2 .. Len(chunks')
  <2>1. CASE k <= Len(chunks)
    BY <2>1, <1>2 DEF Inv, EndsIncrease
  <2>2. CASE k = Len(chunks')
    <3>1. from < fed
      BY <2>2, <1>2
    <3>2. chunks'[k] = new
      BY <2>2, <1>2
    <3> QED BY <3>1, <3>2, <1>1 DEF Length, Inv, TypeOK
  <2> QED BY <2>1, <2>2, <1>2
<1>9. LongestBounds'
  <2> SUFFICES ASSUME NEW k \in 1 .. Len(chunks')
               PROVE  Length(chunks'[k]) <= Larger(Size, Overlap + Longest)
    BY DEF LongestBounds
  <2>1. CASE k <= Len(chunks)
    BY <2>1, <1>2 DEF Inv, LongestBounds
  <2>2. CASE k = Len(chunks')
    BY <2>2, <1>2 DEF Inv, Position, Length
  <2> QED BY <2>1, <2>2, <1>2
<1> QED BY <1>2, <1>3, <1>4, <1>6, <1>7, <1>8, <1>9

LEMMA AddSentenceInv ==
  ASSUME Inv, NEW n \in 0 .. Longest, AddSentence(n)
  PROVE  Inv'
<1> USE ChunkAssumption
<1>1. n \in Nat /\ n <= Longest /\ Longest \in Nat
  OBVIOUS
<1>2. /\ ~done /\ done' = done
      /\ ~blank /\ (blank' <=> n = 0)
      /\ fed' = fed + n
  BY DEF AddSentence
<1>3. fed \in Nat /\ from \in Nat /\ from <= fed /\ fed' = fed + n
  BY <1>2 DEF Inv, TypeOK, Position
<1>4. blank' \in BOOLEAN /\ done' \in BOOLEAN
  BY Zenon DEF AddSentence, Inv, TypeOK
<1>5. CASE fed - from + n > Size
  <2> DEFINE start == SliceFrom(fed - from, fed - from - Overlap)
  <2>1. Push /\ from' = from + start
    BY <1>5 DEF AddSentence
  <2>2. start \in Nat /\ start <= fed - from /\ fed - from - start <= Overlap
    BY <1>3, SliceBounds
  <2> HIDE DEF start
  <2>3. from < fed \/ chunks = <<>>
    BY <1>2, <1>3 DEF Inv, Position
  <2>4. /\ chunks' \in Seq([from : Nat, to : Nat])
        /\ chunks' # <<>>
        /\ chunks'[1].from = 0
        /\ chunks'[Len(chunks')] = [from |-> from, to |-> fed]
        /\ \A k \in 1 .. Len(chunks') - 1 : chunks'[k + 1].from <= chunks'[k].to
        /\ \A k \in 1 .. Len(chunks') - 1 : chunks'[k].to < chunks'[k + 1].to
        /\ \A k \in 2 .. Len(chunks') : Length(chunks'[k]) > 0
        /\ LongestBounds'
    BY <1>2, <2>1, <2>3, PushKeeps
  <2>5. from' \in Nat /\ from' <= fed /\ fed - from' <= Overlap
    BY <1>3, <2>1, <2>2
  <2>6. TypeOK'
    BY <1>1, <1>2, <1>3, <1>4, <2>4, <2>5 DEF TypeOK
  <2>7. chunks'[Len(chunks')].to = fed /\ Length(chunks'[Len(chunks')]) = fed - from
    BY <2>4 DEF Length
  <2>8. Position'
    <3>1. fed' \in Nat /\ from' <= fed'
      BY <1>1, <1>2, <1>3, <2>5
    <3>2. fed' > 0 /\ ~blank' => from' < fed'
      BY <1>1, <1>2, <1>3, <2>5
    <3>3. fed' > 0
      BY <1>1, <1>2, <1>3, <1>5
    <3>4. fed' - from' <= Larger(Size, Overlap + Longest)
      <4>1. fed' - from' <= Overlap + Longest
        <5>1. fed' - from' = (fed - from') + n
          BY <1>1, <1>3, <2>5
        <5>2. fed - from' \in Int /\ Overlap \in Int
          BY <1>3, <2>5
        <5> QED BY <1>1, <2>5, <5>1, <5>2
      <4>2. Overlap + Longest <= Larger(Size, Overlap + Longest)
        BY <1>1 DEF Larger
      <4>3. Larger(Size, Overlap + Longest) \in Int /\ Overlap + Longest \in Int
        BY <1>1 DEF Larger
      <4>4. fed' - from' \in Int
        BY <1>1, <1>3, <2>5
      <4> QED BY <4>1, <4>2, <4>3, <4>4
    <3>5. \/ chunks'[Len(chunks')].to < fed'
          \/ /\ blank' /\ chunks'[Len(chunks')].to = fed'
             /\ Length(chunks'[Len(chunks')]) > Size
      <4>1. CASE n = 0
        BY <4>1, <1>2, <1>3, <1>5, <2>7
      <4>2. CASE n # 0
        BY <4>2, <1>1, <1>2, <1>3, <2>7
      <4> QED BY <4>1, <4>2
    <3> QED BY <3>1, <3>2, <3>3, <3>4, <3>5 DEF Position, Length
  <2>9. NothingSkipped'
    BY <1>2, <2>4, <2>5, <2>7 DEF NothingSkipped
  <2>10. EndsIncrease'
    BY <2>4 DEF EndsIncrease, Length
  <2> QED BY <2>4, <2>6, <2>8, <2>9, <2>10 DEF Inv
<1>6. CASE ~(fed - from + n > Size)
  <2>1. UNCHANGED <<chunks, from>>
    BY <1>6 DEF AddSentence
  <2>2. TypeOK'
    BY <1>1, <1>2, <1>3, <1>4, <2>1 DEF Inv, TypeOK
  <2>3. fed > 0 \/ chunks = <<>>
    BY <1>3 DEF Inv, Position
  <2>4. Position'
    <3>1. fed' - from' <= Larger(Size, Overlap + Longest)
      BY <1>1, <1>2, <1>3, <1>6, <2>1 DEF Larger
    <3>2. chunks # <<>> => chunks[Len(chunks)].to < fed
      BY <1>2 DEF Inv, Position
    <3>3. chunks # <<>> => chunks[Len(chunks)].to \in Nat
      BY LastTo DEF Inv
    <3>4. chunks' # <<>> => chunks'[Len(chunks')].to < fed'
      BY <1>1, <1>2, <1>3, <2>1, <3>2, <3>3
    <3>5. fed' > 0 /\ ~blank' => from' < fed'
      BY <1>1, <1>2, <1>3, <2>1
    <3>6. from' <= fed' /\ (fed' = 0 => chunks' = <<>>)
      BY <1>1, <1>2, <1>3, <2>1, <2>3
    <3> QED BY <3>1, <3>4, <3>5, <3>6 DEF Position
  <2>5. NothingSkipped'
    BY <1>2, <2>1 DEF Inv, NothingSkipped
  <2>6. EndsIncrease'
    BY <1>2, <2>1 DEF Inv, EndsIncrease, Length
  <2>7. LongestBounds'
    BY <2>1 DEF Inv, LongestBounds, Length
  <2> QED BY <2>2, <2>4, <2>5, <2>6, <2>7 DEF Inv
<1> QED BY <1>5, <1>6

LEMMA ReturnInv ==
  ASSUME Inv, Return, UNCHANGED blank
  PROVE  Inv'
<1>1. ~done /\ done' = TRUE /\ fed' = fed /\ from' = from /\ blank' = blank
  BY DEF Return
<1>2. fed \in Nat /\ from \in Nat /\ from <= fed
  BY DEF Inv, TypeOK, Position
<1>3. CASE fed > from
  <2>1. Push
    BY <1>3 DEF Return
  <2>2. /\ chunks' \in Seq([from : Nat, to : Nat])
        /\ chunks' # <<>>
        /\ chunks'[1].from = 0
        /\ chunks'[Len(chunks')] = [from |-> from, to |-> fed]
        /\ \A k \in 1 .. Len(chunks') - 1 : chunks'[k + 1].from <= chunks'[k].to
        /\ \A k \in 1 .. Len(chunks') - 1 :
             \/ chunks'[k].to < chunks'[k + 1].to
             \/ /\ blank /\ k + 1 = Len(chunks')
                /\ chunks'[k].to = fed /\ Length(chunks'[k]) > Size
        /\ \A k \in 2 .. Len(chunks') : Length(chunks'[k]) > 0
        /\ LongestBounds'
    BY <1>1, <1>2, <1>3, <2>1, PushKeeps
  <2>3. TypeOK'
    BY <1>1, <2>2 DEF Inv, TypeOK
  <2>4. Position'
    BY <1>1, <1>2, <1>3 DEF Inv, Position
  <2>5. NothingSkipped'
    BY <1>1, <1>2, <2>2 DEF NothingSkipped
  <2>6. EndsIncrease'
    BY <1>1, <2>2 DEF EndsIncrease, Length
  <2> QED BY <2>2, <2>3, <2>4, <2>5, <2>6 DEF Inv
<1>4. CASE ~(fed > from)
  <2>1. UNCHANGED chunks
    BY <1>4 DEF Return
  <2>2. fed = from
    BY <1>2, <1>4
  <2>3. TypeOK'
    BY <1>1, <2>1 DEF Inv, TypeOK
  <2>4. Position'
    BY <1>1, <2>1 DEF Inv, Position
  <2>5. fed > 0 => chunks # <<>> /\ chunks[Len(chunks)].to = fed
    <3> SUFFICES ASSUME fed > 0 PROVE chunks # <<>> /\ chunks[Len(chunks)].to = fed
      OBVIOUS
    <3>1. chunks # <<>> /\ from <= chunks[Len(chunks)].to
      BY <2>2 DEF Inv, NothingSkipped
    <3>2. chunks[Len(chunks)].to \in Nat
      BY <3>1, LastTo DEF Inv
    <3>3. chunks[Len(chunks)].to <= fed
      BY <1>1, <1>2, <3>1, <3>2 DEF Inv, Position
    <3> QED BY <1>2, <2>2, <3>1, <3>2, <3>3
  <2>6. NothingSkipped'
    BY <1>1, <2>1, <2>5 DEF Inv, NothingSkipped
  <2>7. EndsIncrease' /\ LongestBounds'
    BY <1>1, <2>1 DEF Inv, EndsIncrease, LongestBounds, Length
  <2> QED BY <2>3, <2>4, <2>6, <2>7 DEF Inv
<1> QED BY <1>3, <1>4

LEMMA NextInv == Inv /\ [Next]_vars => Inv'
<1> SUFFICES ASSUME Inv, [Next]_vars PROVE Inv'
  OBVIOUS
<1>1. ASSUME NEW n \in 0 .. Longest, AddSentence(n) PROVE Inv'
  BY <1>1, AddSentenceInv
<1>2. CASE Return
  BY <1>2, ReturnInv DEF Return
<1>3. CASE UNCHANGED vars
  BY <1>3 DEF vars, Inv, TypeOK, Position, NothingSkipped, EndsIncrease, LongestBounds,
              Length
<1> QED BY <1>1, <1>2, <1>3 DEF Next

\* The invariant holds throughout, whatever the body of the post.
THEOREM Inductive == Spec => []Inv
BY InitInv, NextInv, PTL DEF Spec

\* The types of the loop and of the chunks it has pushed.
THEOREM TypeCorrect == Spec => []TypeOK
<1>1. Inv => TypeOK
  BY DEF Inv
<1> QED BY <1>1, Inductive, PTL

\* No token of the body is left out of the chunks (NothingSkipped), for every
\* CHUNK_SIZE and CHUNK_OVERLAP.
THEOREM EveryTokenChunked == Spec => []NothingSkipped
<1>1. Inv => NothingSkipped
  BY DEF Inv
<1> QED BY <1>1, Inductive, PTL

\* Every chunk but the first has text, and text the one before has not, except
\* for the last one of a body that ends with an over-long sentence and white
\* space (EndsIncrease).
THEOREM EveryChunkAdvances == Spec => []EndsIncrease
<1>1. Inv => EndsIncrease
  BY DEF Inv
<1> QED BY <1>1, Inductive, PTL

\* A chunk outgrows CHUNK_SIZE only by the length of a sentence (LongestBounds).
THEOREM ChunksBounded == Spec => []LongestBounds
<1>1. Inv => LongestBounds
  BY DEF Inv
<1> QED BY <1>1, Inductive, PTL

-----------------------------------------------------------------------------
\* What the chunk being filled shares with the last one pushed: it still has
\* the tail it was started with.
HandedOn ==
  ~done /\ chunks # <<>> =>
    LET last == chunks[Len(chunks)] IN
    last.to - from = Overlap \/ Length(last) < Overlap

\* A chunk that is pushed starts where it was handed on from the one before.
LEMMA PushOverlaps ==
  ASSUME Inv, ~done, OverlapUnlessShort, HandedOn, Push
  PROVE  OverlapUnlessShort'
<1> DEFINE new == [from |-> from, to |-> fed]
<1>1. new \in [from : Nat, to : Nat] /\ chunks \in Seq([from : Nat, to : Nat])
  BY DEF Inv, TypeOK
<1>2. /\ Len(chunks') = Len(chunks) + 1
      /\ Len(chunks) \in Nat
      /\ \A k \in 1 .. Len(chunks) : chunks'[k] = chunks[k]
      /\ chunks'[Len(chunks')] = new
  BY <1>1 DEF Push
<1>3. SUFFICES ASSUME NEW k \in 1 .. Len(chunks') - 1
               PROVE  \/ chunks'[k].to - chunks'[k + 1].from = Overlap
                      \/ Length(chunks'[k]) < Overlap
  BY DEF OverlapUnlessShort, Length
<1>4. CASE k < Len(chunks)
  BY <1>2, <1>4 DEF OverlapUnlessShort
<1>5. CASE k = Len(chunks)
  <2>1. chunks # <<>> /\ chunks'[k] = chunks[Len(chunks)] /\ chunks'[k + 1].from = from
    BY <1>2, <1>5
  <2> QED BY <2>1 DEF HandedOn
<1> QED BY <1>2, <1>4, <1>5

LEMMA OverlapStep ==
  Inv /\ OverlapUnlessShort /\ HandedOn /\ [Next]_vars => (OverlapUnlessShort /\ HandedOn)'
<1> SUFFICES ASSUME Inv, OverlapUnlessShort, HandedOn, [Next]_vars
             PROVE  OverlapUnlessShort' /\ HandedOn'
  OBVIOUS
<1>1. fed \in Nat /\ from \in Nat /\ from <= fed
  BY DEF Inv, TypeOK, Position
<1>2. ASSUME NEW n \in 0 .. Longest, AddSentence(n)
      PROVE  OverlapUnlessShort' /\ HandedOn'
  <2>1. ~done
    BY <1>2 DEF AddSentence
  <2>2. CASE fed - from + n > Size
    <3>1. Push /\ from' = from + SliceFrom(fed - from, fed - from - Overlap)
      BY <1>2, <2>2 DEF AddSentence
    <3>2. \/ from' = fed - Overlap
          \/ fed - from < Overlap
      BY <1>1, <3>1, ChunkAssumption DEF SliceFrom
    <3>3. chunks'[Len(chunks')] = [from |-> from, to |-> fed]
      BY <3>1 DEF Push, Inv, TypeOK
    <3>4. HandedOn'
      BY <1>1, <3>2, <3>3, ChunkAssumption DEF HandedOn, Length
    <3> QED BY <2>1, <3>1, <3>4, PushOverlaps
  <2>3. CASE ~(fed - from + n > Size)
    <3>1. chunks' = chunks /\ from' = from /\ done' = done
      BY <1>2, <2>3 DEF AddSentence
    <3>2. OverlapUnlessShort'
      BY <3>1 DEF OverlapUnlessShort, Length
    <3>3. HandedOn'
      BY <3>1 DEF HandedOn, Length
    <3> QED BY <3>2, <3>3
  <2> QED BY <2>2, <2>3
<1>3. CASE Return
  <2>1. ~done /\ HandedOn'
    BY <1>3 DEF Return, HandedOn
  <2>2. CASE Push
    BY <2>1, <2>2, PushOverlaps
  <2>3. CASE UNCHANGED chunks
    <3>1. chunks' = chunks
      BY <2>3
    <3> QED BY <2>1, <3>1 DEF OverlapUnlessShort, Length
  <2> QED BY <1>3, <2>1, <2>2, <2>3 DEF Return
<1>4. CASE UNCHANGED vars
  BY <1>4 DEF vars, HandedOn, OverlapUnlessShort, Length
<1> QED BY <1>2, <1>3, <1>4 DEF Next

\* Consecutive chunks share CHUNK_OVERLAP tokens, or the first of them has fewer
\* than that (OverlapUnlessShort).
THEOREM ChunksOverlap == Spec => []OverlapUnlessShort
<1>1. Init => OverlapUnlessShort /\ HandedOn
  BY DEF Init, OverlapUnlessShort, HandedOn
<1>2. Inv /\ OverlapUnlessShort /\ HandedOn /\ [Next]_vars
        => (OverlapUnlessShort /\ HandedOn)'
  BY OverlapStep
<1> QED BY <1>1, <1>2, Inductive, PTL DEF Spec
=============================================================================
