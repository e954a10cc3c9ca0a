----------------------------- MODULE SearchPlan -----------------------------
(***************************************************************************)
(* generateSearchPlan (src/services/search-plan.service.ts): what the LLM  *)
(* answered, checked against planSchema (src/types/ai.v2.types.ts), filled *)
(* with the defaults of the schema and normalised.                         *)
(*                                                                         *)
(* A raw plan is a record with Absent for a field the answer left out.     *)
(* Weights count thirtieths (in answers whose quotients are whole),        *)
(* thresholds tenths, alpha hundredths.  A word                            *)
(* of a list is a record: its letters (key), whether it has capitals, and  *)
(* its kind:                                                               *)
(*   "word"    a token of two letters or more                              *)
(*   "padded"  one letter and a zero-width character                       *)
(*   "short"   one letter                                                  *)
(*   "phrase"  several words                                               *)
(*   "symbol"  a word with punctuation in it                               *)
(*   "stop"    a stop word                                                 *)
(*   "blank"   nothing after trim()                                        *)
(***************************************************************************)
EXTENDS KstRange, Listing

Absent == -1
Or(value, default) == IF value = Absent THEN default ELSE value

Biases == {"lexical", "balanced", "semantic"}

\* getPreset: the share of the vector score, and the thresholds of the boosts.
Preset ==
  [lexical  |-> [alpha |-> 30, sem |-> 65, lex |-> 80],
   balanced |-> [alpha |-> 50, sem |-> 70, lex |-> 75],
   semantic |-> [alpha |-> 75, sem |-> 80, lex |-> 65]]

Words ==
  [key : STRING, capital : BOOLEAN,
   kind : {"word", "padded", "short", "phrase", "symbol", "stop", "blank"}]

\* What the LLM may answer.
RawPlans ==
  {raw \in [topK : Int, limit : Int, threshold : Int, chunk : Int, title : Int,
            enabled : BOOLEAN, bias : Biases \cup {"none"}, alpha : Int,
            maxRewrites : Int, maxKeywords : Int,
            rewrites : Seq(Words), keywords : Seq(Words), time : SUBSET TimeFilters] :
     raw.chunk + raw.title > 0 => (30 * raw.chunk) % (raw.chunk + raw.title) = 0}

\* planSchema.parse throws for a number out of its range.
Accepts(raw) ==
  /\ Or(raw.topK, 5) \in 1 .. 10
  /\ Or(raw.limit, 5) \in 1 .. 20
  /\ Or(raw.threshold, 2) \in 0 .. 10
  /\ raw.chunk \in 0 .. 30 /\ raw.title \in 0 .. 30
  /\ raw.bias \in Biases \cup {"none"}
  /\ Or(raw.alpha, 0) \in 0 .. 100
  /\ Or(raw.maxRewrites, 3) \in 0 .. 4
  /\ Or(raw.maxKeywords, 6) \in 0 .. 8

\* Mutant of Weights: they are kept as they came.
WeightsKept(raw) == [chunk |-> raw.chunk, title |-> raw.title]

\* The weights sum to one; two zeros are the default weights.
Weights(raw) ==
  LET sum == raw.chunk + raw.title IN
  IF sum > 0 THEN [chunk |-> (30 * raw.chunk) \div sum, title |-> (30 * raw.title) \div sum]
             ELSE [chunk |-> 21, title |-> 9]

\* The first max of the words, without repetitions.
Uniq(words, max) ==
  FirstOf(Picked(words, {n \in DOMAIN words : \A m \in 1 .. n - 1 : words[m] # words[n]}), max)

Lower(w) == [w EXCEPT !.capital = FALSE]

\* trim() and toLowerCase() on words that are not blank, short or stop words.
CleanList(words, max) ==
  LET kept == Picked(words, {n \in DOMAIN words :
                               words[n].kind \notin {"blank", "short", "stop"}}) IN
  Uniq([n \in DOMAIN kept |-> Lower(kept[n])], max)

\* Single tokens only.  The length is looked at before zero-width characters are
\* taken out, so that one letter may be left.
CleanKeywords(words, max) ==
  LET kept == Picked(words, {n \in DOMAIN words : words[n].kind \in {"word", "padded"}})
      token(w) == [Lower(w) EXCEPT !.kind = IF @ = "padded" THEN "short" ELSE @] IN
  Uniq([n \in DOMAIN kept |-> token(kept[n])], Smaller(5, max))

\* A time filter becomes an absolute range, or is taken out.
TimeFilter(raw, base) ==
  UNION {{[type |-> "absolute", from |-> {r.from}, to |-> {r.to}] :
            r \in ToAbsoluteRangeKst(f, base)} : f \in raw.time}

\* The clamps of top_k, limit and threshold have nothing left to do after the schema.
Normalize(raw, base) ==
  LET bias        == IF raw.bias = "none" THEN "balanced" ELSE raw.bias
      maxRewrites == Or(raw.maxRewrites, 3)
      maxKeywords == Smaller(5, Or(raw.maxKeywords, 6)) IN
  [topK        |-> Or(raw.topK, 5),
   limit       |-> Or(raw.limit, 5),
   threshold   |-> Or(raw.threshold, 2),
   chunk       |-> Weights(raw).chunk,
   title       |-> Weights(raw).title,
   enabled     |-> raw.enabled,
   bias        |-> bias,
   alpha       |-> Or(raw.alpha, Preset[bias].alpha),
   maxRewrites |-> maxRewrites,
   maxKeywords |-> maxKeywords,
   rewrites    |-> CleanList(raw.rewrites, maxRewrites),
   keywords    |-> CleanKeywords(raw.keywords, maxKeywords),
   time        |-> TimeFilter(raw, base)]
=============================================================================
