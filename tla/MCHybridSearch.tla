--------------------------- MODULE MCHybridSearch ---------------------------
EXTENDS HybridSearch

\* The calendar of KstRange is the Gregorian one: days follow each other through
\* months and years, and three days are where everybody knows them to be.
NextDate(date) ==
  LET long == date.m \in {0, 2, 4, 6, 7, 9, 11}
      days == IF long THEN 31 ELSE IF date.m # 1 THEN 30
              ELSE IF date.y \in {2020, 2024, 2028} THEN 29 ELSE 28 IN
  IF date.d < days THEN [date EXCEPT !.d = @ + 1]
  ELSE IF date.m < 11 THEN [date EXCEPT !.d = 1, !.m = @ + 1]
  ELSE [d |-> 1, m |-> 0, y |-> date.y + 1]

ASSUME CalendarAssumption ==
  /\ \A day \in DayNumber(2022, 0, 1) .. DayNumber(2025, 2, 31) :
       Civil(day + 1) = NextDate(Civil(day))
  /\ DayNumber(2024, 1, 29) - DayNumber(2000, 1, 29) = 24 * 365 + 6
  /\ DayNumber(2000, 0, 1) - DayNumber(1900, 0, 1) = 100 * 365 + 24

MCPosts == 1 .. 2
MCChunkCount == <<3, 1>>

\* An instant: the date in Korea, and the hour there.
At(y, m, d, h) == 24 * DayNumber(y, m - 1, d) + h - 9

MCCreated == <<At(2024, 2, 29, 23), At(2024, 3, 1, 0)>>

\* The first and the last hour of days where a filter may change.
BaseDays == {<<2024, 1, 1>>, <<2024, 2, 29>>, <<2023, 3, 31>>, <<2024, 3, 31>>,
             <<2024, 5, 31>>, <<2023, 12, 31>>, <<2024, 7, 17>>}
Bases == {At(b[1], b[2], b[3], h) : b \in BaseDays, h \in {0, 23}}

MonthStarts == {24 * DayNumber(2022, m, 1) - 9 : m \in 0 .. 38}
MCProbes ==
  UNION {{t - 1, t, t + 24} : t \in MonthStarts}
    \cup {b + 24 * n : b \in Bases, n \in {-30, -29, -21, -14, -13, -7, -6, -2, -1, 0, 1}}

Named == {[type |-> "named", preset |-> p] :
            p \in {"all", "today", "yesterday", "last_7_days", "last_14_days",
                   "last_30_days", "this_month", "last_month"}}
Relative ==
  {[type |-> "relative", unit |-> u, value |-> n] :
     u \in {"day", "week", "month", "year"}, n \in {1, 3}}
Absolute ==
  {[type |-> "absolute", from |-> {At(2023, 12, 5, 3)}, to |-> {At(2024, 2, 29, 11)}],
   [type |-> "absolute", from |-> {}, to |-> {At(2024, 2, 29, 11)}]}
Months == {[type |-> "month", year |-> y, month |-> m] : y \in {0, 2024}, m \in {1, 2, 12}}
Quarters == {[type |-> "quarter", year |-> y, quarter |-> q] : y \in {0, 2024}, q \in {1, 4}}
Years == {[type |-> "year", year |-> 2023]}
Labels ==
  {[type |-> "label", shape |-> "preset", preset |-> "last_month"],
   [type |-> "label", shape |-> "to_now", year |-> 2023],
   [type |-> "label", shape |-> "years", year |-> 2024, last |-> 2023],
   [type |-> "label", shape |-> "quarter", year |-> 2023, quarter |-> 2],
   [type |-> "label", shape |-> "month", year |-> 2024, month |-> 2],
   [type |-> "label", shape |-> "year", year |-> 2024],
   [type |-> "label", shape |-> "other"]}
Filters == Named \cup Relative \cup Absolute \cup Months \cup Quarters \cup Years \cup Labels

Word(key, capital, kind) == [key |-> key, capital |-> capital, kind |-> kind]
Phrase == Word("p", FALSE, "phrase")
SomeWords ==
  {<<>>, <<Phrase>>,
   <<Word("a", TRUE, "word"), Word("b", FALSE, "stop"), Word("a", FALSE, "word"),
     Word("c", TRUE, "phrase"), Word("d", FALSE, "short")>>,
   <<Word("e", FALSE, "padded"), Word("f", FALSE, "symbol"), Word("e", TRUE, "padded"),
     Word("g", FALSE, "blank")>>,
   [n \in 1 .. 9 |-> Word(<<"a", "b", "c", "d", "e", "f", "g", "h", "i">>[n], FALSE, "word")]}

Default ==
  [topK |-> Absent, limit |-> Absent, threshold |-> Absent, chunk |-> 21, title |-> 9,
   enabled |-> TRUE, bias |-> "none", alpha |-> Absent, maxRewrites |-> Absent,
   maxKeywords |-> Absent, rewrites |-> <<>>, keywords |-> <<>>, time |-> {}]

Answers ==
  {[Default EXCEPT !.chunk = w[1], !.title = w[2], !.bias = b, !.alpha = a] :
     w \in {<<0, 0>>, <<30, 30>>, <<10, 5>>, <<0, 20>>},
     b \in {"none", "lexical", "semantic"}, a \in {Absent, 0, 100}}
  \cup {[Default EXCEPT !.topK = t, !.limit = l, !.threshold = h] :
          t \in {0, 1, 10, 11}, l \in {0, 1, 20, 21}, h \in {0, 10, 11}}
  \cup {[Default EXCEPT !.rewrites = r, !.keywords = k, !.maxRewrites = m, !.maxKeywords = n] :
          r \in SomeWords, k \in SomeWords, m \in {Absent, 0, 4, 5}, n \in {Absent, 0, 8}}

February == [type |-> "month", year |-> 2024, month |-> 2]
Noon == At(2024, 7, 17, 12)

InBlog(raw, base) == [scope |-> "user", raw |-> raw, base |-> base]
Everywhere(raw) == [scope |-> "global", raw |-> raw, base |-> Noon]

\* One search with a rewrite, one of two posts and one of three chunks without, one
\* with a time filter, the vector search alone with a limit of one, and all blogs.
MCSearched ==
  {InBlog([Default EXCEPT !.topK = 1, !.rewrites = <<Phrase>>], Noon),
   InBlog([Default EXCEPT !.topK = 2, !.limit = 2, !.bias = "lexical"], Noon),
   InBlog([Default EXCEPT !.topK = 3, !.limit = 3, !.bias = "semantic", !.alpha = 50], Noon),
   InBlog([Default EXCEPT !.topK = 1, !.time = {February}], Noon),
   InBlog([Default EXCEPT !.topK = 2, !.limit = 1, !.enabled = FALSE], Noon),
   Everywhere([Default EXCEPT !.topK = 1, !.bias = "semantic"]),
   Everywhere([Default EXCEPT !.topK = 1, !.enabled = FALSE, !.time = {February}])}

MCVecScores == {-6, 14, 20}

MCAsked ==
  MCSearched
    \cup {InBlog(r, Noon) : r \in Answers}
    \cup {InBlog([Default EXCEPT !.time = {f}], b) : f \in Filters, b \in Bases}
=============================================================================
