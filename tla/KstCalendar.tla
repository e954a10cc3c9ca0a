---------------------------- MODULE KstCalendar ----------------------------
(***************************************************************************)
(* What the time filters of a search plan mean, said of the date a post    *)
(* has in Korea: the reference KstRange is compared with.                  *)
(***************************************************************************)
EXTENDS KstRange

KstDay(t) == (t + 9) \div 24
KstDate(t) == Civil(KstDay(t))

\* Months counted through; quarters of a date from 1.
MonthOf(date) == 12 * date.y + date.m
QuarterOf(date) == date.m \div 3 + 1

FullYear(y) == IF y \in 0 .. 99 THEN 1900 + y ELSE y

\* Not before the same day of the month n months ago.
SinceMonthsAgo(n, date, today) ==
  \/ MonthOf(date) > MonthOf(today) - n
  \/ MonthOf(date) = MonthOf(today) - n /\ date.d >= today.d

\* day is one of the n days up to today.
LastDays(n, day, today) == day \in today - n + 1 .. today

PresetMatches(preset, base, t) ==
  LET date == KstDate(t) now == KstDate(base) IN
  CASE preset = "today"        -> date = now
    [] preset = "yesterday"    -> KstDate(t + 24) = now
    [] preset = "last_7_days"  -> LastDays(7, KstDay(t), KstDay(base))
    [] preset = "last_14_days" -> LastDays(14, KstDay(t), KstDay(base))
    [] preset = "last_30_days" -> LastDays(30, KstDay(t), KstDay(base))
    [] preset = "this_month"   -> MonthOf(date) = MonthOf(now)
    [] preset = "last_month"   -> MonthOf(date) = MonthOf(now) - 1
    [] OTHER                   -> TRUE

RelativeMatches(f, base, t) ==
  /\ KstDay(t) <= KstDay(base)
  /\ CASE f.unit = "day"   -> LastDays(f.value, KstDay(t), KstDay(base))
       [] f.unit = "week"  -> LastDays(7 * f.value, KstDay(t), KstDay(base))
       [] f.unit = "month" -> SinceMonthsAgo(f.value, KstDate(t), KstDate(base))
       [] f.unit = "year"  -> SinceMonthsAgo(12 * f.value, KstDate(t), KstDate(base))

LabelMatches(f, base, t) ==
  LET date == KstDate(t) IN
  CASE f.shape = "preset"  -> PresetMatches(f.preset, base, t)
    [] f.shape = "to_now"  -> date.y >= FullYear(f.year) /\ KstDay(t) <= KstDay(base)
    [] f.shape = "years"   -> \/ /\ f.year <= f.last
                                 /\ date.y \in FullYear(f.year) .. FullYear(f.last)
                              \/ /\ f.last <= f.year
                                 /\ date.y \in FullYear(f.last) .. FullYear(f.year)
    [] f.shape = "quarter" -> date.y = FullYear(f.year) /\ QuarterOf(date) = f.quarter
    [] f.shape = "month"   -> /\ date.y = FullYear(f.year)
                              /\ date.m + 1 = Clamp(f.month, 1, 12)
    [] f.shape = "year"    -> date.y = FullYear(f.year)
    [] f.shape = "other"   -> TRUE

\* Whether filter f, asked at instant base, is meant to let a post of instant t
\* through; what cannot be read as a filter lets every post through.
Matches(f, base, t) ==
  LET date == KstDate(t)
      year == IF f.year = 0 THEN KstDate(base).y ELSE FullYear(f.year) IN
  CASE f.type = "named"    -> PresetMatches(f.preset, base, t)
    [] f.type = "relative" -> RelativeMatches(f, base, t)
    [] f.type = "absolute" -> \A a \in f.from, b \in f.to : t \in a .. b
    [] f.type = "month"    -> date.y = year /\ date.m + 1 = f.month
    [] f.type = "quarter"  -> date.y = year /\ QuarterOf(date) = f.quarter
    [] f.type = "year"     -> date.y = FullYear(f.year)
    [] f.type = "label"    -> LabelMatches(f, base, t)

\* The day of the month is so far past the end of the month so many months ago that
\* setMonth goes on to the second day of the next one, or later: days are left out.
SpillsOver(f, base) ==
  /\ f.type = "relative" /\ f.unit \in {"month", "year"}
  /\ LET now   == KstDate(base)
         month == MonthOf(now) - f.value * (IF f.unit = "year" THEN 12 ELSE 1) IN
     Civil(EndOfMonth(month \div 12, month % 12)).d + 1 < now.d
=============================================================================
