------------------------------ MODULE KstRange ------------------------------
(***************************************************************************)
(* src/utils/time.ts: the time filter of a search plan turned into a range *)
(* of UTC instants, by the calendar of Korea (UTC+9).                      *)
(*                                                                         *)
(* An instant is a number of hours; the last millisecond of a day is its   *)
(* last hour, and both ends of a range belong to it (SQL BETWEEN).  Days   *)
(* are numbered, months count from 0 as they do in JavaScript.  A result   *)
(* that may be null is a set with at most one range.                       *)
(*                                                                         *)
(* The code adds nine hours to an instant and then reads it with getters   *)
(* of the process's own time zone.                                         *)
(***************************************************************************)
EXTENDS Integers, Sequences

CONSTANT Zone   \* the offset of the process's time zone, in hours (containers: 0)

ASSUME ZoneAssumption == Zone \in -12 .. 14

-----------------------------------------------------------------------------
(***************************************************************************)
(* The calendar of JavaScript's Date.                                      *)
(***************************************************************************)

Leap(y) == y % 4 = 0 /\ (y % 100 # 0 \/ y % 400 = 0)

DaysBeforeYear(y) == 365 * y + (y + 3) \div 4 - (y + 99) \div 100 + (y + 399) \div 400

DaysBeforeMonth(y, m) ==
  <<0, 31, 59, 90, 120, 151, 181, 212, 243, 273, 304, 334>>[m + 1]
    + IF m > 1 /\ Leap(y) THEN 1 ELSE 0

\* The day of a year, month and day, which spill over when they are too large or
\* too small, as they do in the setters of Date.
DayNumber(y, m, d) ==
  LET year == y + m \div 12 IN
  DaysBeforeYear(year) + DaysBeforeMonth(year, m % 12) + d - 1

\* new Date(y, m, d) takes a year of two digits for one of the last century.
NewDate(y, m, d) == DayNumber(IF y \in 0 .. 99 THEN 1900 + y ELSE y, m, d)

Civil(day) ==
  LET year  == CHOOSE y \in day \div 366 .. day \div 365 :
                 DaysBeforeYear(y) <= day /\ day < DaysBeforeYear(y + 1)
      rest  == day - DaysBeforeYear(year)
      month == CHOOSE m \in 0 .. 11 :
                 /\ DaysBeforeMonth(year, m) <= rest
                 /\ m < 11 => rest < DaysBeforeMonth(year, m + 1) IN
  [y |-> year, m |-> month, d |-> rest - DaysBeforeMonth(year, month) + 1]

-----------------------------------------------------------------------------
(***************************************************************************)
(* Days and instants.                                                      *)
(***************************************************************************)

ToKst(t) == t + 9
FromKstToUtc(t) == t - 9

LocalDay(t) == (t + Zone) \div 24
StartOfDay(day) == 24 * day - Zone
EndOfDay(day) == StartOfDay(day) + 23

DayRange(first, last) ==
  [from |-> FromKstToUtc(StartOfDay(first)), to |-> FromKstToUtc(EndOfDay(last))]

StartOfMonth(y, m) == NewDate(y, m, 1)

\* Mutant of EndOfMonth: day 1 of the next month.
EndOfMonthLate(y, m) == NewDate(y, m + 1, 1)

\* Day 0 of the next month.
EndOfMonth(y, m) == NewDate(y, m + 1, 0)

MonthRange(y, m) == DayRange(StartOfMonth(y, m), EndOfMonth(y, m))
QuarterRange(y, q) == DayRange(StartOfMonth(y, 3 * (q - 1)), EndOfMonth(y, 3 * q - 1))
YearsRange(a, b) == DayRange(StartOfMonth(a, 0), EndOfMonth(b, 11))

DaysBack(n, today) == DayRange(today - (n - 1), today)

-----------------------------------------------------------------------------
(***************************************************************************)
(* toAbsoluteRangeKst, one operator for each type of filter.               *)
(***************************************************************************)

\* The presets, of named filters and of labels; any other one is no filter.
NamedRange(preset, today) ==
  LET now == Civil(today) IN
  CASE preset = "today"        -> {DayRange(today, today)}
    [] preset = "yesterday"    -> {DayRange(today - 1, today - 1)}
    [] preset = "last_7_days"  -> {DaysBack(7, today)}
    [] preset = "last_14_days" -> {DaysBack(14, today)}
    [] preset = "last_30_days" -> {DaysBack(30, today)}
    [] preset = "this_month"   -> {MonthRange(now.y, now.m)}
    [] preset = "last_month"   -> {IF now.m = 0 THEN MonthRange(now.y - 1, 11)
                                                ELSE MonthRange(now.y, now.m - 1)}
    [] OTHER                   -> {}

RelativeRange(unit, value, today) ==
  LET now == Civil(today) IN
  DayRange(CASE unit = "day"   -> today - value + 1
             [] unit = "week"  -> today - 7 * value + 1
             [] unit = "month" -> DayNumber(now.y, now.m - value, now.d)
             [] unit = "year"  -> DayNumber(now.y - value, now.m, now.d),
           today)

\* Neither end is compared with the other; an invalid date makes toISOString throw.
AbsoluteRange(f) ==
  {[from |-> a, to |-> b] : a \in f.from, b \in f.to}

\* A year that is missing, or 0, is the present one.
YearOr(year, now) == IF year # 0 THEN year ELSE now

Clamp(n, lo, hi) == IF n < lo THEN lo ELSE IF n > hi THEN hi ELSE n

\* Labels by their shape.  "years" has one or two separators between the two
\* years; with the three of "2019_to_2022" nothing matches ("other").
LabelRange(f, today) ==
  CASE f.shape = "preset"  -> NamedRange(f.preset, today)
    [] f.shape = "to_now"  -> {DayRange(StartOfMonth(f.year, 0), today)}
    [] f.shape = "years"   -> {IF f.year < f.last THEN YearsRange(f.year, f.last)
                                                  ELSE YearsRange(f.last, f.year)}
    [] f.shape = "quarter" -> {QuarterRange(f.year, f.quarter)}
    [] f.shape = "month"   -> {MonthRange(f.year, Clamp(f.month, 1, 12) - 1)}
    [] f.shape = "year"    -> {YearsRange(f.year, f.year)}
    [] f.shape = "other"   -> {}

\* Years a Date can have; years of four digits.
DateYears == {y \in Int : -271820 <= y /\ y <= 275759}
LabelYears == {y \in Nat : y <= 9999}

\* What the schema lets through; an instant that cannot be read is {}.
TimeFilters ==
  [type : {"named"}, preset : STRING]
    \cup [type : {"relative"}, unit : {"day", "week", "month", "year"}, value : 1 .. 365]
    \cup [type : {"absolute"}, from : SUBSET Int, to : SUBSET Int]
    \cup [type : {"month"}, year : DateYears, month : 1 .. 12]
    \cup [type : {"quarter"}, year : DateYears, quarter : 1 .. 4]
    \cup [type : {"year"}, year : DateYears]
    \cup [type : {"label"}, shape : {"preset"}, preset : STRING]
    \cup [type : {"label"}, shape : {"to_now", "year"}, year : LabelYears]
    \cup [type : {"label"}, shape : {"years"}, year : LabelYears, last : LabelYears]
    \cup [type : {"label"}, shape : {"quarter"}, year : LabelYears, quarter : 1 .. 4]
    \cup [type : {"label"}, shape : {"month"}, year : LabelYears, month : 0 .. 99]
    \cup [type : {"label"}, shape : {"other"}]

ToAbsoluteRangeKst(f, base) ==
  LET today == LocalDay(ToKst(base))
      year  == Civil(today).y IN
  CASE f.type = "named"    -> NamedRange(f.preset, today)
    [] f.type = "relative" -> {RelativeRange(f.unit, f.value, today)}
    [] f.type = "absolute" -> AbsoluteRange(f)
    [] f.type = "month"    -> {MonthRange(YearOr(f.year, year), Clamp(f.month, 1, 12) - 1)}
    [] f.type = "quarter"  -> {QuarterRange(YearOr(f.year, year), Clamp(f.quarter, 1, 4))}
    [] f.type = "year"     -> {YearsRange(f.year, f.year)}
    [] f.type = "label"    -> LabelRange(f, today)
=============================================================================
