------------------------ MODULE KstCalendar_proofs ------------------------
(***************************************************************************)
(* Proofs about KstRange and KstCalendar: the calendar of the code is the  *)
(* Gregorian one, and its ranges hold the instants the filters mean.       *)
(***************************************************************************)
EXTENDS KstCalendar, WellFoundedInduction, TLAPS

-----------------------------------------------------------------------------
(***************************************************************************)
(* Years and months.                                                       *)
(***************************************************************************)

LEMMA YearLength ==
  ASSUME NEW y \in Int
  PROVE  /\ DaysBeforeYear(y) \in Int
         /\ DaysBeforeYear(y + 1) = DaysBeforeYear(y) + IF Leap(y) THEN 366 ELSE 365
  BY DEF DaysBeforeYear, Leap

LEMMA YearsGrow ==
  ASSUME NEW y \in Int, NEW z \in Int, y <= z
  PROVE  DaysBeforeYear(y) <= DaysBeforeYear(z)
  BY Z3 DEF DaysBeforeYear

LEMMA YearsLong ==
  ASSUME NEW y \in Nat
  PROVE  365 * y <= DaysBeforeYear(y) /\ DaysBeforeYear(y) <= 366 * y
  BY Z3 DEF DaysBeforeYear

\* The first day of a month; months are counted through.
FirstDay(k) == DayNumber(k \div 12, k % 12, 1)

LEMMA MonthTable ==
  ASSUME NEW y \in Int
  PROVE  /\ \A m \in 0 .. 11 : DaysBeforeMonth(y, m) \in 0 .. 335
         /\ DaysBeforeMonth(y, 0) = 0
         /\ \A m \in 0 .. 10 : DaysBeforeMonth(y, m + 1) - DaysBeforeMonth(y, m) \in 28 .. 31
         /\ 31 + DaysBeforeMonth(y, 11) = IF Leap(y) THEN 366 ELSE 365
<1> DEFINE leap == Leap(y)
<1> HIDE DEF leap
<1>1. \A m \in 0 .. 11 : DaysBeforeMonth(y, m) =
        CASE m = 0 -> 0
          [] m = 1 -> 31
          [] m = 2 -> 59 + IF leap THEN 1 ELSE 0
          [] m = 3 -> 90 + IF leap THEN 1 ELSE 0
          [] m = 4 -> 120 + IF leap THEN 1 ELSE 0
          [] m = 5 -> 151 + IF leap THEN 1 ELSE 0
          [] m = 6 -> 181 + IF leap THEN 1 ELSE 0
          [] m = 7 -> 212 + IF leap THEN 1 ELSE 0
          [] m = 8 -> 243 + IF leap THEN 1 ELSE 0
          [] m = 9 -> 273 + IF leap THEN 1 ELSE 0
          [] m = 10 -> 304 + IF leap THEN 1 ELSE 0
          [] m = 11 -> 334 + IF leap THEN 1 ELSE 0
  BY DEF DaysBeforeMonth, leap
<1> QED BY <1>1 DEF leap

LEMMA MonthInYear ==
  ASSUME NEW y \in Int, NEW m \in 0 .. 11
  PROVE  DaysBeforeMonth(y, m) \in 0 .. 335 /\ DaysBeforeMonth(y, m) \in Int
<1>1. \A n \in 0 .. 11 : DaysBeforeMonth(y, n) \in 0 .. 335
  BY MonthTable
<1>2. DaysBeforeMonth(y, m) \in 0 .. 335
  BY <1>1
<1> QED BY <1>2

LEMMA NextMonth ==
  ASSUME NEW y \in Int, NEW m \in 0 .. 10
  PROVE  DaysBeforeMonth(y, m + 1) - DaysBeforeMonth(y, m) \in 28 .. 31
  BY MonthTable

LEMMA YearEnd ==
  ASSUME NEW y \in Int
  PROVE  /\ DaysBeforeYear(y + 1) = DaysBeforeYear(y) + DaysBeforeMonth(y, 11) + 31
         /\ DaysBeforeMonth(y, 0) = 0
<1>1. 31 + DaysBeforeMonth(y, 11) = IF Leap(y) THEN 366 ELSE 365
  BY MonthTable
<1>2. DaysBeforeYear(y + 1) = DaysBeforeYear(y) + IF Leap(y) THEN 366 ELSE 365
  BY YearLength
<1>3. DaysBeforeYear(y) \in Int /\ DaysBeforeMonth(y, 11) \in Int /\ DaysBeforeMonth(y, 0) = 0
  BY YearLength, MonthInYear, MonthTable
<1> QED BY <1>1, <1>2, <1>3

LEMMA FirstDayIs ==
  ASSUME NEW y \in Int, NEW m \in 0 .. 11
  PROVE  FirstDay(12 * y + m) = DaysBeforeYear(y) + DaysBeforeMonth(y, m)
<1>1. (12 * y + m) \div 12 = y /\ (12 * y + m) % 12 = m /\ m \div 12 = 0 /\ m % 12 = m
  BY Z3
<1>2. FirstDay(12 * y + m) = DayNumber(y, m, 1)
  BY <1>1 DEF FirstDay
<1>3. DayNumber(y, m, 1) = DaysBeforeYear(y) + DaysBeforeMonth(y, m) + 1 - 1
  <2>1. y + m \div 12 = y
    BY <1>1
  <2> QED BY <1>1, <2>1 DEF DayNumber
<1>4. DaysBeforeYear(y) \in Int /\ DaysBeforeMonth(y, m) \in Int
  BY YearLength, MonthInYear
<1> QED BY <1>2, <1>3, <1>4

\* Months follow each other; none is shorter than 28 days.
LEMMA MonthLength ==
  ASSUME NEW k \in Int
  PROVE  FirstDay(k) \in Int /\ FirstDay(k + 1) \in FirstDay(k) + 28 .. FirstDay(k) + 31
<1> DEFINE y == k \div 12
           m == k % 12
<1>1. y \in Int /\ m \in 0 .. 11 /\ k = 12 * y + m
  BY Z3
<1> HIDE DEF y, m
<1>2. FirstDay(k) = DaysBeforeYear(y) + DaysBeforeMonth(y, m)
  BY <1>1, FirstDayIs
<1>3. DaysBeforeYear(y) \in Int /\ DaysBeforeMonth(y, m) \in Int
  BY <1>1, YearLength, MonthInYear, ZenonT(40)
<1>4. CASE m < 11
  <2>1. k + 1 = 12 * y + (m + 1) /\ m + 1 \in 0 .. 11 /\ m \in 0 .. 10
    BY <1>1, <1>4
  <2>2. FirstDay(k + 1) = DaysBeforeYear(y) + DaysBeforeMonth(y, m + 1)
    BY <1>1, <2>1, FirstDayIs
  <2>3. DaysBeforeMonth(y, m + 1) - DaysBeforeMonth(y, m) \in 28 .. 31
        /\ DaysBeforeMonth(y, m + 1) \in Int
    BY <1>1, <2>1, NextMonth, MonthInYear
  <2> QED BY <1>2, <1>3, <2>2, <2>3
<1>5. CASE m = 11
  <2>1. k + 1 = 12 * (y + 1) + 0 /\ y + 1 \in Int
    BY <1>1, <1>5
  <2>2. FirstDay(k + 1) = DaysBeforeYear(y + 1) + DaysBeforeMonth(y + 1, 0)
    BY <2>1, FirstDayIs
  <2>3. DaysBeforeMonth(y + 1, 0) = 0
    BY <2>1, YearEnd
  <2>4. DaysBeforeYear(y + 1) = DaysBeforeYear(y) + DaysBeforeMonth(y, 11) + 31
    BY <1>1, YearEnd
  <2> QED BY <1>2, <1>3, <1>5, <2>2, <2>3, <2>4
<1> QED BY <1>1, <1>4, <1>5

LEMMA MonthsGrow ==
  ASSUME NEW j \in Int, NEW k \in Int, j < k
  PROVE  FirstDay(j + 1) <= FirstDay(k)
<1> DEFINE x == j \div 12
           y == k \div 12
           m == j % 12
           n == k % 12
<1>1. /\ x \in Int /\ m \in 0 .. 11 /\ j = 12 * x + m
      /\ y \in Int /\ n \in 0 .. 11 /\ k = 12 * y + n
  BY Z3
<1> HIDE DEF x, y, m, n
<1>2. FirstDay(k) = DaysBeforeYear(y) + DaysBeforeMonth(y, n)
  BY <1>1, FirstDayIs
<1>3. CASE j + 1 = k
  BY <1>3, MonthLength
<1>4. CASE j + 1 < k /\ x = y
  <2>1. m + 1 \in 0 .. 11 /\ j + 1 = 12 * y + (m + 1) /\ m + 1 < n
    BY <1>1, <1>4
  <2>2. FirstDay(j + 1) = DaysBeforeYear(y) + DaysBeforeMonth(y, m + 1)
    BY <1>1, <2>1, FirstDayIs
  <2>3. DaysBeforeMonth(y, m + 1) <= DaysBeforeMonth(y, n)
    BY <1>1, <2>1, SMTT(40) DEF DaysBeforeMonth
  <2>4. DaysBeforeYear(y) \in Int /\ DaysBeforeMonth(y, m + 1) \in Int /\ DaysBeforeMonth(y, n) \in Int
    BY <1>1, <2>1, YearLength, MonthInYear, ZenonT(40)
  <2> QED BY <1>2, <2>2, <2>3, <2>4
<1>5. CASE j + 1 < k /\ x # y
  <2>1. x + 1 <= y /\ x + 1 \in Int
    BY <1>1, <1>5
  <2>2. FirstDay(12 * (x + 1) + 0) = DaysBeforeYear(x + 1) + DaysBeforeMonth(x + 1, 0)
    BY <2>1, FirstDayIs
  <2>3. DaysBeforeMonth(x + 1, 0) = 0 /\ DaysBeforeYear(x + 1) <= DaysBeforeYear(y)
    BY <1>1, <2>1, YearEnd, YearsGrow
  <2>4. DaysBeforeYear(y) \in Int /\ DaysBeforeMonth(y, n) \in 0 .. 335 /\ DaysBeforeYear(x + 1) \in Int
    BY <1>1, <2>1, YearLength, MonthInYear, ZenonT(40)
  <2>5. DaysBeforeYear(x + 1) <= FirstDay(k)
    BY <1>2, <2>3, <2>4
  <2>6. CASE m = 11
    <3>1. j + 1 = 12 * (x + 1) + 0
      BY <1>1, <2>6
    <3> QED BY <2>2, <2>3, <2>4, <2>5, <3>1
  <2>7. CASE m < 11
    <3>1. j + 1 = 12 * x + (m + 1) /\ m + 1 \in 0 .. 11
      BY <1>1, <2>7
    <3>2. FirstDay(j + 1) = DaysBeforeYear(x) + DaysBeforeMonth(x, m + 1)
      BY <1>1, <3>1, FirstDayIs
    <3>3. DaysBeforeYear(x + 1) >= DaysBeforeYear(x) + 365 /\ DaysBeforeYear(x) \in Int
      BY <1>1, YearLength
    <3>4. DaysBeforeMonth(x, m + 1) \in 0 .. 335
      BY <1>1, <3>1, MonthInYear
    <3>5. FirstDay(k) \in Int
      BY MonthLength
    <3> QED BY <2>4, <2>5, <3>2, <3>3, <3>4, <3>5
  <2> QED BY <1>1, <2>6, <2>7
<1>6. j + 1 = k \/ j + 1 < k
  OBVIOUS
<1> QED BY <1>3, <1>4, <1>5, <1>6

-----------------------------------------------------------------------------
(***************************************************************************)
(* Dates.                                                                  *)
(***************************************************************************)

LEMMA LeastNatural ==
  ASSUME NEW S \in SUBSET Nat, S # {}
  PROVE  \E n \in S : \A m \in S : n <= m
<1>1. PICK n \in S : \A m \in S : ~ (<<m, n>> \in OpToRel(<, Nat))
  BY NatLessThanWellFounded, WFMin
<1>2. ASSUME NEW m \in S PROVE n <= m
  <2>1. ~ (m < n)
    BY <1>1 DEF OpToRel
  <2> QED BY <2>1
<1> QED BY <1>2

LEMMA YearOf ==
  ASSUME NEW day \in Nat
  PROVE  \E y \in day \div 366 .. day \div 365 :
           y \in Nat /\ DaysBeforeYear(y) <= day /\ day < DaysBeforeYear(y + 1)
<1> DEFINE S == {n \in Nat : day < DaysBeforeYear(n + 1)}
<1>1. day \in S
  <2>1. 365 * (day + 1) <= DaysBeforeYear(day + 1) /\ DaysBeforeYear(day + 1) \in Int
    BY YearsLong, YearLength
  <2> QED BY <2>1
<1>2. PICK y \in S : \A m \in S : y <= m
  BY <1>1, LeastNatural
<1>3. y \in Nat /\ y \in Int /\ day < DaysBeforeYear(y + 1)
  BY <1>2
<1> HIDE DEF S
<1>4. DaysBeforeYear(y) <= day
  <2>1. CASE y = 0
    <3>1. DaysBeforeYear(0) <= 366 * 0
      BY YearsLong
    <3>2. DaysBeforeYear(0) \in Int
      BY YearLength
    <3> QED BY <2>1, <3>1, <3>2
  <2>2. CASE y # 0
    <3>1. y - 1 \in Nat /\ (y - 1) + 1 = y /\ ~ (y <= y - 1)
      BY <1>3, <2>2
    <3>2. y - 1 \notin S
      BY <1>2, <3>1
    <3>3. ~ (day < DaysBeforeYear(y))
      BY <3>1, <3>2 DEF S
    <3>4. DaysBeforeYear(y) \in Int
      BY <1>3, YearLength
    <3> QED BY <3>3, <3>4
  <2> QED BY <2>1, <2>2
<1>5. y \in day \div 366 .. day \div 365
  <2>1. 365 * y <= day
    <3>1. 365 * y <= DaysBeforeYear(y) /\ DaysBeforeYear(y) \in Int
      BY <1>3, YearsLong, YearLength
    <3> QED BY <1>3, <1>4, <3>1
  <2>2. day < 366 * (y + 1)
    <3>1. DaysBeforeYear(y + 1) <= 366 * (y + 1) /\ DaysBeforeYear(y + 1) \in Int
      BY <1>3, YearsLong, YearLength
    <3> QED BY <1>3, <3>1
  <2> QED BY <1>3, <2>1, <2>2, Z3
<1> QED BY <1>3, <1>4, <1>5

\* The month of a date, counted through, is the one its day is in.
LEMMA CivilIs ==
  ASSUME NEW day \in Nat
  PROVE  LET date == Civil(day) IN
         /\ date.y \in Nat /\ date.m \in 0 .. 11 /\ MonthOf(date) \in Nat
         /\ FirstDay(MonthOf(date)) <= day /\ day < FirstDay(MonthOf(date) + 1)
         /\ date = [y |-> date.y, m |-> date.m, d |-> day - FirstDay(MonthOf(date)) + 1]
<1> DEFINE year == CHOOSE y \in day \div 366 .. day \div 365 :
                     DaysBeforeYear(y) <= day /\ day < DaysBeforeYear(y + 1)
           rest == day - DaysBeforeYear(year)
           month == CHOOSE m \in 0 .. 11 :
                      /\ DaysBeforeMonth(year, m) <= rest
                      /\ m < 11 => rest < DaysBeforeMonth(year, m + 1)
<1>1. Civil(day) = [y |-> year, m |-> month, d |-> rest - DaysBeforeMonth(year, month) + 1]
  BY Zenon DEF Civil
<1>2. /\ year \in day \div 366 .. day \div 365
      /\ DaysBeforeYear(year) <= day /\ day < DaysBeforeYear(year + 1)
  BY YearOf, ZenonT(40)
<1> HIDE DEF year
<1>3. year \in Nat /\ year \in Int
  <2>1. year \in Nat
    BY <1>2, Z3
  <2> QED BY <2>1
<1>4. DaysBeforeYear(year) \in Int /\ DaysBeforeYear(year + 1) \in Int
  BY <1>3, YearLength
<1>5. rest \in Nat /\ rest < DaysBeforeMonth(year, 11) + 31
  <2>1. DaysBeforeYear(year + 1) = DaysBeforeYear(year) + DaysBeforeMonth(year, 11) + 31
        /\ DaysBeforeMonth(year, 11) \in Int
    BY <1>3, YearEnd, MonthInYear
  <2> QED BY <1>2, <1>4, <2>1
<1> HIDE DEF rest
<1>6. \E m \in 0 .. 11 : /\ DaysBeforeMonth(year, m) <= rest
                         /\ m < 11 => rest < DaysBeforeMonth(year, m + 1)
  <2> DEFINE S == {n \in Nat : n >= 11 \/ rest < DaysBeforeMonth(year, n + 1)}
  <2>1. 11 \in S
    OBVIOUS
  <2>2. PICK m \in S : \A n \in S : m <= n
    BY <2>1, LeastNatural
  <2>3. m \in 0 .. 11 /\ m \in Int
    BY <2>1, <2>2
  <2>4. m < 11 => rest < DaysBeforeMonth(year, m + 1)
    BY <2>2
  <2>5. DaysBeforeMonth(year, m) <= rest
    <3>1. CASE m = 0
      BY <1>3, <1>5, <3>1, YearEnd
    <3>2. CASE m # 0
      <4>1. m - 1 \in Nat /\ (m - 1) + 1 = m /\ ~ (m <= m - 1) /\ ~ (m - 1 >= 11)
        BY <2>3, <3>2
      <4>2. m - 1 \notin S
        BY <2>2, <4>1
      <4>3. ~ (rest < DaysBeforeMonth(year, m))
        BY <4>1, <4>2
      <4>4. DaysBeforeMonth(year, m) \in Int
        BY <1>3, <2>3, MonthInYear
      <4> QED BY <1>5, <4>3, <4>4
    <3> QED BY <3>1, <3>2
  <2> QED BY <2>3, <2>4, <2>5
<1>7. /\ month \in 0 .. 11 /\ DaysBeforeMonth(year, month) <= rest
      /\ month < 11 => rest < DaysBeforeMonth(year, month + 1)
  BY <1>6
<1> HIDE DEF month
<1> DEFINE k == 12 * year + month
<1>8. k \in Nat
  BY <1>3, <1>7
<1>9. FirstDay(k) = DaysBeforeYear(year) + DaysBeforeMonth(year, month)
  BY <1>3, <1>7, FirstDayIs
<1>10. DaysBeforeMonth(year, month) \in Int
  BY <1>3, <1>7, MonthInYear
<1>11. FirstDay(k) <= day /\ rest - DaysBeforeMonth(year, month) + 1 = day - FirstDay(k) + 1
  BY <1>4, <1>7, <1>9, <1>10 DEF rest
<1>12. day < FirstDay(k + 1)
  <2>1. CASE month < 11
    <3>1. k + 1 = 12 * year + (month + 1) /\ month + 1 \in 0 .. 11
      BY <1>3, <1>7, <2>1
    <3>2. FirstDay(k + 1) = DaysBeforeYear(year) + DaysBeforeMonth(year, month + 1)
      BY <1>3, <3>1, FirstDayIs
    <3>3. DaysBeforeMonth(year, month + 1) \in Int
      BY <1>3, <3>1, MonthInYear
    <3> QED BY <1>4, <1>7, <2>1, <3>2, <3>3 DEF rest
  <2>2. CASE month = 11
    <3>1. k + 1 = 12 * (year + 1) + 0 /\ year + 1 \in Int
      BY <1>3, <2>2
    <3>2. FirstDay(k + 1) = DaysBeforeYear(year + 1) + DaysBeforeMonth(year + 1, 0)
      BY <3>1, FirstDayIs
    <3>3. DaysBeforeMonth(year + 1, 0) = 0
      BY <3>1, YearEnd
    <3> QED BY <1>2, <1>4, <3>2, <3>3
  <2> QED BY <1>7, <2>1, <2>2
<1> HIDE DEF k
<1>13. Civil(day) = [y |-> year, m |-> month, d |-> day - FirstDay(k) + 1]
  BY <1>1, <1>11
<1>14. Civil(day).y = year /\ Civil(day).m = month
  BY <1>13
<1>15. MonthOf(Civil(day)) = k
  BY <1>14 DEF MonthOf, k
<1> QED BY <1>3, <1>7, <1>8, <1>11, <1>12, <1>13, <1>14, <1>15

LEMMA SinceMonth ==
  ASSUME NEW day \in Nat, NEW k \in Int
  PROVE  /\ MonthOf(Civil(day)) >= k <=> FirstDay(k) <= day
         /\ MonthOf(Civil(day)) <= k <=> day < FirstDay(k + 1)
<1> DEFINE K == MonthOf(Civil(day))
<1>1. K \in Int /\ FirstDay(K) <= day /\ day < FirstDay(K + 1)
  BY CivilIs
<1> HIDE DEF K
<1>2. ASSUME NEW j \in Int PROVE K >= j <=> FirstDay(j) <= day
  <2>1. FirstDay(j) \in Int /\ FirstDay(K) \in Int /\ FirstDay(K + 1) \in Int
        /\ FirstDay(j + 1) \in FirstDay(j) + 28 .. FirstDay(j) + 31
    BY <1>1, MonthLength
  <2>2. CASE K < j
    <3>1. FirstDay(K + 1) <= FirstDay(j)
      BY <1>1, <2>2, MonthsGrow
    <3> QED BY <1>1, <2>1, <2>2, <3>1
  <2>3. CASE K = j
    BY <1>1, <2>3
  <2>4. CASE j < K
    <3>1. FirstDay(j + 1) <= FirstDay(K)
      BY <1>1, <2>4, MonthsGrow
    <3> QED BY <1>1, <2>1, <2>4, <3>1
  <2> QED BY <1>1, <2>2, <2>3, <2>4
<1>3. K >= k + 1 <=> FirstDay(k + 1) <= day
  BY <1>2
<1>4. FirstDay(k + 1) \in Int
  BY MonthLength
<1>5. K <= k <=> day < FirstDay(k + 1)
  BY <1>1, <1>3, <1>4
<1> QED BY <1>2, <1>5 DEF K

LEMMA SameDate ==
  ASSUME NEW c \in Nat, NEW d \in Nat
  PROVE  Civil(c) = Civil(d) <=> c = d
<1> SUFFICES ASSUME Civil(c) = Civil(d) PROVE c = d
  OBVIOUS
<1>1. /\ Civil(c).d = c - FirstDay(MonthOf(Civil(c))) + 1
      /\ Civil(d).d = d - FirstDay(MonthOf(Civil(d))) + 1
      /\ MonthOf(Civil(c)) \in Int
  <2>1. /\ Civil(c) = [y |-> Civil(c).y, m |-> Civil(c).m, d |-> c - FirstDay(MonthOf(Civil(c))) + 1]
        /\ Civil(d) = [y |-> Civil(d).y, m |-> Civil(d).m, d |-> d - FirstDay(MonthOf(Civil(d))) + 1]
        /\ MonthOf(Civil(c)) \in Int
    BY CivilIs
  <2> QED BY <2>1
<1> DEFINE f == FirstDay(MonthOf(Civil(c)))
<1>2. f \in Int
  BY <1>1, MonthLength
<1>3. c - f + 1 = d - f + 1
  BY <1>1
<1> HIDE DEF f
<1> QED BY <1>2, <1>3

\* A day of a month that has begun, or of one that has not, is counted from it.
LEMMA DayNumberIs ==
  ASSUME NEW y \in Int, NEW m \in Int, NEW d \in Int
  PROVE  DayNumber(y, m, d) = FirstDay(12 * y + m) + d - 1
<1> DEFINE k == 12 * y + m
           year == y + m \div 12
           n == m % 12
<1>1. year \in Int /\ n \in 0 .. 11 /\ k = 12 * year + n
  BY Z3
<1>2. DayNumber(y, m, d) = DaysBeforeYear(year) + DaysBeforeMonth(year, n) + d - 1
  BY DEF DayNumber
<1> HIDE DEF year, n
<1>3. FirstDay(k) = DaysBeforeYear(year) + DaysBeforeMonth(year, n)
  BY <1>1, FirstDayIs
<1> QED BY <1>2, <1>3

-----------------------------------------------------------------------------
(***************************************************************************)
(* Ranges.                                                                 *)
(***************************************************************************)

\* Containers run in UTC.
LEMMA DayRangeIs ==
  ASSUME Zone = 0, NEW t \in Int, NEW a \in Int, NEW b \in Int
  PROVE  /\ KstDay(t) \in Int
         /\ t \in DayRange(a, b).from .. DayRange(a, b).to <=> a <= KstDay(t) /\ KstDay(t) <= b
<1>1. DayRange(a, b).from = 24 * a - 9 /\ DayRange(a, b).to = 24 * b + 14
  BY DEF DayRange, FromKstToUtc, StartOfDay, EndOfDay
<1>2. /\ (t + 9) \div 24 \in Int
      /\ 24 * a - 9 <= t <=> a <= (t + 9) \div 24
      /\ t <= 24 * b + 14 <=> (t + 9) \div 24 <= b
  BY Z3
<1> QED BY <1>1, <1>2 DEF KstDay

LEMMA MonthEnds ==
  ASSUME NEW y \in Int, NEW m \in Int
  PROVE  /\ FullYear(y) \in Int
         /\ StartOfMonth(y, m) = FirstDay(12 * FullYear(y) + m)
         /\ EndOfMonth(y, m) = FirstDay(12 * FullYear(y) + m + 1) - 1
<1> DEFINE Y == FullYear(y)
<1>1. Y \in Int
  BY DEF FullYear
<1>2. StartOfMonth(y, m) = DayNumber(Y, m, 1) /\ EndOfMonth(y, m) = DayNumber(Y, m + 1, 0)
  BY DEF StartOfMonth, EndOfMonth, NewDate, FullYear
<1> HIDE DEF Y
<1>3. FirstDay(12 * Y + m) \in Int /\ FirstDay(12 * Y + (m + 1)) \in Int
  BY <1>1, MonthLength
<1>4. DayNumber(Y, m, 1) = FirstDay(12 * Y + m) + 1 - 1
  BY <1>1, DayNumberIs
<1>5. DayNumber(Y, m + 1, 0) = FirstDay(12 * Y + (m + 1)) + 0 - 1
  <2>1. m + 1 \in Int
    OBVIOUS
  <2> QED BY <1>1, <2>1, DayNumberIs
<1>6. 12 * Y + (m + 1) = 12 * Y + m + 1
  BY <1>1
<1> QED BY <1>1, <1>2, <1>3, <1>4, <1>5, <1>6 DEF Y

LEMMA MonthRangeIs ==
  ASSUME Zone = 0, NEW t \in Nat, NEW a \in Int, NEW b \in Int, NEW i \in Int, NEW j \in Int
  PROVE  LET r == DayRange(StartOfMonth(a, i), EndOfMonth(b, j)) IN
         /\ KstDay(t) \in Nat /\ MonthOf(KstDate(t)) \in Int
         /\ t \in r.from .. r.to <=> /\ 12 * FullYear(a) + i <= MonthOf(KstDate(t))
                                     /\ MonthOf(KstDate(t)) <= 12 * FullYear(b) + j
<1> DEFINE K == MonthOf(KstDate(t))
           from == 12 * FullYear(a) + i
           to == 12 * FullYear(b) + j
<1>1. KstDay(t) \in Nat
  BY Z3 DEF KstDay
<1>2. K \in Int
  BY <1>1, CivilIs DEF KstDate
<1>3. from \in Int /\ to \in Int
  BY MonthEnds
<1>4. StartOfMonth(a, i) = FirstDay(from) /\ EndOfMonth(b, j) = FirstDay(to + 1) - 1
  BY MonthEnds
<1>5. /\ K >= from <=> FirstDay(from) <= KstDay(t)
      /\ K <= to <=> KstDay(t) < FirstDay(to + 1)
  BY <1>1, <1>3, SinceMonth DEF KstDate
<1> HIDE DEF K, from, to
<1>6. FirstDay(from) \in Int /\ FirstDay(to + 1) \in Int
  BY <1>3, MonthLength
<1> DEFINE x == FirstDay(from)
           y == FirstDay(to + 1) - 1
<1>7. x \in Int /\ y \in Int
  BY <1>6
<1>8. t \in DayRange(x, y).from .. DayRange(x, y).to <=> x <= KstDay(t) /\ KstDay(t) <= y
  <2> HIDE DEF x, y
  <2> QED BY <1>7, DayRangeIs
<1>9. x <= KstDay(t) /\ KstDay(t) <= y <=> from <= K /\ K <= to
  BY <1>1, <1>2, <1>3, <1>5, <1>6
<1> QED BY <1>1, <1>2, <1>4, <1>8, <1>9 DEF K, from, to

\* t is in the range, if there is one.
Lets(ranges, t) == \A r \in ranges : t \in r.from .. r.to

\* An instant since 1970, and the day it is in Korea.
Present(base) == base \in Int /\ base >= 24 * DayNumber(1970, 0, 1)

LEMMA PresentIs ==
  ASSUME NEW base, Present(base)
  PROVE  /\ base \in Nat /\ KstDay(base) \in Nat
         /\ KstDate(base).y \in Nat /\ KstDate(base).y >= 1970 /\ KstDate(base).m \in 0 .. 11
         /\ FullYear(KstDate(base).y) = KstDate(base).y
         /\ FullYear(KstDate(base).y - 1) = KstDate(base).y - 1
<1>1. DayNumber(1970, 0, 1) = FirstDay(12 * 1970 + 0) + 1 - 1
  BY DayNumberIs
<1>2. FirstDay(12 * 1970 + 0) = DaysBeforeYear(1970) + DaysBeforeMonth(1970, 0)
  BY FirstDayIs
<1>3. DaysBeforeMonth(1970, 0) = 0 /\ DaysBeforeYear(1970) \in Int /\ DaysBeforeYear(1970) >= 365 * 1970
  BY YearEnd, YearLength, YearsLong
<1> DEFINE d0 == DaysBeforeYear(1970)
<1>4. DayNumber(1970, 0, 1) = d0 /\ FirstDay(12 * 1970 + 0) = d0 /\ d0 \in Nat
  BY <1>1, <1>2, <1>3
<1> HIDE DEF d0
<1>5. base \in Int /\ base >= 24 * d0
  BY <1>4 DEF Present
<1>6. base \in Nat /\ KstDay(base) \in Nat /\ d0 <= KstDay(base)
  BY <1>4, <1>5, Z3 DEF KstDay
<1>7. MonthOf(KstDate(base)) >= 12 * 1970 + 0
  BY <1>4, <1>6, SinceMonth DEF KstDate
<1>8. KstDate(base).y \in Nat /\ KstDate(base).m \in 0 .. 11
  BY <1>6, CivilIs DEF KstDate
<1>9. KstDate(base).y >= 1970
  BY <1>7, <1>8 DEF MonthOf
<1> QED BY <1>6, <1>8, <1>9 DEF FullYear

LEMMA DaysLet ==
  ASSUME Zone = 0, NEW t \in Nat, NEW a \in Int, NEW b \in Int
  PROVE  Lets({DayRange(a, b)}, t) <=> a <= KstDay(t) /\ KstDay(t) <= b
  BY DayRangeIs DEF Lets

LEMMA MonthsLet ==
  ASSUME Zone = 0, NEW t \in Nat, NEW a \in Int, NEW b \in Int, NEW i \in Int, NEW j \in Int
  PROVE  Lets({DayRange(StartOfMonth(a, i), EndOfMonth(b, j))}, t)
           <=> /\ 12 * FullYear(a) + i <= MonthOf(KstDate(t))
               /\ MonthOf(KstDate(t)) <= 12 * FullYear(b) + j
<1> DEFINE r == DayRange(StartOfMonth(a, i), EndOfMonth(b, j))
<1>1. Lets({r}, t) <=> t \in r.from .. r.to
  BY DEF Lets
<1> QED BY <1>1, MonthRangeIs

LEMMA DateIs ==
  ASSUME NEW t \in Nat
  PROVE  /\ KstDay(t) \in Nat /\ KstDay(t + 24) = KstDay(t) + 1
         /\ KstDate(t).y \in Nat /\ KstDate(t).m \in 0 .. 11
         /\ MonthOf(KstDate(t)) = 12 * KstDate(t).y + KstDate(t).m
<1>1. KstDay(t) \in Nat /\ KstDay(t + 24) = KstDay(t) + 1
  BY Z3 DEF KstDay
<1> QED BY <1>1, CivilIs DEF KstDate, MonthOf

\* The presets: days and months of the Korean calendar up to now.
LEMMA PresetLets ==
  ASSUME Zone = 0, NEW base, Present(base), NEW t \in Nat, NEW preset
  PROVE  Lets(NamedRange(preset, KstDay(base)), t) <=> PresetMatches(preset, base, t)
<1> DEFINE today == KstDay(base)
           day == KstDay(t)
           now == KstDate(base)
           date == KstDate(t)
<1>1. /\ today \in Nat /\ day \in Nat /\ now.y \in Nat /\ now.m \in 0 .. 11
      /\ FullYear(now.y) = now.y /\ FullYear(now.y - 1) = now.y - 1
      /\ MonthOf(date) \in Int /\ MonthOf(now) = 12 * now.y + now.m
      /\ date = Civil(day) /\ now = Civil(today) /\ KstDate(t + 24) = Civil(day + 1)
  <2>1. /\ base \in Nat /\ today \in Nat /\ now.y \in Nat /\ now.m \in 0 .. 11
        /\ FullYear(now.y) = now.y /\ FullYear(now.y - 1) = now.y - 1
    BY PresentIs
  <2>2. day \in Nat /\ KstDay(t + 24) = day + 1 /\ MonthOf(date) = 12 * date.y + date.m
        /\ date.y \in Nat /\ date.m \in 0 .. 11
    BY DateIs
  <2>3. MonthOf(now) = 12 * now.y + now.m
    BY <2>1, DateIs
  <2>4. date = Civil(day) /\ now = Civil(today) /\ KstDate(t + 24) = Civil(day + 1)
    BY <2>2 DEF KstDate
  <2>5. MonthOf(date) \in Int
    BY <2>2
  <2> QED BY ONLY <2>1, <2>2, <2>3, <2>4, <2>5
<1> HIDE DEF today, day, now, date
<1>2. ASSUME NEW a \in Int, NEW b \in Int
      PROVE  Lets({DayRange(a, b)}, t) <=> day \in a .. b
  <2>1. Lets({DayRange(a, b)}, t) <=> a <= day /\ day <= b
    BY DaysLet DEF day
  <2> QED BY <1>1, <2>1
<1>3. ASSUME NEW n \in Nat
      PROVE  Lets({DaysBack(n, today)}, t) <=> LastDays(n, day, today)
  <2>1. today - (n - 1) \in Int /\ today \in Int /\ today - (n - 1) = today - n + 1
    BY <1>1
  <2>2. Lets({DayRange(today - (n - 1), today)}, t) <=> day \in today - (n - 1) .. today
    BY <1>2, <2>1
  <2> QED BY <2>1, <2>2 DEF DaysBack, LastDays
<1>4. CASE preset = "today"
  <2>1. NamedRange(preset, today) = {DayRange(today, today)}
    BY <1>4 DEF NamedRange
  <2>2. PresetMatches(preset, base, t) <=> date = now
    BY <1>4 DEF PresetMatches, date, now
  <2>3. Lets({DayRange(today, today)}, t) <=> day = today
    <3>1. today \in Int /\ (day \in today .. today <=> day = today)
      BY <1>1
    <3> QED BY <1>2, <3>1
  <2>4. date = now <=> day = today
    BY <1>1, SameDate
  <2> QED BY <2>1, <2>2, <2>3, <2>4 DEF today
<1>5. CASE preset = "yesterday"
  <2>1. NamedRange(preset, today) = {DayRange(today - 1, today - 1)}
    BY <1>5 DEF NamedRange
  <2>2. PresetMatches(preset, base, t) <=> KstDate(t + 24) = now
    BY <1>5 DEF PresetMatches, now
  <2>3. Lets({DayRange(today - 1, today - 1)}, t) <=> day + 1 = today
    <3>1. today - 1 \in Int /\ (day \in today - 1 .. today - 1 <=> day + 1 = today)
      BY <1>1
    <3> QED BY <1>2, <3>1
  <2>4. KstDate(t + 24) = now <=> day + 1 = today
    <3>1. day + 1 \in Nat
      BY <1>1
    <3> QED BY <1>1, <3>1, SameDate
  <2> QED BY <2>1, <2>2, <2>3, <2>4 DEF today
<1>6. CASE preset = "last_7_days"
  <2>1. NamedRange(preset, today) = {DaysBack(7, today)}
    BY <1>6 DEF NamedRange
  <2>2. PresetMatches(preset, base, t) <=> LastDays(7, day, today)
    BY <1>6 DEF PresetMatches, day, today
  <2> QED BY <1>3, <2>1, <2>2 DEF today
<1>7. CASE preset = "last_14_days"
  <2>1. NamedRange(preset, today) = {DaysBack(14, today)}
    BY <1>7 DEF NamedRange
  <2>2. PresetMatches(preset, base, t) <=> LastDays(14, day, today)
    BY <1>7 DEF PresetMatches, day, today
  <2> QED BY <1>3, <2>1, <2>2 DEF today
<1>8. CASE preset = "last_30_days"
  <2>1. NamedRange(preset, today) = {DaysBack(30, today)}
    BY <1>8 DEF NamedRange
  <2>2. PresetMatches(preset, base, t) <=> LastDays(30, day, today)
    BY <1>8 DEF PresetMatches, day, today
  <2> QED BY <1>3, <2>1, <2>2 DEF today
<1>9. ASSUME NEW y \in Int, NEW m \in 0 .. 11, FullYear(y) = y
      PROVE  Lets({MonthRange(y, m)}, t) <=> MonthOf(date) = 12 * y + m
  <2>1. Lets({MonthRange(y, m)}, t)
          <=> 12 * FullYear(y) + m <= MonthOf(date) /\ MonthOf(date) <= 12 * FullYear(y) + m
    BY MonthsLet DEF MonthRange, date
  <2> QED BY <1>1, <1>9, <2>1
<1>10. CASE preset = "this_month"
  <2>1. NamedRange(preset, today) = {MonthRange(now.y, now.m)}
    BY <1>1, <1>10 DEF NamedRange
  <2>2. PresetMatches(preset, base, t) <=> MonthOf(date) = MonthOf(now)
    BY <1>10 DEF PresetMatches, date, now
  <2>3. now.y \in Int
    BY <1>1
  <2> QED BY <1>1, <1>9, <2>1, <2>2, <2>3 DEF today
<1>11. CASE preset = "last_month"
  <2>1. NamedRange(preset, today)
          = {IF now.m = 0 THEN MonthRange(now.y - 1, 11) ELSE MonthRange(now.y, now.m - 1)}
    BY <1>1, <1>11 DEF NamedRange
  <2>2. PresetMatches(preset, base, t) <=> MonthOf(date) = MonthOf(now) - 1
    BY <1>11 DEF PresetMatches, date, now
  <2>3. CASE now.m = 0
    <3>1. now.y - 1 \in Int /\ 12 * (now.y - 1) + 11 = MonthOf(now) - 1
      BY <1>1, <2>3
    <3> DEFINE y == now.y - 1
    <3>2. y \in Int /\ 11 \in 0 .. 11 /\ FullYear(y) = y
      BY <1>1, <3>1
    <3> HIDE DEF y
    <3>3. Lets({MonthRange(y, 11)}, t) <=> MonthOf(date) = 12 * y + 11
      BY ONLY <1>9, <3>2
    <3>4. Lets({MonthRange(now.y - 1, 11)}, t) <=> MonthOf(date) = 12 * (now.y - 1) + 11
      BY <3>3 DEF y
    <3> QED BY <2>1, <2>2, <2>3, <3>1, <3>4 DEF today
  <2>4. CASE now.m # 0
    <3>1. now.y \in Int /\ now.m - 1 \in 0 .. 11 /\ 12 * now.y + (now.m - 1) = MonthOf(now) - 1
      BY <1>1, <2>4
    <3>2. Lets({MonthRange(now.y, now.m - 1)}, t) <=> MonthOf(date) = 12 * now.y + (now.m - 1)
      BY <1>1, <1>9, <3>1
    <3> QED BY <2>1, <2>2, <2>4, <3>1, <3>2 DEF today
  <2> QED BY <2>3, <2>4
<1>12. CASE preset \notin {"today", "yesterday", "last_7_days", "last_14_days", "last_30_days",
                           "this_month", "last_month"}
  <2>1. NamedRange(preset, today) = {}
    BY <1>12 DEF NamedRange
  <2>2. PresetMatches(preset, base, t)
    BY <1>12 DEF PresetMatches
  <2> QED BY <2>1, <2>2 DEF Lets, today
<1> QED BY <1>4, <1>5, <1>6, <1>7, <1>8, <1>10, <1>11, <1>12

\* The last day of a month has the number of the days the month has.
LEMMA LastOfMonth ==
  ASSUME NEW k \in Int, k \div 12 >= 100
  PROVE  Civil(EndOfMonth(k \div 12, k % 12)).d = FirstDay(k + 1) - FirstDay(k)
<1> DEFINE y == k \div 12
           m == k % 12
           e == EndOfMonth(y, m)
<1>1. y \in Int /\ y >= 100 /\ m \in Int /\ m \in 0 .. 11 /\ k = 12 * y + m
  <2>1. k \div 12 \in Int /\ k % 12 \in 0 .. 11 /\ k = 12 * (k \div 12) + (k % 12)
    BY Z3
  <2> QED BY <2>1
<1>2. FullYear(y) = y
  BY <1>1 DEF FullYear
<1>3. e = FirstDay(k + 1) - 1
  <2> HIDE DEF y, m
  <2>1. EndOfMonth(y, m) = FirstDay(12 * FullYear(y) + m + 1) - 1
    BY <1>1, MonthEnds
  <2>2. 12 * FullYear(y) + m + 1 = k + 1
    BY <1>1, <1>2
  <2> QED BY <2>1, <2>2
<1>4. /\ FirstDay(k) \in Int /\ FirstDay(k + 1) \in Int
      /\ FirstDay(k) + 28 <= FirstDay(k + 1)
  <2>1. FirstDay(k) \in Int /\ FirstDay(k + 1) \in FirstDay(k) + 28 .. FirstDay(k) + 31
    BY MonthLength
  <2> QED BY <2>1
<1>5. FirstDay(k) >= 0
  <2> HIDE DEF y, m
  <2>1. FirstDay(12 * y + m) = DaysBeforeYear(y) + DaysBeforeMonth(y, m)
    BY <1>1, FirstDayIs
  <2>2. DaysBeforeMonth(y, m) >= 0 /\ DaysBeforeMonth(y, m) \in Int
    <3>1. DaysBeforeMonth(y, m) \in 0 .. 335
      BY <1>1, MonthInYear
    <3> QED BY <3>1
  <2>3. y \in Nat
    BY <1>1
  <2>4. DaysBeforeYear(y) >= 365 * y /\ DaysBeforeYear(y) \in Int
    BY <1>1, <2>3, YearLength, YearsLong
  <2> QED BY <1>1, <2>1, <2>2, <2>3, <2>4
<1>6. e \in Nat
  BY <1>3, <1>4, <1>5
<1> HIDE DEF y, m, e
<1>7. MonthOf(Civil(e)) >= k /\ MonthOf(Civil(e)) <= k
  <2>1. FirstDay(k) <= e /\ e < FirstDay(k + 1)
    BY <1>3, <1>4
  <2> QED BY <1>6, <2>1, SinceMonth
<1>8. MonthOf(Civil(e)) = k
  <2>1. MonthOf(Civil(e)) \in Nat
    BY <1>6, CivilIs
  <2> QED BY <1>7, <2>1
<1>9. Civil(e).d = e - FirstDay(k) + 1
  BY <1>6, <1>8, CivilIs
<1> QED BY <1>3, <1>4, <1>9 DEF y, m, e

\* The day so many months before a date: that of the month, unless it spills over.
LEMMA SinceLets ==
  ASSUME NEW day \in Nat, NEW today \in Nat, NEW n \in Nat,
         NEW k \in Int, k = MonthOf(Civil(today)) - n, k \div 12 >= 100,
         NEW first, first = FirstDay(k) + Civil(today).d - 1
  PROVE  /\ first \in Int
         /\ first <= day => SinceMonthsAgo(n, Civil(day), Civil(today))
         /\ SinceMonthsAgo(n, Civil(day), Civil(today))
              => first <= day \/ Civil(EndOfMonth(k \div 12, k % 12)).d + 1 < Civil(today).d
<1> DEFINE M == MonthOf(Civil(day))
           K == MonthOf(Civil(today))
           D == Civil(today).d
           d == Civil(day).d
           L == FirstDay(k + 1) - FirstDay(k)
<1>1. M \in Int /\ d = day - FirstDay(M) + 1
  BY CivilIs
<1>2. D \in Int /\ D >= 1
  <2>1. K \in Int /\ FirstDay(K) <= today /\ D = today - FirstDay(K) + 1
    BY CivilIs
  <2>2. FirstDay(K) \in Int
    BY <2>1, MonthLength
  <2> HIDE DEF K, D
  <2> QED BY <2>1, <2>2
<1>3. SinceMonthsAgo(n, Civil(day), Civil(today)) <=> M > k \/ (M = k /\ d >= D)
  BY DEF SinceMonthsAgo
<1>4. Civil(EndOfMonth(k \div 12, k % 12)).d = L
  BY LastOfMonth
<1>5. /\ M >= k <=> FirstDay(k) <= day
      /\ M >= k + 1 <=> FirstDay(k + 1) <= day
  <2>1. k + 1 \in Int
    OBVIOUS
  <2> QED BY <2>1, SinceMonth
<1>6. FirstDay(k) \in Int /\ FirstDay(k + 1) \in Int
  BY MonthLength
<1>7. first \in Int /\ first = FirstDay(k) + D - 1
  BY <1>2, <1>6
<1>8. L \in Int /\ FirstDay(k + 1) = FirstDay(k) + L
  BY <1>6
<1>9. M = k => d = day - FirstDay(k) + 1
  BY <1>1
<1> HIDE DEF M, K, D, d, L
<1>10. ASSUME first <= day PROVE M > k \/ (M = k /\ d >= D)
  <2>1. FirstDay(k) <= day
    BY <1>2, <1>6, <1>7, <1>10
  <2>2. M >= k
    BY <1>5, <2>1
  <2>3. CASE M = k
    BY <1>2, <1>6, <1>7, <1>9, <1>10, <2>3
  <2> QED BY <1>1, <2>2, <2>3
<1>11. ASSUME M > k \/ (M = k /\ d >= D) PROVE first <= day \/ L + 1 < D
  <2>1. CASE M > k
    <3>1. FirstDay(k) + L <= day
      BY <1>1, <1>5, <1>8, <2>1
    <3> QED BY <1>2, <1>6, <1>7, <1>8, <3>1
  <2>2. CASE M = k /\ d >= D
    BY <1>2, <1>6, <1>7, <1>9, <2>2
  <2> QED BY <1>11, <2>1, <2>2
<1> QED BY <1>3, <1>4, <1>7, <1>10, <1>11 DEF D

\* So many days, weeks, months or years up to now.
LEMMA RelativeLets ==
  ASSUME Zone = 0, NEW base, Present(base), NEW t \in Nat, NEW f,
         f.type = "relative", f.unit \in {"day", "week", "month", "year"}, f.value \in 1 .. 365
  PROVE  LET lets == Lets({RelativeRange(f.unit, f.value, KstDay(base))}, t) IN
         /\ lets => RelativeMatches(f, base, t)
         /\ RelativeMatches(f, base, t) => lets \/ SpillsOver(f, base)
<1> DEFINE today == KstDay(base)
           day == KstDay(t)
           now == KstDate(base)
           v == f.value
           lets == Lets({RelativeRange(f.unit, f.value, KstDay(base))}, t)
<1>1. today \in Nat /\ day \in Nat /\ v \in Nat /\ v \in 1 .. 365
  <2>1. today \in Nat
    BY PresentIs
  <2>2. day \in Nat
    BY DateIs
  <2>3. v \in Nat /\ v \in 1 .. 365
    OBVIOUS
  <2> QED BY ONLY <2>1, <2>2, <2>3
<1>2. /\ base \in Nat /\ now.y \in Nat /\ now.y >= 1970 /\ now.m \in 0 .. 11
      /\ MonthOf(now) = 12 * now.y + now.m
  <2>1. base \in Nat /\ now.y \in Nat /\ now.y >= 1970 /\ now.m \in 0 .. 11
    BY PresentIs
  <2> QED BY <2>1, DateIs
<1>3. now = Civil(today) /\ KstDate(t) = Civil(day)
  BY DEF KstDate
<1>4. now.d \in Int
  <2>1. /\ MonthOf(Civil(today)) \in Int
        /\ Civil(today).d = today - FirstDay(MonthOf(Civil(today))) + 1
    BY <1>1, CivilIs
  <2>2. FirstDay(MonthOf(Civil(today))) \in Int
    BY <2>1, MonthLength
  <2> QED BY <1>1, <1>3, <2>1, <2>2
<1> HIDE DEF today, day, now, v
<1>5. ASSUME NEW a \in Int PROVE Lets({DayRange(a, today)}, t) <=> a <= day /\ day <= today
  BY <1>1, <1>5, DaysLet DEF day
<1>6. ASSUME NEW n \in Nat, f.unit \in {"day", "week"},
             RelativeRange(f.unit, f.value, today) = DayRange(today - n + 1, today),
             RelativeMatches(f, base, t) <=> day <= today /\ LastDays(n, day, today)
      PROVE  lets <=> RelativeMatches(f, base, t)
  <2>1. today - n + 1 \in Int /\ (LastDays(n, day, today) <=> today - n + 1 <= day /\ day <= today)
    BY <1>1 DEF LastDays
  <2>2. Lets({DayRange(today - n + 1, today)}, t) <=> today - n + 1 <= day /\ day <= today
    BY <1>5, <2>1
  <2>3. lets <=> Lets({DayRange(today - n + 1, today)}, t)
    BY <1>6 DEF today
  <2> QED BY <1>6, <2>1, <2>2, <2>3
<1>7. ASSUME NEW n \in Nat, NEW k \in Int, k = MonthOf(now) - n, k \div 12 >= 100, NEW first,
             first = FirstDay(k) + now.d - 1,
             RelativeRange(f.unit, f.value, today) = DayRange(first, today),
             RelativeMatches(f, base, t)
               <=> day <= today /\ SinceMonthsAgo(n, KstDate(t), now),
             SpillsOver(f, base) <=> Civil(EndOfMonth(k \div 12, k % 12)).d + 1 < now.d
      PROVE  /\ lets => RelativeMatches(f, base, t)
             /\ RelativeMatches(f, base, t) => lets \/ SpillsOver(f, base)
  <2>1. /\ first \in Int
        /\ first <= day => SinceMonthsAgo(n, Civil(day), Civil(today))
        /\ SinceMonthsAgo(n, Civil(day), Civil(today))
             => first <= day \/ Civil(EndOfMonth(k \div 12, k % 12)).d + 1 < Civil(today).d
    <3>1. k = MonthOf(Civil(today)) - n /\ first = FirstDay(k) + Civil(today).d - 1
      BY <1>3, <1>7
    <3> QED BY <1>1, <1>7, <3>1, SinceLets
  <2>2. Lets({DayRange(first, today)}, t) <=> first <= day /\ day <= today
    BY <1>5, <2>1
  <2>3. lets <=> Lets({DayRange(first, today)}, t)
    BY <1>7 DEF today
  <2> QED BY <1>3, <1>7, <2>1, <2>2, <2>3
<1>8. CASE f.unit = "day"
  <2>1. RelativeRange(f.unit, f.value, today) = DayRange(today - v + 1, today)
    BY <1>8 DEF RelativeRange, v
  <2>2. RelativeMatches(f, base, t) <=> day <= today /\ LastDays(v, day, today)
    BY <1>8 DEF RelativeMatches, v, day, today
  <2> QED BY <1>1, <1>6, <1>8, <2>1, <2>2
<1>9. CASE f.unit = "week"
  <2>1. RelativeRange(f.unit, f.value, today) = DayRange(today - 7 * v + 1, today)
    BY <1>9 DEF RelativeRange, v
  <2>2. RelativeMatches(f, base, t) <=> day <= today /\ LastDays(7 * v, day, today)
    BY <1>9 DEF RelativeMatches, v, day, today
  <2>3. 7 * v \in Nat
    BY <1>1
  <2> QED BY <1>6, <1>9, <2>1, <2>2, <2>3
<1>10. CASE f.unit = "month"
  <2> DEFINE k == MonthOf(now) - v
             first == DayNumber(now.y, now.m - v, now.d)
  <2>1. k \in Int /\ k \div 12 >= 100 /\ now.m - v \in Int /\ now.y \in Int
        /\ 12 * now.y + (now.m - v) = k
    <3>1. k \in Int /\ now.m - v \in Int /\ now.y \in Int /\ 12 * now.y + (now.m - v) = k /\ k >= 1200
      BY <1>1, <1>2
    <3> HIDE DEF k
    <3>2. k \div 12 >= 100
      BY ONLY <3>1, Z3
    <3> QED BY <3>1, <3>2
  <2>2. first = FirstDay(k) + now.d - 1
    <3>1. first = FirstDay(12 * now.y + (now.m - v)) + now.d - 1
      BY <1>4, <2>1, DayNumberIs
    <3> QED BY <2>1, <3>1
  <2>3. RelativeRange(f.unit, f.value, today) = DayRange(first, today)
    BY <1>3, <1>10 DEF RelativeRange, v
  <2>4. RelativeMatches(f, base, t) <=> day <= today /\ SinceMonthsAgo(v, KstDate(t), now)
    BY <1>10 DEF RelativeMatches, v, day, today, now
  <2>5. SpillsOver(f, base) <=> Civil(EndOfMonth(k \div 12, k % 12)).d + 1 < now.d
    <3>1. f.value * 1 = v
      BY <1>1 DEF v
    <3> QED BY <1>10, <3>1 DEF SpillsOver, now
  <2> HIDE DEF first
  <2> QED BY <1>1, <1>7, <2>1, <2>2, <2>3, <2>4, <2>5
<1>11. CASE f.unit = "year"
  <2> DEFINE n == 12 * v
             k == MonthOf(now) - n
             first == DayNumber(now.y - v, now.m, now.d)
  <2>1. n \in Nat /\ k \in Int /\ k \div 12 >= 100 /\ now.m \in Int /\ now.y - v \in Int
        /\ 12 * (now.y - v) + now.m = k
    <3>1. n \in Nat /\ k \in Int /\ now.m \in Int /\ now.y - v \in Int
          /\ 12 * (now.y - v) + now.m = k /\ k >= 1200
      BY <1>1, <1>2
    <3> HIDE DEF k
    <3>2. k \div 12 >= 100
      BY ONLY <3>1, Z3
    <3> QED BY <3>1, <3>2
  <2>2. first = FirstDay(k) + now.d - 1
    <3>1. first = FirstDay(12 * (now.y - v) + now.m) + now.d - 1
      BY <1>4, <2>1, DayNumberIs, ZenonT(40)
    <3> QED BY <2>1, <3>1
  <2>3. RelativeRange(f.unit, f.value, today) = DayRange(first, today)
    BY <1>3, <1>11 DEF RelativeRange, v
  <2>4. RelativeMatches(f, base, t) <=> day <= today /\ SinceMonthsAgo(n, KstDate(t), now)
    BY <1>11 DEF RelativeMatches, v, day, today, now
  <2>5. SpillsOver(f, base) <=> Civil(EndOfMonth(k \div 12, k % 12)).d + 1 < now.d
    <3>1. f.value * 12 = n
      BY <1>1 DEF v
    <3> QED BY <1>11, <3>1 DEF SpillsOver, now
  <2> HIDE DEF first, n
  <2> QED BY <1>7, <2>1, <2>2, <2>3, <2>4, <2>5
<1> QED BY <1>8, <1>9, <1>10, <1>11

\* Whole months, quarters and years: first and last month of them.
LEMMA WholeLets ==
  ASSUME Zone = 0, NEW t \in Nat, NEW a \in Int, NEW b \in Int
  PROVE  LET date == KstDate(t) IN
         /\ Lets({YearsRange(a, b)}, t) <=> date.y \in FullYear(a) .. FullYear(b)
         /\ \A m \in 1 .. 12 :
              Lets({MonthRange(a, m - 1)}, t) <=> date.y = FullYear(a) /\ date.m + 1 = m
         /\ \A q \in 1 .. 4 :
              Lets({QuarterRange(a, q)}, t) <=> date.y = FullYear(a) /\ QuarterOf(date) = q
<1> DEFINE y == KstDate(t).y
           n == KstDate(t).m
           M == MonthOf(KstDate(t))
           A == FullYear(a)
           B == FullYear(b)
<1>1. y \in Nat /\ n \in 0 .. 11 /\ M = 12 * y + n
  BY DateIs
<1>2. A \in Int /\ B \in Int
  BY MonthEnds
<1>3. ASSUME NEW c \in Int, NEW i \in Int, NEW j \in Int
      PROVE  Lets({DayRange(StartOfMonth(a, i), EndOfMonth(c, j))}, t)
               <=> 12 * A + i <= M /\ M <= 12 * FullYear(c) + j
  BY <1>3, MonthsLet
<1>4. QuarterOf(KstDate(t)) = n \div 3 + 1
  BY DEF QuarterOf
<1> HIDE DEF y, n, M, A, B
<1>5. Lets({YearsRange(a, b)}, t) <=> y \in A .. B
  <2>1. Lets({YearsRange(a, b)}, t) <=> 12 * A + 0 <= M /\ M <= 12 * B + 11
    BY <1>3 DEF YearsRange, B
  <2> QED BY <1>1, <1>2, <2>1
<1>6. ASSUME NEW m \in 1 .. 12
      PROVE  Lets({MonthRange(a, m - 1)}, t) <=> y = A /\ n + 1 = m
  <2>1. m - 1 \in Int
    OBVIOUS
  <2>2. Lets({MonthRange(a, m - 1)}, t) <=> 12 * A + (m - 1) <= M /\ M <= 12 * A + (m - 1)
    BY <1>3, <2>1 DEF MonthRange, A
  <2> QED BY <1>1, <1>2, <2>2
<1>7. ASSUME NEW q \in 1 .. 4
      PROVE  Lets({QuarterRange(a, q)}, t) <=> y = A /\ n \div 3 + 1 = q
  <2>1. 3 * (q - 1) \in Int /\ 3 * q - 1 \in Int
    OBVIOUS
  <2>2. Lets({QuarterRange(a, q)}, t) <=> 12 * A + 3 * (q - 1) <= M /\ M <= 12 * A + (3 * q - 1)
    BY <1>3, <2>1 DEF QuarterRange, A
  <2>3. n \div 3 + 1 = q <=> 3 * (q - 1) <= n /\ n <= 3 * q - 1
    BY <1>1, Z3
  <2>4. 12 * A + 3 * (q - 1) <= 12 * y + n /\ 12 * y + n <= 12 * A + (3 * q - 1)
          <=> y = A /\ 3 * (q - 1) <= n /\ n <= 3 * q - 1
    BY <1>1, <1>2, Z3
  <2> QED BY <1>1, <2>2, <2>3, <2>4
<1> QED BY <1>4, <1>5, <1>6, <1>7 DEF y, n, A, B

\* A year that is missing, or 0, is that of the request.
LEMMA YearGiven ==
  ASSUME NEW base, Present(base), NEW year \in Int
  PROVE  /\ YearOr(year, KstDate(base).y) \in Int
         /\ FullYear(YearOr(year, KstDate(base).y))
              = IF year = 0 THEN KstDate(base).y ELSE FullYear(year)
<1>1. KstDate(base).y \in Nat /\ FullYear(KstDate(base).y) = KstDate(base).y
  BY PresentIs
<1>2. CASE year = 0
  BY <1>1, <1>2 DEF YearOr
<1>3. CASE year # 0
  BY <1>3 DEF YearOr
<1> QED BY <1>2, <1>3

\* The kinds of filters, and what each carries.
LEMMA FilterKinds ==
  ASSUME NEW f \in TimeFilters
  PROVE  \/ f.type = "named"
         \/ f.type = "relative" /\ f.unit \in {"day", "week", "month", "year"} /\ f.value \in 1 .. 365
         \/ f.type = "absolute"
         \/ f.type = "month" /\ f.year \in Int /\ f.month \in 1 .. 12
         \/ f.type = "quarter" /\ f.year \in Int /\ f.quarter \in 1 .. 4
         \/ f.type = "year" /\ f.year \in Int
         \/ /\ f.type = "label"
            /\ \/ f.shape = "preset"
               \/ f.shape \in {"to_now", "year"} /\ f.year \in Int
               \/ f.shape = "years" /\ f.year \in Int /\ f.last \in Int
               \/ f.shape = "quarter" /\ f.year \in Int /\ f.quarter \in 1 .. 4
               \/ f.shape = "month" /\ f.year \in Int /\ f.month \in Int
               \/ f.shape = "other"
<1>1. DateYears \subseteq Int /\ LabelYears \subseteq Int
  BY DEF DateYears, LabelYears
<1>2. \/ f \in [type : {"named"}, preset : STRING]
      \/ f \in [type : {"relative"}, unit : {"day", "week", "month", "year"}, value : 1 .. 365]
      \/ f \in [type : {"absolute"}, from : SUBSET Int, to : SUBSET Int]
      \/ f \in [type : {"month"}, year : DateYears, month : 1 .. 12]
      \/ f \in [type : {"quarter"}, year : DateYears, quarter : 1 .. 4]
      \/ f \in [type : {"year"}, year : DateYears]
      \/ f \in [type : {"label"}, shape : {"preset"}, preset : STRING]
      \/ f \in [type : {"label"}, shape : {"to_now", "year"}, year : LabelYears]
      \/ f \in [type : {"label"}, shape : {"years"}, year : LabelYears, last : LabelYears]
      \/ f \in [type : {"label"}, shape : {"quarter"}, year : LabelYears, quarter : 1 .. 4]
      \/ f \in [type : {"label"}, shape : {"month"}, year : LabelYears, month : 0 .. 99]
      \/ f \in [type : {"label"}, shape : {"other"}]
  BY ZenonT(60) DEF TimeFilters
<1>3. CASE f \in [type : {"named"}, preset : STRING]
  BY <1>3
<1>4. CASE f \in [type : {"relative"}, unit : {"day", "week", "month", "year"}, value : 1 .. 365]
  BY <1>4
<1>5. CASE f \in [type : {"absolute"}, from : SUBSET Int, to : SUBSET Int]
  BY <1>5
<1>6. CASE f \in [type : {"month"}, year : DateYears, month : 1 .. 12]
  BY <1>1, <1>6, ZenonT(40)
<1>7. CASE f \in [type : {"quarter"}, year : DateYears, quarter : 1 .. 4]
  BY <1>1, <1>7, ZenonT(40)
<1>8. CASE f \in [type : {"year"}, year : DateYears]
  BY <1>1, <1>8
<1>9. CASE f \in [type : {"label"}, shape : {"preset"}, preset : STRING]
  BY <1>9
<1>10. CASE f \in [type : {"label"}, shape : {"to_now", "year"}, year : LabelYears]
  BY <1>1, <1>10
<1>11. CASE f \in [type : {"label"}, shape : {"years"}, year : LabelYears, last : LabelYears]
  BY <1>1, <1>11
<1>12. CASE f \in [type : {"label"}, shape : {"quarter"}, year : LabelYears, quarter : 1 .. 4]
  BY <1>1, <1>12
<1>13. CASE f \in [type : {"label"}, shape : {"month"}, year : LabelYears, month : 0 .. 99]
  <2> DEFINE months == 0 .. 99
  <2>1. months \subseteq Int
    <3>1. \A n \in Int : 0 .. n \subseteq Int
      OBVIOUS
    <3> QED BY <3>1
  <2>2. f \in [type : {"label"}, shape : {"month"}, year : LabelYears, month : months]
    BY <1>13
  <2> HIDE DEF months
  <2>3. f.type = "label" /\ f.shape = "month" /\ f.year \in Int /\ f.month \in Int
    BY ONLY <1>1, <2>1, <2>2
  <2> QED BY ONLY <2>3
<1>14. CASE f \in [type : {"label"}, shape : {"other"}]
  BY <1>14
<1> QED BY ONLY <1>2, <1>3, <1>4, <1>5, <1>6, <1>7, <1>8, <1>9, <1>10, <1>11, <1>12, <1>13, <1>14, ZenonT(60)

\* Labels.
LEMMA LabelLets ==
  ASSUME Zone = 0, NEW base, Present(base), NEW t \in Nat, NEW f \in TimeFilters,
         f.type = "label"
  PROVE  Lets(LabelRange(f, KstDay(base)), t) <=> LabelMatches(f, base, t)
<1> DEFINE today == KstDay(base)
           date == KstDate(t)
<1>1. \/ f.shape = "preset"
      \/ f.shape \in {"to_now", "year"} /\ f.year \in Int
      \/ f.shape = "years" /\ f.year \in Int /\ f.last \in Int
      \/ f.shape = "quarter" /\ f.year \in Int /\ f.quarter \in 1 .. 4
      \/ f.shape = "month" /\ f.year \in Int /\ f.month \in Int
      \/ f.shape = "other"
  BY FilterKinds
<1>2. today \in Nat
  BY PresentIs
<1>3. KstDay(t) \in Nat /\ date = Civil(KstDay(t)) /\ date.y \in Nat /\ date.m \in 0 .. 11
      /\ MonthOf(date) = 12 * date.y + date.m
  BY DateIs DEF KstDate
<1> HIDE DEF today, date
<1>4. CASE f.shape = "preset"
  <2>1. LabelRange(f, today) = NamedRange(f.preset, today)
    BY <1>4 DEF LabelRange
  <2>2. LabelMatches(f, base, t) <=> PresetMatches(f.preset, base, t)
    BY <1>4 DEF LabelMatches
  <2> QED BY <2>1, <2>2, PresetLets DEF today
<1>5. CASE f.shape = "to_now"
  <2> DEFINE a == FullYear(f.year)
             first == FirstDay(12 * a + 0)
  <2>1. f.year \in Int /\ a \in Int
    BY <1>1, <1>5, MonthEnds
  <2>2. StartOfMonth(f.year, 0) = first /\ first \in Int
    <3>1. 12 * a + 0 \in Int
      BY <2>1
    <3>2. \A y \in Int : StartOfMonth(y, 0) = FirstDay(12 * FullYear(y) + 0)
      BY MonthEnds
    <3>3. first \in Int
      BY <3>1, MonthLength
    <3> QED BY <2>1, <3>2, <3>3
  <2>3. LabelRange(f, today) = {DayRange(first, today)}
    BY <1>5, <2>2 DEF LabelRange
  <2>4. LabelMatches(f, base, t) <=> date.y >= a /\ KstDay(t) <= today
    BY <1>5 DEF LabelMatches, date, today
  <2>5. first <= KstDay(t) <=> date.y >= a
    <3>1. MonthOf(date) >= 12 * a + 0 <=> first <= KstDay(t)
      BY <1>3, <2>1, SinceMonth
    <3> HIDE DEF a, first
    <3> QED BY <1>3, <2>1, <3>1
  <2> HIDE DEF first, a
  <2>6. Lets({DayRange(first, today)}, t) <=> first <= KstDay(t) /\ KstDay(t) <= today
    BY <1>2, <2>2, DaysLet
  <2> QED BY <2>3, <2>4, <2>5, <2>6 DEF today
<1>6. CASE f.shape = "years"
  <2>1. f.year \in Int /\ f.last \in Int
    BY <1>1, <1>6
  <2>2. LabelRange(f, today) = {IF f.year < f.last THEN YearsRange(f.year, f.last)
                                                   ELSE YearsRange(f.last, f.year)}
    BY <1>6 DEF LabelRange
  <2>3. LabelMatches(f, base, t)
          <=> \/ f.year <= f.last /\ date.y \in FullYear(f.year) .. FullYear(f.last)
              \/ f.last <= f.year /\ date.y \in FullYear(f.last) .. FullYear(f.year)
    BY <1>6 DEF LabelMatches, date
  <2>4. /\ Lets({YearsRange(f.year, f.last)}, t) <=> date.y \in FullYear(f.year) .. FullYear(f.last)
        /\ Lets({YearsRange(f.last, f.year)}, t) <=> date.y \in FullYear(f.last) .. FullYear(f.year)
    BY <2>1, WholeLets DEF date
  <2>5. CASE f.year < f.last
    BY <2>1, <2>2, <2>3, <2>4, <2>5 DEF today
  <2>6. CASE f.last < f.year
    BY <2>1, <2>2, <2>3, <2>4, <2>6 DEF today
  <2>7. CASE f.last = f.year
    BY <2>1, <2>2, <2>3, <2>4, <2>7 DEF today
  <2> QED BY <2>1, <2>5, <2>6, <2>7
<1>7. CASE f.shape = "quarter"
  <2>1. f.year \in Int /\ f.quarter \in 1 .. 4
    BY <1>1, <1>7
  <2>2. LabelRange(f, today) = {QuarterRange(f.year, f.quarter)}
    BY <1>7 DEF LabelRange
  <2>3. LabelMatches(f, base, t) <=> date.y = FullYear(f.year) /\ QuarterOf(date) = f.quarter
    BY <1>7 DEF LabelMatches, date
  <2>4. Lets({QuarterRange(f.year, f.quarter)}, t)
          <=> date.y = FullYear(f.year) /\ QuarterOf(date) = f.quarter
    BY <2>1, WholeLets DEF date
  <2> QED BY <2>2, <2>3, <2>4 DEF today
<1>8. CASE f.shape = "month"
  <2> DEFINE m == Clamp(f.month, 1, 12)
  <2>1. f.year \in Int /\ m \in 1 .. 12
    BY <1>1, <1>8 DEF Clamp
  <2>2. LabelRange(f, today) = {MonthRange(f.year, m - 1)}
    BY <1>8 DEF LabelRange
  <2>3. LabelMatches(f, base, t) <=> date.y = FullYear(f.year) /\ date.m + 1 = m
    BY <1>8 DEF LabelMatches, date
  <2> HIDE DEF m
  <2>4. Lets({MonthRange(f.year, m - 1)}, t) <=> date.y = FullYear(f.year) /\ date.m + 1 = m
    BY <2>1, WholeLets DEF date
  <2> QED BY <2>2, <2>3, <2>4 DEF today
<1>9. CASE f.shape = "year"
  <2>1. f.year \in Int /\ FullYear(f.year) \in Int
    BY <1>1, <1>9, MonthEnds
  <2>2. LabelRange(f, today) = {YearsRange(f.year, f.year)}
    BY <1>9 DEF LabelRange
  <2>3. LabelMatches(f, base, t) <=> date.y = FullYear(f.year)
    BY <1>9 DEF LabelMatches, date
  <2>4. Lets({YearsRange(f.year, f.year)}, t) <=> date.y \in FullYear(f.year) .. FullYear(f.year)
    BY <2>1, WholeLets DEF date
  <2> QED BY <1>3, <2>1, <2>2, <2>3, <2>4 DEF today
<1>10. CASE f.shape = "other"
  <2>1. LabelRange(f, today) = {}
    BY <1>10 DEF LabelRange
  <2>2. LabelMatches(f, base, t)
    BY <1>10 DEF LabelMatches
  <2> QED BY <2>1, <2>2 DEF Lets, today
<1> QED BY <1>1, <1>4, <1>5, <1>6, <1>7, <1>8, <1>9, <1>10

\* The range of a filter lets through what the filter means, and leaves days out
\* only where the day of the month spills over the end of a shorter month.
THEOREM FilterIsMeant ==
  ASSUME Zone = 0, NEW base, Present(base), NEW t \in Nat, NEW f \in TimeFilters
  PROVE  LET lets == Lets(ToAbsoluteRangeKst(f, base), t) IN
         /\ lets => Matches(f, base, t)
         /\ Matches(f, base, t) => lets \/ SpillsOver(f, base)
<1> DEFINE today == KstDay(base)
           now == KstDate(base)
           date == KstDate(t)
           lets == Lets(ToAbsoluteRangeKst(f, base), t)
           year == YearOr(f.year, now.y)
<1>1. \/ f.type = "named"
      \/ f.type = "relative" /\ f.unit \in {"day", "week", "month", "year"} /\ f.value \in 1 .. 365
      \/ f.type = "absolute"
      \/ f.type = "month" /\ f.year \in Int /\ f.month \in 1 .. 12
      \/ f.type = "quarter" /\ f.year \in Int /\ f.quarter \in 1 .. 4
      \/ f.type = "year" /\ f.year \in Int
      \/ f.type = "label"
  BY FilterKinds
<1>2. LocalDay(ToKst(base)) = today /\ now = Civil(today)
  <2>1. base \in Int
    BY PresentIs
  <2>2. base + 9 + Zone = base + 9
    BY <2>1
  <2> QED BY <2>2 DEF LocalDay, ToKst, KstDay, KstDate
<1>3. date.y \in Nat /\ date.m \in 0 .. 11
  BY DateIs
<1>4. f.year \in Int => /\ year \in Int
                        /\ FullYear(year) = IF f.year = 0 THEN now.y ELSE FullYear(f.year)
  BY YearGiven
<1> HIDE DEF today, now, date, year
<1>5. CASE f.type = "named"
  <2>1. ToAbsoluteRangeKst(f, base) = NamedRange(f.preset, today)
    BY <1>2, <1>5 DEF ToAbsoluteRangeKst
  <2>2. Matches(f, base, t) <=> PresetMatches(f.preset, base, t)
    BY <1>5 DEF Matches
  <2> QED BY <2>1, <2>2, PresetLets DEF today
<1>6. CASE f.type = "relative"
  <2>1. ToAbsoluteRangeKst(f, base) = {RelativeRange(f.unit, f.value, today)}
    BY <1>2, <1>6 DEF ToAbsoluteRangeKst
  <2>2. Matches(f, base, t) <=> RelativeMatches(f, base, t)
    BY <1>6 DEF Matches
  <2>3. f.unit \in {"day", "week", "month", "year"} /\ f.value \in 1 .. 365
    BY <1>1, <1>6
  <2> QED BY <1>6, <2>1, <2>2, <2>3, RelativeLets DEF today
<1>7. CASE f.type = "absolute"
  <2>1. ToAbsoluteRangeKst(f, base) = {[from |-> a, to |-> b] : a \in f.from, b \in f.to}
    BY <1>7 DEF ToAbsoluteRangeKst, AbsoluteRange
  <2>2. Matches(f, base, t) <=> \A a \in f.from, b \in f.to : t \in a .. b
    BY <1>7 DEF Matches
  <2> DEFINE r(a, b) == [from |-> a, to |-> b]
  <2>3. \A a, b : r(a, b).from = a /\ r(a, b).to = b
    OBVIOUS
  <2>4. ToAbsoluteRangeKst(f, base) = {r(a, b) : a \in f.from, b \in f.to}
    BY <2>1
  <2> HIDE DEF r
  <2>5. ASSUME lets, NEW a \in f.from, NEW b \in f.to PROVE t \in a .. b
    <3>1. r(a, b) \in ToAbsoluteRangeKst(f, base)
      BY <2>4
    <3>2. t \in r(a, b).from .. r(a, b).to
      BY <2>5, <3>1 DEF Lets
    <3> QED BY <2>3, <3>2
  <2>6. ASSUME \A a \in f.from, b \in f.to : t \in a .. b PROVE lets
    <3>1. ASSUME NEW x \in ToAbsoluteRangeKst(f, base) PROVE t \in x.from .. x.to
      <4>1. PICK a \in f.from, b \in f.to : x = r(a, b)
        BY <2>4, <3>1
      <4> QED BY <2>3, <2>6, <4>1
    <3> QED BY <3>1 DEF Lets
  <2> QED BY <2>2, <2>5, <2>6
<1>8. CASE f.type = "month"
  <2>1. f.year \in Int /\ f.month \in 1 .. 12 /\ Clamp(f.month, 1, 12) = f.month
    BY <1>1, <1>8 DEF Clamp
  <2>2. ToAbsoluteRangeKst(f, base) = {MonthRange(year, f.month - 1)}
    BY <1>2, <1>8, <2>1 DEF ToAbsoluteRangeKst, year
  <2>3. Matches(f, base, t)
          <=> date.y = (IF f.year = 0 THEN now.y ELSE FullYear(f.year)) /\ date.m + 1 = f.month
    BY <1>8 DEF Matches, date, now
  <2>4. Lets({MonthRange(year, f.month - 1)}, t) <=> date.y = FullYear(year) /\ date.m + 1 = f.month
    BY <1>4, <2>1, WholeLets DEF date
  <2> QED BY <1>4, <2>1, <2>2, <2>3, <2>4
<1>9. CASE f.type = "quarter"
  <2>1. f.year \in Int /\ f.quarter \in 1 .. 4 /\ Clamp(f.quarter, 1, 4) = f.quarter
    BY <1>1, <1>9 DEF Clamp
  <2>2. ToAbsoluteRangeKst(f, base) = {QuarterRange(year, f.quarter)}
    BY <1>2, <1>9, <2>1 DEF ToAbsoluteRangeKst, year
  <2>3. Matches(f, base, t) <=> /\ date.y = (IF f.year = 0 THEN now.y ELSE FullYear(f.year))
                                /\ QuarterOf(date) = f.quarter
    BY <1>9 DEF Matches, date, now
  <2>4. Lets({QuarterRange(year, f.quarter)}, t)
          <=> date.y = FullYear(year) /\ QuarterOf(date) = f.quarter
    BY <1>4, <2>1, WholeLets DEF date
  <2> QED BY <1>4, <2>1, <2>2, <2>3, <2>4
<1>10. CASE f.type = "year"
  <2>1. f.year \in Int /\ FullYear(f.year) \in Int
    BY <1>1, <1>10, MonthEnds
  <2>2. ToAbsoluteRangeKst(f, base) = {YearsRange(f.year, f.year)}
    BY <1>10 DEF ToAbsoluteRangeKst
  <2>3. Matches(f, base, t) <=> date.y = FullYear(f.year)
    BY <1>10 DEF Matches, date
  <2>4. Lets({YearsRange(f.year, f.year)}, t) <=> date.y \in FullYear(f.year) .. FullYear(f.year)
    BY <2>1, WholeLets DEF date
  <2> QED BY <1>3, <2>1, <2>2, <2>3, <2>4
<1>11. CASE f.type = "label"
  <2>1. ToAbsoluteRangeKst(f, base) = LabelRange(f, today)
    BY <1>2, <1>11 DEF ToAbsoluteRangeKst
  <2>2. Matches(f, base, t) <=> LabelMatches(f, base, t)
    BY <1>11 DEF Matches
  <2> QED BY <1>11, <2>1, <2>2, LabelLets DEF today
<1> QED BY <1>1, <1>5, <1>6, <1>7, <1>8, <1>9, <1>10, <1>11
=============================================================================
