--------------------------------- MODULE Date ---------------------------------
(***************************************************************************)
(* ybase::Date: a Julian day number, and the arithmetic that turns it into *)
(* year, month and day and back.  The calendar it is checked against       *)
(* counts leap years and the days of months one by one.                    *)
(***************************************************************************)
EXTENDS Integers, Sequences, FiniteSets, FiniteSetsExt

\* Division and remainder of C, which round towards zero.
cdiv(a, b) == IF a >= 0 THEN a \div b ELSE -((-a) \div b)
crem(a, b) == a - b * cdiv(a, b)

\* Mutant: January and February are not counted to the year before.
getJulianDayNumberNoShift(year, month, day) ==
    LET y == year + 4800
        m == month + 12 * ((14 - month) \div 12) - 3
    IN  day + (153 * m + 2) \div 5 + y * 365 + y \div 4 - y \div 100 + y \div 400 - 32045

getJulianDayNumber(year, month, day) ==
    LET a == (14 - month) \div 12
        y == year + 4800 - a
        m == month + 12 * a - 3
    IN  day + (153 * m + 2) \div 5 + y * 365 + y \div 4 - y \div 100 + y \div 400 - 32045

getYearMonthDay(julianDayNumber) ==
    LET a == julianDayNumber + 32044
        b == (4 * a + 3) \div 146097
        c == a - (b * 146097) \div 4
        d == (4 * c + 3) \div 1461
        e == c - (1461 * d) \div 4
        m == (5 * e + 2) \div 153
    IN  [year  |-> b * 100 + d - 4800 + m \div 10,
         month |-> m + 3 - 12 * (m \div 10),
         day   |-> e - (153 * m + 2) \div 5 + 1]

kJulianDayOf1970_01_01 == getJulianDayNumber(1970, 1, 1)
weekDay(julianDayNumber) == (julianDayNumber + 1) % 7

-----------------------------------------------------------------------------
(* The calendar.                                                           *)

leap(y) == y % 4 = 0 /\ (y % 100 # 0 \/ y % 400 = 0)
daysIn(y, m) == IF m = 2 /\ leap(y) THEN 29 ELSE <<31, 28, 31, 30, 31, 30, 31, 31, 30, 31, 30, 31>>[m]

\* Days of the year y before its month m.
daysBefore(y, m) ==
    LET before[n \in 1..12] == IF n = 1 THEN 0 ELSE before[n - 1] + daysIn(y, n - 1)
    IN  before[m]

\* Days since 1970-01-01.
dayNumber(y, m, d) ==
    LET leaps(years) == Cardinality({n \in years : leap(n)})
    IN  365 * (y - 1970) + leaps(1970..y - 1) - leaps(y..1969)
        + daysBefore(y, m) + d - 1

\* A date has the number the calendar gives it, and is what its number is
\* turned into; 1970 began on a Thursday.
DateAgrees(y, m, d) ==
    LET j == getJulianDayNumber(y, m, d)
        n == dayNumber(y, m, d)
    IN  /\ j - kJulianDayOf1970_01_01 = n
        /\ getYearMonthDay(j) = [year |-> y, month |-> m, day |-> d]
        /\ weekDay(j) = (n + 4) % 7

\* The days at which the months of the year y begin and end.
DatesAgree(y) == \A m \in 1..12 : \A d \in {1, 2, 28, daysIn(y, m)} : DateAgrees(y, m, d)
=============================================================================
