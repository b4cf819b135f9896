-------------------------------- MODULE TimeZone --------------------------------
(***************************************************************************)
(* ybase::TimeZone: what is read of a zone file, the search for the local  *)
(* time type in effect, and the conversions to and from broken-down time.  *)
(* A zone that was default constructed has no data and is noData here.     *)
(* External: gmtime_r and timegm, which are the calendar.                  *)
(***************************************************************************)
EXTENDS Date

kSecondsPerDay == 24 * 60 * 60

\* data_ is NULL in no zone but the default constructed one.
noData == [transitions |-> <<>>, localtimes |-> <<>>, null |-> TRUE]
valid(zone) == ~zone.null

fixedZone(eastOfUtc) ==
    [transitions |-> <<>>, localtimes |-> <<[gmtOffset |-> eastOfUtc, isDst |-> FALSE]>>, null |-> FALSE]

\* A file has its sections in this order, and may end, or have a wrong head,
\* before the section that is numbered `upTo'; 0 is a file that cannot be opened.
\* The exception is caught, what came before it is kept, and the answer is true.
readTimeZoneFile(file) ==
    LET time(i) == file.trans[i] + file.types[file.localtimes[i]].gmtOffset
    IN  [localtimes  |-> IF file.upTo < 3 THEN <<>> ELSE file.types,
         transitions |-> IF file.upTo < 3 THEN <<>>
                         ELSE [i \in 1..Len(file.trans) |->
                                  [gmttime |-> file.trans[i], localtime |-> time(i),
                                   localtimeIdx |-> file.localtimes[i]]],
         null |-> FALSE]

-----------------------------------------------------------------------------
(* Broken-down time.                                                       *)

fillHMS(seconds) ==
    [sec |-> seconds % 60, min |-> (seconds \div 60) % 60, hour |-> (seconds \div 60) \div 60]

\* External, of the calendar: the seconds since 1970 of a broken-down time.
timegm(tm) ==
    dayNumber(tm.year, tm.mon, tm.mday) * kSecondsPerDay + tm.hour * 3600 + tm.min * 60 + tm.sec

\* Mutant: a time before 1970 is given the day after.
toUtcTimeNoBorrow(secondsSinceEpoch) ==
    LET seconds == crem(secondsSinceEpoch, kSecondsPerDay) % kSecondsPerDay
        days == cdiv(secondsSinceEpoch, kSecondsPerDay)
        date == days + kJulianDayOf1970_01_01
        ymd == getYearMonthDay(date)
    IN  [sec |-> fillHMS(seconds).sec, min |-> fillHMS(seconds).min, hour |-> fillHMS(seconds).hour,
         year |-> ymd.year, mon |-> ymd.month, mday |-> ymd.day, wday |-> weekDay(date),
         yday |-> date - getJulianDayNumber(ymd.year, 1, 1)]

toUtcTime(secondsSinceEpoch) ==
    LET rem == crem(secondsSinceEpoch, kSecondsPerDay)
        seconds == IF rem < 0 THEN rem + kSecondsPerDay ELSE rem
        days == cdiv(secondsSinceEpoch, kSecondsPerDay) - (IF rem < 0 THEN 1 ELSE 0)
        date == days + kJulianDayOf1970_01_01
        ymd == getYearMonthDay(date)
        hms == fillHMS(seconds)
    IN  [sec |-> hms.sec, min |-> hms.min, hour |-> hms.hour,
         year |-> ymd.year, mon |-> ymd.month, mday |-> ymd.day, wday |-> weekDay(date),
         yday |-> date - getJulianDayNumber(ymd.year, 1, 1)]

fromUtcTime(tm) ==
    (getJulianDayNumber(tm.year, tm.mon, tm.mday) - kJulianDayOf1970_01_01) * kSecondsPerDay
        + tm.hour * 3600 + tm.min * 60 + tm.sec

-----------------------------------------------------------------------------
(* Local time.                                                             *)

\* std::lower_bound over one of the two times of a transition.
lower_bound(times, t) ==
    CHOOSE i \in 1..Len(times) + 1 :
        /\ \A j \in 1..i - 1 : times[j] < t
        /\ \A j \in i..Len(times) : times[j] >= t

\* Mutant: at a transition, and up to the next, the type before it is found.
findLocaltimeBefore(zone, times, t) ==
    LET i == lower_bound(times, t)
    IN  IF times = <<>> \/ t < times[1] THEN zone.localtimes[1]
        ELSE zone.localtimes[zone.transitions[IF i = 1 THEN 1 ELSE i - 1].localtimeIdx]

\* Undefined, the front of an empty vector, for a zone without localtimes.
findLocaltime(zone, times, t) ==
    LET i == lower_bound(times, t)
        last == IF i <= Len(times) /\ times[i] = t THEN i ELSE i - 1
    IN  IF times = <<>> \/ t < times[1] THEN zone.localtimes[1]
        ELSE zone.localtimes[zone.transitions[last].localtimeIdx]

gmttimes(zone) == [i \in DOMAIN zone.transitions |-> zone.transitions[i].gmttime]
\* A zone file has its transitions in ascending order, as lower_bound needs them.
ascending(zone) ==
    /\ gmttimes(zone) \in Seq(Int)
    /\ \A i, j \in DOMAIN gmttimes(zone) : i < j => gmttimes(zone)[i] < gmttimes(zone)[j]

localtimes(zone) == [i \in DOMAIN zone.transitions |-> zone.transitions[i].localtime]

\* External, of the calendar: gmtime_r, by the year, month and day that fit.
gmtime(seconds) ==
    LET days == seconds \div kSecondsPerDay
        y == CHOOSE n \in 1965..1980 : dayNumber(n, 1, 1) <= days /\ days < dayNumber(n + 1, 1, 1)
        m == CHOOSE n \in 1..12 : dayNumber(y, n, 1) <= days /\ days < dayNumber(y, n, daysIn(y, n)) + 1
        hms == fillHMS(seconds % kSecondsPerDay)
    IN  [sec |-> hms.sec, min |-> hms.min, hour |-> hms.hour,
         year |-> y, mon |-> m, mday |-> days - dayNumber(y, m, 1) + 1, wday |-> (days + 4) % 7,
         yday |-> days - dayNumber(y, 1, 1)]

toLocalTime(zone, seconds) ==
    LET local == findLocaltime(zone, gmttimes(zone), seconds)
    IN  [tm |-> gmtime(seconds + local.gmtOffset), isdst |-> local.isDst]

\* Of the two instants a repeated hour may mean, tm_isdst tells the first.
fromLocalTime(zone, l) ==
    LET seconds == timegm(l.tm)
        local == findLocaltime(zone, localtimes(zone), seconds)
        tryTm == toLocalTime(zone, seconds - local.gmtOffset)
        hack == l.isdst /\ ~tryTm.isdst /\ tryTm.tm.hour = l.tm.hour /\ tryTm.tm.min = l.tm.min
    IN  (IF hack THEN seconds - 3600 ELSE seconds) - local.gmtOffset

-----------------------------------------------------------------------------
\* The offset in effect: that of the last transition not after the instant.
offsetAt(zone, seconds) ==
    LET before == {i \in DOMAIN zone.transitions : zone.transitions[i].gmttime <= seconds}
    IN  IF before = {} THEN zone.localtimes[1]
        ELSE zone.localtimes[zone.transitions[Max(before)].localtimeIdx]

\* The conversions to and from UTC are those of the calendar, and a local time
\* names the instant it was made from, in the hour that comes twice also.
TimesAgree(zone, seconds) ==
    /\ toUtcTime(seconds) = gmtime(seconds)
    /\ fromUtcTime(toUtcTime(seconds)) = seconds
    /\ valid(zone) => /\ toLocalTime(zone, seconds).tm = gmtime(seconds + offsetAt(zone, seconds).gmtOffset)
                      /\ fromLocalTime(zone, toLocalTime(zone, seconds)) = seconds
=============================================================================
