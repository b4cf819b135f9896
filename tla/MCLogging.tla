------------------------------- MODULE MCLogging -------------------------------
(* Logging for model checking: a zone with a summer hour in 1970 and 1971, and  *)
(* moments around its changes, a leap day and the ends of a day and a year; ten *)
(* microseconds to a second.                                                    *)
EXTENDS Logging

hour == 3600
at(y, m, d, h) == dayNumber(y, m, d) * kSecondsPerDay + h * hour
standard == [gmtOffset |-> hour, isDst |-> FALSE]
summer == [gmtOffset |-> 2 * hour, isDst |-> TRUE]
file(n) == [trans |-> <<at(1970, 4, 26, 1), at(1970, 10, 25, 1), at(1971, 4, 25, 1)>>,
            localtimes |-> <<2, 1, 2>>, types |-> <<standard, summer>>, upTo |-> n]
MCZones == {fixedZone(-8 * hour), readTimeZoneFile(file(5))}

turn == at(1970, 10, 25, 1)
MCInstants == {10 * turn - 10, 10 * turn, 10 * turn + 7, 10 * turn + 10}
MCSeconds == {1, at(1970, 4, 26, 1) - 1, at(1970, 4, 26, 1), turn - hour, turn - hour \div 2, turn, turn + hour,
              at(1970, 12, 31, 23) + 3599, at(1972, 2, 29, 0), at(1972, 3, 1, 0)}
MCItems == {text("long", 60), integer(-128, -128)}
MCLevels == {"DEBUG", "FATAL"}
MCNumbers == {0, 1, 9, 10, 15, 16, 100, 128, 255, 999, 1000, 1023, 1024, 9994, 9995, 10234, 10235, 99949, 99950,
              102348, 102349, 999499, 999500, 1048063, 1048064, 9994999, 9995000, 10480517, 10480518,
              99949999, 99950000, 104805171, 104805172, 999499999}
MCYears == {1900, 1969, 1970, 1972, 1999, 2000, 2024, 2100, 2400, 2500}
=============================================================================
