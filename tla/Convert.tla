--------------------------------- MODULE Convert ---------------------------------
(***************************************************************************)
(* ybase::convertFormatUtils: integers as digits, and numbers in three     *)
(* significant digits with a unit.  A text is the sequence of its digits,  *)
(* minus before them.  What snprintf rounds is rounded to the nearest.     *)
(***************************************************************************)
EXTENDS Integers, Sequences

minus == -1

rem(a, b) == IF a >= 0 THEN a % b ELSE -((-a) % b)
quot(a, b) == (a - rem(a, b)) \div b

\* digits, and zero pointing at the 0 in its middle: zero[-3] is a 3.
digits == <<9, 8, 7, 6, 5, 4, 3, 2, 1, 0, 1, 2, 3, 4, 5, 6, 7, 8, 9>>
zero(lsd) == digits[10 + lsd]

\* Mutant: a negative number is negated first, which the least one has no room for.
convertNegates(value, least) ==
    LET text[i \in Int] == (IF quot(i, 10) = 0 THEN <<>> ELSE text[quot(i, 10)]) \o <<zero(rem(i, 10))>>
    IN  IF value = least THEN <<minus, 0>> ELSE IF value < 0 THEN <<minus>> \o text[-value] ELSE text[value]

\* The digits of a negative number are taken of it as it is: least, the least
\* value of its type, is no exception.
convert(value, least) ==
    LET text[i \in Int] == (IF quot(i, 10) = 0 THEN <<>> ELSE text[quot(i, 10)]) \o <<zero(rem(i, 10))>>
    IN  (IF value < 0 THEN <<minus>> ELSE <<>>) \o text[value]

convertHex(value) ==
    LET text[i \in Nat] == (IF i < 16 THEN <<>> ELSE text[i \div 16]) \o <<i % 16>>
    IN  text[value]

-----------------------------------------------------------------------------
(* formatSI and formatIEC.  Row 0 of the comparisons prints s as it is;    *)
(* the three rows of each unit print two decimals, one and none, whenever  *)
(* s is below the row's limit and no earlier one's.                        *)

pow(b, n) == LET p[i \in Nat] == IF i = 0 THEN 1 ELSE b * p[i - 1] IN p[n]
unit(row) == (row + 2) \div 3
decimals(row) == IF row = 0 THEN 0 ELSE 2 - ((row - 1) % 3)

limitSI(row) == IF row = 0 THEN 1000 ELSE 9995 * pow(10, row - 1)

\* 9.995, 99.95 and 1023.5 of the unit, made whole upwards.
limitIEC(row) ==
    LET limit == <<<<9, 995>>, <<99, 950>>, <<1023, 500>>>>[1 + ((row - 1) % 3)]
        over == pow(1024, unit(row))
    IN  IF row = 0 THEN 1024 ELSE limit[1] * over + (limit[2] * over + 999) \div 1000

format(s, limit(_), base) ==
    LET row[i \in Nat] == IF s < limit(i) THEN i ELSE row[i + 1]
        over == pow(base, unit(row[0]))
    IN  [unit |-> unit(row[0]), decimals |-> decimals(row[0]),
         digits |-> (2 * pow(10, decimals(row[0])) * s + over) \div (2 * over)]

formatSI(s) == format(s, limitSI, 1000)
formatIEC(s) == format(s, limitIEC, 1024)

-----------------------------------------------------------------------------
\* The number a text of digits of the base stands for.
valueOf(text, base) ==
    LET v[i \in Nat] == IF i = 0 THEN 0
                        ELSE IF text[i] = minus THEN 0 ELSE base * v[i - 1] + text[i]
    IN  IF text[1] = minus THEN -v[Len(text)] ELSE v[Len(text)]

\* Digits without a leading zero, and the number they came from.
DigitsAgree(text, value, base) ==
    /\ valueOf(text, base) = value
    /\ \A i \in 1..Len(text) : text[i] \in 0..base - 1 \/ (i = 1 /\ text[i] = minus)
    /\ Len(text) > 1 => text[1] # 0 /\ (text[1] = minus => text[2] # 0)

\* A number with a unit has three digits, or four of it below 1024 Ki.
ThreeDigits(f, most) ==
    f.unit > 0 => f.digits \in 100..(IF f.decimals = 0 THEN most ELSE 999)
=============================================================================
