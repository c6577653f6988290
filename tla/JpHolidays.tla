----------------------------- MODULE JpHolidays -----------------------------
(***************************************************************************)
(* The public holidays of Japan: packages/core/src/holidays/               *)
(* jp-generator.ts.  A date is a pair <<month, day>>, months from 1; the   *)
(* days of the week are numbers from 0, Sunday.                            *)
(***************************************************************************)
EXTENDS Integers, FiniteSets, SequencesExt

Leap(y) == y % 4 = 0 /\ (y % 100 # 0 \/ y % 400 = 0)
DaysIn(y, m) ==
    IF m = 2 THEN IF Leap(y) THEN 29 ELSE 28
    ELSE IF m \in {4, 6, 9, 11} THEN 30 ELSE 31
DayOfYear(y, date) ==
    date[2] + FoldLeft(+, 0, [m \in 1 .. date[1] - 1 |-> DaysIn(y, m)])
LeapYearsBefore(y) == ((y - 1) \div 4) - ((y - 1) \div 100) + ((y - 1) \div 400)
\* The days since 1980 began, 1 January being day 1.
DayNumber(y, n) == 365 * (y - 1980) + LeapYearsBefore(y) - LeapYearsBefore(1980) + n
\* 1 January 1980 was a Tuesday.
WeekdayOf(y, n) == (1 + DayNumber(y, n)) % 7
Weekday(y, date) == WeekdayOf(y, DayOfYear(y, date))

NextDay(y, date) ==
    IF date[2] < DaysIn(y, date[1]) THEN <<date[1], date[2] + 1>> ELSE <<date[1] + 1, 1>>

\* Other years are refused: the formulas of the equinoxes are made for these.
SupportedYears == 1980 .. 2099

\* The formulas have four and six decimals.
vernalEquinoxDay(y) == (20843100 + 242194 * (y - 1980) - 1000000 * ((y - 1980) \div 4)) \div 1000000
autumnalEquinoxDay(y) == (23248800 + 242194 * (y - 1980) - 1000000 * ((y - 1980) \div 4)) \div 1000000

nthMonday(y, m, n) == 1 + ((8 - Weekday(y, <<m, 1>>)) % 7) + 7 * (n - 1)

FixedHolidays == << <<1, 1>>, <<2, 11>>, <<2, 23>>, <<4, 29>>, <<5, 3>>, <<5, 4>>, <<5, 5>>,
                    <<8, 11>>, <<11, 3>>, <<11, 23>> >>
respectAged(y) == nthMonday(y, 9, 3)

\* In the order in which they are made.
NationalHolidays(y) == FixedHolidays
    \o << <<3, vernalEquinoxDay(y)>>, <<9, autumnalEquinoxDay(y)>> >>
    \o << <<1, nthMonday(y, 1, 2)>>, <<7, nthMonday(y, 7, 3)>>,
          <<9, respectAged(y)>>, <<10, nthMonday(y, 10, 2)>> >>

\* MUTANT: the day between two holidays is forgotten
CitizensHoliday_None(y) == <<>>
CitizensHoliday(y) ==
    IF autumnalEquinoxDay(y) - respectAged(y) = 2 THEN << <<9, respectAged(y) + 1>> >> ELSE <<>>

\* The days after a Sunday are tried until one is no holiday: five are enough.
Substitute(y, date, holidays) ==
    FoldLeft(LAMBDA d, i : IF d \in holidays THEN NextDay(y, d) ELSE d,
             NextDay(y, date), <<1, 2, 3, 4, 5>>)

\* Holidays on a Sunday are substituted one after the other.
generateJpHolidays(y) ==
    LET base == NationalHolidays(y) \o CitizensHoliday(y)
    IN  FoldLeft(LAMBDA all, h : IF Weekday(y, h) = 0 THEN all \cup {Substitute(y, h, all)} ELSE all,
                 ToSet(base), base)

-----------------------------------------------------------------------------
(* Properties.                                                             *)

\* What the Act on National Holidays says of the days of a year, without making
\* a list: the national holidays; after one on a Sunday the first day that is
\* none; and a day between two.
Lawful(y) ==
    LET national == {DayOfYear(y, h) : h \in ToSet(NationalHolidays(y))}
        afterSunday(n) == \E h \in national :
            h < n /\ WeekdayOf(y, h) = 0 /\ h + 1 .. n - 1 \subseteq national
        between(n) == {n - 1, n + 1} \subseteq national
    IN  {n \in 1 .. DayOfYear(y, <<12, 31>>) :
            n \in national \/ afterSunday(n) \/ between(n)}

\* The generated list of a year is the one the Act describes, and its sixteen
\* national holidays never meet on a date (generateJpHolidays).
ListIsLawful(y) ==
    /\ Cardinality(ToSet(NationalHolidays(y))) = 16
    /\ {DayOfYear(y, h) : h \in generateJpHolidays(y)} = Lawful(y)
=============================================================================
