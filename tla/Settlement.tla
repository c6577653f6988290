----------------------------- MODULE Settlement -----------------------------
(***************************************************************************)
(* The dates and amounts of a termination: the pure part of                *)
(* packages/core/src/onboarding/offboarding.ts and the date helpers it     *)
(* takes from packages/types/src/date-utils.ts.  A date is a record, an    *)
(* amount a whole number.                                                  *)
(***************************************************************************)
EXTENDS JpHolidays

CONSTANTS
    DeadlineDay,           \* PAYMENT.SETTLEMENT_DEADLINE_DAY
    ConfidentialityYears,  \* LEGAL_OBLIGATIONS.CONFIDENTIALITY_YEARS
    NonCompeteMonths,      \* LEGAL_OBLIGATIONS.NON_COMPETE_MONTHS
    CurePeriodDays         \* LEGAL_OBLIGATIONS.CURE_PERIOD_DAYS

Date(y, m, d) == [year |-> y, month |-> m, day |-> d]
DatesOf(y) == UNION {{Date(y, m, d) : d \in 1 .. DaysIn(y, m)} : m \in 1 .. 12}
DayNumberOf(date) == DayNumber(date.year, DayOfYear(date.year, <<date.month, date.day>>))

\* What Date makes of a day the month does not have.
Existing(y, m, d) ==
    IF d > DaysIn(y, m) THEN Date(y, m + 1, d - DaysIn(y, m)) ELSE Date(y, m, d)

addMonths(date, n) ==
    LET month == date.month - 1 + n
    IN  Existing(date.year + month \div 12, (month % 12) + 1, date.day)
addYears(date, n) == Existing(date.year + n, date.month, date.day)
Following(date) ==
    IF date.month = 12 /\ date.day = 31 THEN Date(date.year + 1, 1, 1)
    ELSE LET next == NextDay(date.year, <<date.month, date.day>>)
         IN  Date(date.year, next[1], next[2])
addDays(date, n) == FoldLeft(LAMBDA d, i : Following(d), date, [i \in 1 .. n |-> i])

\* proRataSalary is rounded to a whole amount; the salary counts as a monthly one.
getSettlementPreview(date, amount) ==
    LET days == DaysIn(date.year, date.month)
        next == addMonths(date, 1)
    IN  [proRata  |-> (2 * amount * date.day + days) \div (2 * days),
         buyout   |-> amount,
         deadline |-> Date(next.year, next.month, DeadlineDay)]

buildLegalObligations(date) ==
    [confidentiality |-> addYears(date, ConfidentialityYears),
     nonCompete      |-> addMonths(date, NonCompeteMonths)]

curePeriodExpiry(date) == addDays(date, CurePeriodDays)

-----------------------------------------------------------------------------
(* What the rules promise for one date.                                    *)

\* The months from that of one date to that of another.
MonthsUntil(date, until) == 12 * (until.year - date.year) + until.month - date.month

\* On whichever day somebody leaves, the settlement is due on the 15th of the month
\* that follows, as REQ-OB-002 has it, if that month has such a day, and on the 15th
\* of the month after it, which the requirement does not allow, if it has not: on 29
\* (but in leap years), 30 and 31 January and on the 31st of March, May, August and
\* October; leaving a day later is never due earlier nor paid less within a month,
\* and the last day of a month pays it whole; no obligation ends a day early, in leap
\* years neither, and the cure period has its days (getSettlementPreview,
\* buildLegalObligations, offboard).
TermsHold(date, amount) ==
    LET preview == getSettlementPreview(date, amount)
        later   == getSettlementPreview(Following(date), amount)
        length(until) == DayNumberOf(until) - DayNumberOf(date)
        duties  == buildLegalObligations(date)
    IN  /\ preview.deadline.day = DeadlineDay
        /\ MonthsUntil(date, preview.deadline)
             = IF date.day <= DaysIn(date.year, (date.month % 12) + 1) THEN 1 ELSE 2
        /\ length(preview.deadline) <= length(later.deadline)
        /\ preview.proRata \in 0 .. amount
        /\ IF Following(date).day = 1 THEN preview.proRata = amount
           ELSE preview.proRata <= later.proRata
        /\ length(duties.confidentiality) >= 365 * ConfidentialityYears
        /\ length(duties.nonCompete) \in 365 .. 366
        /\ length(curePeriodExpiry(date)) = CurePeriodDays
=============================================================================
