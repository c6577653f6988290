------------------------------ MODULE Overtime ------------------------------
(***************************************************************************)
(* Overtime by the hour: packages/core/src/overtime/calculator.ts.  Pay is *)
(* in hundredths of an hour's pay, a limit's warning share in hundredths.  *)
(***************************************************************************)
EXTENDS Integers

CONSTANTS
    Rates,         \* policy.overtime.rates
    WarningShare,  \* JP_LABOR.OVERTIME_WARNING_UTILIZATION
    MaxKind,       \* bound: hours of a kind
    MaxLimit       \* bound on a limit, a threshold and the hours before the month

Kinds == {"regular", "lateNight", "holiday"}
Total(hours) == hours.regular + hours.lateNight + hours.holiday
Above(hours, limit) == IF hours > limit THEN hours - limit ELSE 0

\* The hours of the month over the threshold cost their rate on top of their own.
calculateOvertimePay(hours, monthlyTotal, threshold) ==
    hours.regular * Rates.standard
      + hours.lateNight * (Rates.standard + Rates.lateNight)
      + hours.holiday * Rates.holiday
      + Above(monthlyTotal, threshold) * Rates.excess60h

checkDeemedOvertimeThreshold(actual, deemed) ==
    [exceeded |-> actual > deemed, excess |-> Above(actual, deemed)]

\* MUTANT: a limit is exceeded only by the hour after it
Verdict_Late(hours, limit) ==
    [warning  |-> limit > 0 /\ 100 * hours >= WarningShare * limit /\ hours < limit,
     exceeded |-> hours > limit]

\* A limit of 0 has no utilization to warn of; it is exceeded from the start.
Verdict(hours, limit) ==
    [warning  |-> limit > 0 /\ 100 * hours >= WarningShare * limit /\ hours < limit,
     exceeded |-> hours >= limit]

check36AgreementLimits(monthly, yearly, monthlyLimit, yearlyLimit) ==
    [monthly |-> Verdict(monthly, monthlyLimit), yearly |-> Verdict(yearly, yearlyLimit)]

-----------------------------------------------------------------------------
(* What the rules promise for one input, and the small inputs.             *)

Worked == [Kinds -> 0 .. MaxKind]
Limits == 0 .. MaxLimit

\* REQ-OT-003: an hour beyond the threshold has the rate of overtime exceeding it
\* in place of its own; late at night either has the same addition.
BaseRate(kind) == IF kind = "holiday" THEN Rates.holiday ELSE Rates.standard
RateDue(kind, beyond) ==
    (IF beyond THEN Rates.excess60h ELSE BaseRate(kind))
      + IF kind = "lateNight" THEN Rates.lateNight ELSE 0

Level(verdict) == IF verdict.exceeded THEN 2 ELSE IF verdict.warning THEN 1 ELSE 0

\* Whoever works one more hour is paid up to the threshold what REQ-OT-003 has for
\* an hour of its kind; beyond it, that and the base rate of the hour once more,
\* which the requirement does not give, unless the hour is counted in the month's
\* total alone: then it is paid the higher rate and no addition.  The agreement's
\* verdicts only rise with the hour: warned before exceeded if the warning's share of
\* the limit is an hour or more, exceeded no later than the deemed hours if these
\* are the limit (calculateOvertimePay, check36AgreementLimits,
\* checkDeemedOvertimeThreshold, over the hours of a whole month).
OneMoreHour(hours, before, limit) ==
    LET pay(h) == calculateOvertimePay(h, Total(h), limit)
        limits(h) == check36AgreementLimits(Total(h), before + Total(h), limit, 2 * limit)
        deemed(h) == checkDeemedOvertimeThreshold(Total(h), limit)
        steps(was, is, bound) ==
            /\ Level(was) <= Level(is) /\ ~(is.warning /\ is.exceeded)
            /\ (100 - WarningShare) * bound >= 100 => Level(is) <= Level(was) + 1
        beyond == Total(hours) >= limit
    IN  /\ calculateOvertimePay(hours, Total(hours) + 1, limit) - pay(hours)
             = IF beyond THEN Rates.excess60h ELSE 0
        /\ \A kind \in Kinds : LET more == [hours EXCEPT ![kind] = @ + 1] IN
          /\ pay(more) - pay(hours) = RateDue(kind, beyond) + IF beyond THEN BaseRate(kind) ELSE 0
          /\ steps(limits(hours).monthly, limits(more).monthly, limit)
          /\ steps(limits(hours).yearly, limits(more).yearly, 2 * limit)
          /\ deemed(more).exceeded <=> limits(hours).monthly.exceeded
          /\ deemed(more).exceeded <=> deemed(more).excess > 0
=============================================================================
