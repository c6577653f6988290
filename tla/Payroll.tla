------------------------------- MODULE Payroll -------------------------------
(***************************************************************************)
(* The monthly payroll report of one employee (packages/core/src/payroll)  *)
(* over what it is computed from: the clock events of the month, which the *)
(* state machine allows one at a time, the approved leave requests and the *)
(* salary history.  The report reads and writes nothing else.              *)
(*                                                                         *)
(* Arithmetic is exact: hours in hundredths, money in the fractions named  *)
(* below.                                                                  *)
(***************************************************************************)
EXTENDS Hours

CONSTANTS
    Days,              \* days of the month
    MaxTime,           \* bound: the last slot the clock reaches
    MonthlyMinimum,    \* policy.hours.monthlyMinimum, in hours
    DailyMinimum,      \* policy.hours.dailyMinimum, in hours
    OvertimeRate,      \* policy.overtime.rates.standard, in quarters
    MonthlyFullTime,   \* HOURS.MONTHLY_FULL_TIME, in hours
    Salaries,          \* salary entries: [amount, salaryType]
    MaxEntries,        \* bound: dates with a salary entry
    MaxLeave           \* bound: approved leave requests of the month

SalaryTypes == {"MONTHLY", "ANNUAL", "HOURLY"}

ASSUME PayAssumption ==
    /\ {Days, MonthlyMinimum, DailyMinimum, OvertimeRate, MonthlyFullTime} \subseteq Nat \ {0}
    /\ Salaries \subseteq [amount : Nat, salaryType : SalaryTypes]
    /\ {MaxEntries, MaxLeave} \subseteq Nat
    /\ MaxTime \in 0 .. Days * DaySlots - 1

\* The first day of the next month, and the dates of salary entries: 0 for a
\* date before the month, then its days, then a date after it.
MonthEnd == Days + 1
Dates    == 0 .. MonthEnd
NoSalary == [amount |-> 0, salaryType |-> "NONE"]

VARIABLES
    now,       \* the clock
    log,       \* the events of the month, in the order of their timestamps
    salary,    \* salary[d]: the entry effective from d
    leave      \* approved leave requests that start in the month

vars == <<now, log, salary, leave>>

Init ==
    /\ now = 0
    /\ log = << >>
    /\ salary = [d \in Dates |-> NoSalary]
    /\ leave = 0

CurrentState ==
    IF log = << >> THEN "IDLE"
    ELSE CHOOSE s \in States : \E from \in States : <<from, Last(log).action, s>> \in Transitions

\* One event per slot at most: the idempotency window.
Clock(action) ==
    /\ log # << >> => Last(log).time < now
    /\ \E to \in States : <<CurrentState, action, to>> \in Transitions
    /\ log' = Append(log, [action |-> action, time |-> now])
    /\ UNCHANGED <<now, salary, leave>>

\* MUTANT: the type of the salary is not stored.
AddAmount(d, entry) ==
    /\ Cardinality({ x \in Dates : salary[x] # NoSalary } \cup {d}) <= MaxEntries
    /\ salary' = [salary EXCEPT ![d].amount = entry.amount]
    /\ UNCHANGED <<now, log, leave>>

\* addEntry: an unconditional Put under the date it is effective from.
AddEntry(d, entry) ==
    /\ Cardinality({ x \in Dates : salary[x] # NoSalary } \cup {d}) <= MaxEntries
    /\ salary' = [salary EXCEPT ![d] = entry]
    /\ UNCHANGED <<now, log, leave>>

ApproveLeave ==
    /\ leave < MaxLeave
    /\ leave' = leave + 1
    /\ UNCHANGED <<now, log, salary>>

Tick ==
    /\ now < MaxTime
    /\ now' = now + 1
    /\ UNCHANGED <<log, salary, leave>>

Next ==
    \/ \E action \in Actions : Clock(action)
    \/ \E d \in Dates, entry \in Salaries : AddEntry(d, entry)
    \/ ApproveLeave
    \/ Tick

Spec == Init /\ [][Next]_vars

-----------------------------------------------------------------------------
(***************************************************************************)
(* Hours of the month.                                                     *)
(***************************************************************************)
EventsOn(d, events) ==
    FoldLeft(LAMBDA kept, event : IF DayOf(event.time) = d THEN Append(kept, event) ELSE kept,
             << >>, events)

\* buildEntry: worked hours of every day, and a day's hours per leave request.
TotalHours(events, requests) ==
    Sum(LAMBDA d : DailyHours(EventsOn(d, events)), 0 .. Days - 1)
      + 100 * requests * DailyMinimum

RequiredHours == 100 * MonthlyMinimum

\* MUTANT: hours below the minimum are negative overtime.
OvertimeUnclipped(total) == total - RequiredHours

OvertimeHours(total) == Max({0, total - RequiredHours})
DeficitHours(total)  == Max({0, RequiredHours - total})

\* hoursToday of getSummary.
HoursToday == HoursSoFar(EventsOn(DayOf(now), log), now)

(***************************************************************************)
(* Pay.  A monthly salary is in twelfths of the currency unit, the blended *)
(* one in parts of Days twelfths, and the net amount in 400ths of those.   *)
(***************************************************************************)
Part    == 12 * Days
NetPart == 400 * Part

MonthlySalary(entry) ==
    entry.amount * CASE entry.salaryType = "ANNUAL" -> 1
                     [] entry.salaryType = "HOURLY" -> 12 * MonthlyFullTime
                     [] OTHER                       -> 12

Applicable  == { d \in 0 .. Days : salary[d] # NoSalary }
WithinMonth == { d \in 1 .. Days : salary[d] # NoSalary }

\* MUTANT: the last day of the month is left out.
NextChangeEarly(d) == Min({ x \in WithinMonth : x > d } \cup {Days})

\* The day before which the entry of day d is replaced.
NextChange(d) == Min({ x \in WithinMonth : x > d } \cup {MonthEnd})

\* calculateBlendedSalary.
BlendedSalary ==
    IF Applicable = {} THEN 0
    ELSE IF Cardinality(WithinMonth) <= 1 THEN Days * MonthlySalary(salary[Max(Applicable)])
    ELSE Sum(LAMBDA d : MonthlySalary(salary[d]) * (NextChange(d) - d), WithinMonth)

HourlyRate(base) == Round(base, Part * MonthlyMinimum)

OvertimePay(total, rate) == OvertimeHours(total) * rate * OvertimeRate * Part

\* Math.ceil of rate times hours.
DeficitDeduction(total, rate) ==
    IF DeficitHours(total) > 0 /\ rate > 0
    THEN (rate * DeficitHours(total) + 99) \div 100
    ELSE 0

\* calculatePayrollBreakdown, for the given hours and base salary.
Net(total, base) ==
    LET rate == HourlyRate(base)
    IN  400 * base + OvertimePay(total, rate) - DeficitDeduction(total, rate) * NetPart

-----------------------------------------------------------------------------
(***************************************************************************)
(* Properties.                                                             *)
(***************************************************************************)
TypeOK ==
    /\ now \in 0 .. MaxTime
    /\ log \in Seq([action : Actions, time : 0 .. now])
    /\ salary \in [Dates -> Salaries \cup {NoSalary}]
    /\ leave \in 0 .. MaxLeave
    /\ \A d \in 0 .. Days - 1 : Sessions(EventsOn(d, log)) \in Seq(Session)

\* Reported hours are hundredths of rounded minutes: half a minute off per
\* session and half a hundredth per day, at most.
Within(hours, seconds, tolerance) ==
    LET off == 36 * hours - seconds IN -tolerance <= off /\ off <= tolerance

Credited(d) ==
    Within(DailyHours(EventsOn(d, log)), SecondsWorked(log, d, now, FALSE), 30 * ClockIns(log, d) + 18)

\* No session has run past the midnight after its clock-in.
NoneCrosses ==
    \A i \in DOMAIN log :
        DayOf(IF Ended(log, i) /\ log[i].action # "CLOCK_OUT" THEN log[i + 1].time
              ELSE log[i].time)
          = DayOf(log[i].time)

\* The hours of a day are the time the state machine was clocked in, breaks
\* taken off, in whatever sessions and breaks the day was spent (REQ-ATT-004).
HoursTrue == NoneCrosses => \A d \in 0 .. Days - 1 : Credited(d)

\* hoursToday of the summary follows the clock while a session is open: neither
\* an open break nor an earlier session of the day is counted wrongly.
SummaryLive ==
    NoneCrosses /\ (CurrentState # "IDLE" => DayOf(Last(log).time) = DayOf(now))
      => Within(HoursToday, SecondsWorked(log, DayOf(now), now, TRUE),
                30 * ClockIns(log, DayOf(now)) + 36)

\* What REQ-PAY-014 gives for some days: each at the amount in force on it, if any.
InForce(d) == salary[Max({ x \in Applicable : x <= d })]
DailySalary(d) == IF { x \in Applicable : x <= d } = {} THEN 0 ELSE MonthlySalary(InForce(d))
DueFor(days) == Sum(DailySalary, days)

\* The days before the first change of the month, if it has one.
Earlier == { d \in 1 .. Days : WithinMonth # {} /\ d < Min(WithinMonth) }

\* Every day of the month is paid once at the amount in force on it, as REQ-PAY-014
\* has it, but for the days before the first change: with several changes in the
\* month they earn nothing even if an earlier salary is in force, with a single one
\* they are paid at the new amount (calculateBlendedSalary, against the requirement;
\* a month without changes is paid whole).
BlendAccounted ==
    BlendedSalary = DueFor(1 .. Days) - DueFor(Earlier)
                    + IF Cardinality(WithinMonth) = 1
                      THEN Cardinality(Earlier) * MonthlySalary(InForce(Days)) ELSE 0

\* Whoever works the required hours is paid the salary at least, nobody is
\* deducted more than the salary and the rounding of the hourly rate.
PaidFairly ==
    LET base  == BlendedSalary
        total == TotalHours(log, leave)
        net   == Net(total, base)
    IN  base # 0 => /\ total >= RequiredHours => net >= 400 * base
                    /\ total <= RequiredHours => net <= 400 * base
                    /\ 2 * net >= -(MonthlyMinimum + 2) * NetPart

\* Work is never paid less for being recorded: without its last clock event,
\* or without its last approved leave, the month would not pay more.
WorkPays ==
    LET base == BlendedSalary
        net  == Net(TotalHours(log, leave), base)
    IN  /\ log # << >> => Net(TotalHours(Front(log), leave), base) <= net
        /\ leave > 0   => Net(TotalHours(log, leave - 1), base) <= net

-----------------------------------------------------------------------------
(***************************************************************************)
(* What the documents say and the code does not do.                        *)
(***************************************************************************)

\* REQ-ATT-003: a session that crosses midnight counts all its hours toward
\* the day of the clock-in.
CrossMidnight == \A d \in 0 .. Days - 1 : Credited(d)

=============================================================================
