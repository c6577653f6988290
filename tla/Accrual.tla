------------------------------ MODULE Accrual ------------------------------
(***************************************************************************)
(* Leave accrual: packages/core/src/leave/accrual.ts, whole days.          *)
(***************************************************************************)
EXTENDS Integers, SequencesExt

CONSTANTS
    MaxDays,       \* bound: days of a balance, a cap, a grant
    MaxTenure      \* bound: months of tenure and of a start condition

Days   == 0 .. MaxDays
Months == 0 .. MaxTenure
Smaller(a, b) == IF a < b THEN a ELSE b
Larger(a, b) == IF a > b THEN a ELSE b

\* The last tier of the schedule that the tenure reaches.
getJpAccrualDays(schedule, start, tenure) ==
    LET reached == {i \in DOMAIN schedule : tenure >= schedule[i].months}
    IN  IF tenure < start \/ reached = {} THEN 0 ELSE schedule[Max(reached)].days

getNpAccrualDays(schedule, start, tenure) ==
    IF tenure < start \/ schedule = <<>> THEN 0 ELSE Head(schedule).days

\* The monthly pattern is recognised by a single tier of at most one day.
daysToAdd(policy, tenure) ==
    IF Len(policy.schedule) = 1 /\ policy.schedule[1].days <= 1
    THEN getNpAccrualDays(policy.schedule, policy.start, tenure) ELSE 0

Forfeited(policy, carryOver, age) ==
    IF policy.carryOverMonths = 0 \/ age > policy.carryOverMonths THEN carryOver ELSE 0

\* MUTANT: the cap is applied before what is carried over is forfeited
calculateAccrual_CapFirst(policy, balance, tenure, carryOver, age) ==
    LET lost == Forfeited(policy, carryOver, age)
        new  == Smaller(balance + daysToAdd(policy, tenure), policy.cap) - lost
    IN  [balance |-> Larger(0, new), added |-> Larger(0, new - (balance - lost)), forfeited |-> lost]

calculateAccrual(policy, balance, tenure, carryOver, age) ==
    LET lost  == Forfeited(policy, carryOver, age)
        kept  == balance - lost
        new   == Smaller(kept + daysToAdd(policy, tenure), policy.cap)
    IN  [balance |-> Larger(0, new), added |-> Larger(0, new - kept), forfeited |-> lost]

-----------------------------------------------------------------------------
(* What the rules promise for one input, and the small inputs.             *)

Tiers == [months : Months, days : Days]
Schedules == {<<>>} \cup {<<a>> : a \in Tiers}
    \cup {s \in {<<a, b>> : a, b \in Tiers} : s[1].months < s[2].months}
Policies == [schedule : {<<>>} \cup {<<[months |-> 0, days |-> n]>> : n \in Days},
             start : Months, cap : Days, carryOverMonths : Months]

\* A month's accrual ends at or below the cap, and short of the cap no day
\* appears or is lost but the ones reported: the balance before, less what was
\* forfeited, plus what was granted.  A balance above the cap is cut down to it,
\* and the report does not say so: those balances are left out of the second
\* part (calculateAccrual).
WithinCap(p, balance, tenure, carryOver, age) ==
    LET r == calculateAccrual(p, balance, tenure, carryOver, age)
        kept == balance - r.forfeited
    IN  /\ r.balance \in 0 .. p.cap
        /\ kept <= p.cap =>
             /\ r.balance = kept + r.added
             /\ r.added = Smaller(daysToAdd(p, tenure), p.cap - kept)

\* The grant of a year is the one of the highest tier reached, and nothing before
\* the start condition; it never falls as tenure grows if the tiers do not
\* (getJpAccrualDays over schedules in the order of their months).
GrantsFollowTenure(s, start, tenure) ==
    LET days == getJpAccrualDays(s, start, tenure)
        reached == {i \in DOMAIN s : s[i].months <= tenure}
    IN  /\ tenure < start \/ reached = {} => days = 0
        /\ tenure >= start => \A i \in reached :
              (\A j \in reached : s[j].months <= s[i].months) => days = s[i].days
        /\ (\A i, j \in DOMAIN s : i <= j => s[i].days <= s[j].days) =>
              \A later \in tenure .. MaxTenure : days <= getJpAccrualDays(s, start, later)
=============================================================================
